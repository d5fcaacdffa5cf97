---------------------------- MODULE AuxBuffers ----------------------------
(***************************************************************************)
(* The auxiliary buffers that hold the strings of events, and when the     *)
(* source may reuse them (shmbuf/buffer-aux.c, the string part of          *)
(* shmbuf/buffer.c).                                                       *)
(*                                                                         *)
(* The source puts the string of an event in an auxiliary buffer and a     *)
(* reference to it in the event.  A full buffer is reused when all events  *)
(* with a string in it were processed (last_processed_id) or lie in a      *)
(* range of events the buffer manager dropped (dropped_ranges).  The       *)
(* ranges are written by the buffer manager and read by the source, and    *)
(* drop_ranges_lock is meant to exclude the two from each other.           *)
(*                                                                         *)
(* Every event has one string, every auxiliary buffer room for AuxSize of  *)
(* them; a string is the id of its event.                                  *)
(***************************************************************************)
EXTENDS Naturals, Sequences, Functions

CONSTANTS MaxEvents,    \* bound on the events
          ShmSize,      \* elements the shared memory buffer holds
          BufCapacity,  \* elements the arbiter buffer holds
          NotifyPeriod, \* drops after which the range so far is reported (10000)
          AuxSize,      \* strings an auxiliary buffer holds
          RangesNum     \* DROPPED_RANGES_NUM

ASSUME AuxAssumption ==
    /\ MaxEvents \in Nat /\ ShmSize \in Nat \ {0}
    /\ BufCapacity \in Nat /\ BufCapacity >= 3 /\ NotifyPeriod \in Nat \ {0}
    /\ AuxSize \in Nat \ {0} /\ RangesNum \in Nat \ {0}

VARIABLES
    evid,            \* source: id of the event it makes or made last
    aux,             \* the auxiliary buffers, a sequence in order of their idx
    age,             \* source: aux_buffers_age, indices into aux
    cur,             \* source: cur_aux_buff, 0 if there is none
    spc,             \* source: where it is
    scan,            \* source: position in age
    rng,             \* source: position in ranges
    rbegin,          \* source: the begin it read last
    shm,             \* events [id, buf, off] in the shared memory
    bpc,             \* buffer manager: where it is
    drop_begin_id, dropped_num,   \* buffer manager
    periodic,        \* buffer manager: it notifies while it goes on dropping
    buf,             \* the arbiter buffer
    cpc,             \* arbiter: where it is
    last_id,         \* arbiter: local of shm_arbiter_buffer_drop
    last_processed,  \* info.last_processed_id
    ranges,          \* info.dropped_ranges
    ranges_next,     \* info.dropped_ranges_next
    lock,            \* info.dropped_ranges_lock
    dropped          \* all ids dropped, for the properties

sourceVars == <<evid, aux, age, cur, spc, scan, rng, rbegin>>
bmmVars == <<bpc, drop_begin_id, dropped_num, periodic, ranges, ranges_next, dropped>>
arbiterVars == <<cpc, last_id, last_processed>>
auxVars == <<sourceVars, shm, bmmVars, buf, arbiterVars, lock>>

(* ~0LL, larger than every id. *)
Infinity == MaxEvents + 1

AuxInit ==
    /\ evid = 0 /\ aux = << >> /\ age = << >> /\ cur = 0
    /\ spc = "idle" /\ scan = 1 /\ rng = 1 /\ rbegin = 0
    /\ shm = << >>
    /\ bpc = "get" /\ drop_begin_id = 0 /\ dropped_num = 0 /\ periodic = FALSE
    /\ buf = << >>
    /\ cpc = "idle" /\ last_id = 0 /\ last_processed = 0
    /\ ranges = [i \in 1 .. RangesNum |-> [begin |-> 0, end |-> 0]]
    /\ ranges_next = 1 /\ lock = FALSE
    /\ dropped = {}

-----------------------------------------------------------------------------
(* drop_ranges_lock: the loop goes on while the exchange succeeds, so it   *)
(* ends with the flag set, whoever set it.  Nobody waits for anybody.      *)
Lock == lock' = TRUE
Unlock == lock' = FALSE

-----------------------------------------------------------------------------
(* The source. *)

(* There is a current buffer and it has room for another string. *)
CurrentHasRoom == cur # 0 /\ aux[cur].head < AuxSize

(* start_push found room; partial_push_str calls writer_get_aux_buffer.    *)
StartPush ==
    /\ spc = "idle" /\ evid < MaxEvents /\ Len(shm) < ShmSize
    /\ evid' = evid + 1
    /\ IF CurrentHasRoom
         THEN spc' = "push" /\ UNCHANGED scan
         ELSE spc' = "scan" /\ scan' = 1
    /\ UNCHANGED <<aux, age, cur, rng, rbegin, shm, bmmVars, buf, arbiterVars, lock>>

(* new_aux_buffer *)
NewAux ==
    /\ aux' = Append(aux, [head |-> 0, first |-> 0, last |-> Infinity,
                           data |-> [i \in 1 .. AuxSize |-> 0]])
    /\ age' = Append(age, Len(aux) + 1)
    /\ cur' = Len(aux) + 1

(* Variant: the buffer keeps its place among the older ones. *)
ReuseAuxInPlace ==
    LET b == age[scan]
    IN  /\ aux' = [aux EXCEPT ![b].head = 0, ![b].first = 0, ![b].last = Infinity]
        /\ cur' = b
        /\ UNCHANGED age

(* The buffer at position scan of age is free: reset it and make it the    *)
(* youngest and current one.                                               *)
ReuseAux ==
    LET b == age[scan]
    IN  /\ aux' = [aux EXCEPT ![b].head = 0, ![b].first = 0, ![b].last = Infinity]
        /\ age' = SubSeq(age, 1, scan - 1) \o SubSeq(age, scan + 1, Len(age)) \o <<b>>
        /\ cur' = b

(* Variant: a buffer is free once its first event was processed. *)
ScanAuxFirstProcessed ==
    /\ spc = "scan"
    /\ IF scan > Len(age)
         THEN NewAux /\ spc' = "push" /\ UNCHANGED rng
       ELSE IF aux[age[scan]].first <= last_processed
         THEN ReuseAux /\ spc' = "push" /\ UNCHANGED rng
       ELSE spc' = "lock" /\ rng' = 1 /\ UNCHANGED <<aux, age, cur>>
    /\ UNCHANGED <<evid, scan, rbegin, shm, bmmVars, buf, arbiterVars, lock>>

(* The loop over the buffers from the oldest on: were all events of this   *)
(* one processed?  If not, ab_was_dropped looks at the ranges.             *)
ScanAux ==
    /\ spc = "scan"
    /\ IF scan > Len(age)
         THEN NewAux /\ spc' = "push" /\ UNCHANGED rng
       ELSE IF aux[age[scan]].last <= last_processed
         THEN ReuseAux /\ spc' = "push" /\ UNCHANGED rng
       ELSE spc' = "lock" /\ rng' = 1 /\ UNCHANGED <<aux, age, cur>>
    /\ UNCHANGED <<evid, scan, rbegin, shm, bmmVars, buf, arbiterVars, lock>>

LockRanges ==
    /\ spc = "lock" /\ Lock
    /\ spc' = "end0"
    /\ UNCHANGED <<evid, aux, age, cur, scan, rng, rbegin, shm, bmmVars, buf, arbiterVars>>

(* No range covers the buffer: unlock and go on with the next buffer. *)
NotDropped ==
    /\ spc = "end0" /\ rng > RangesNum
    /\ Unlock
    /\ spc' = "scan" /\ scan' = scan + 1
    /\ UNCHANGED <<evid, aux, age, cur, rng, rbegin, shm, bmmVars, buf, arbiterVars>>

(* r->end == 0, r->begin <= first_event_id, r->end >= last_event_id: three *)
(* reads of a range that may change in between.                            *)
ReadRange ==
    /\ rng <= RangesNum
    /\ LET ab == aux[age[scan]]
       IN  \/ /\ spc = "end0"
              /\ IF ranges[rng].end = 0
                   THEN rng' = rng + 1 /\ UNCHANGED spc
                   ELSE spc' = "begin" /\ UNCHANGED rng
              /\ UNCHANGED rbegin
           \/ /\ spc = "begin"
              /\ rbegin' = ranges[rng].begin
              /\ IF ranges[rng].begin <= ab.first
                   THEN spc' = "end" /\ UNCHANGED rng
                   ELSE spc' = "end0" /\ rng' = rng + 1
    /\ UNCHANGED <<evid, aux, age, cur, scan, shm, bmmVars, buf, arbiterVars, lock>>

ReadRangeEnd ==
    /\ spc = "end"
    /\ IF ranges[rng].end >= aux[age[scan]].last
         THEN ReuseAux /\ Unlock /\ spc' = "push" /\ UNCHANGED rng
         ELSE spc' = "end0" /\ rng' = rng + 1 /\ UNCHANGED <<aux, age, cur, lock>>
    /\ UNCHANGED <<evid, scan, rbegin, shm, bmmVars, buf, arbiterVars>>

(* The string is copied, the buffer's ids are updated, and finish_push     *)
(* publishes the event.                                                    *)
PushString ==
    /\ spc = "push"
    /\ LET off == aux[cur].head + 1
       IN  /\ aux' = [aux EXCEPT ![cur].data[off] = evid, ![cur].head = off,
                                 ![cur].first = IF @ = 0 THEN evid ELSE @,
                                 ![cur].last = evid]
           /\ shm' = Append(shm, [id |-> evid, buf |-> cur, off |-> off])
    /\ spc' = "idle"
    /\ UNCHANGED <<evid, age, cur, scan, rng, rbegin, bmmVars, buf, arbiterVars, lock>>

SourceNext ==
    \/ StartPush \/ ScanAux \/ LockRanges \/ NotDropped \/ ReadRange
    \/ ReadRangeEnd \/ PushString

-----------------------------------------------------------------------------
(* The buffer manager: what StreamFetch shows in detail. *)

(* continue_dropping: this is the NotifyPeriod-th event of the drop, or a   *)
(* multiple of that.                                                       *)
TimeToNotify == dropped_num > 0 /\ (dropped_num + 1) % NotifyPeriod = 0

(* Forward or drop, by the space in the arbiter buffer. *)
HandleEvent ==
    /\ bpc = "get" /\ shm # << >>
    /\ LET id == Head(shm).id
           free == BufCapacity - Len(buf)
       IN  \/ /\ dropped_num = 0 /\ free > 0
              /\ buf' = Append(buf, Head(shm))
              /\ UNCHANGED bmmVars
           \/ /\ dropped_num > 0 \/ free = 0
              /\ dropped_num = 0 \/ free <= 1
              /\ ~TimeToNotify
              /\ dropped_num' = dropped_num + 1
              /\ drop_begin_id' = IF dropped_num = 0 THEN id ELSE drop_begin_id
              /\ dropped' = dropped \cup {id}
              /\ UNCHANGED <<bpc, periodic, ranges, ranges_next, buf>>
    /\ shm' = Tail(shm)
    /\ UNCHANGED <<sourceVars, arbiterVars, lock>>

(* The same, when the range is to be reported: buffer_notify_dropped comes *)
(* before the event itself is consumed (in UnlockRanges).                  *)
NotifyDrop ==
    /\ bpc = "get" /\ shm # << >>
    /\ BufCapacity - Len(buf) <= 1 /\ TimeToNotify
    /\ dropped_num' = dropped_num + 1
    /\ periodic' = TRUE /\ bpc' = "slot"
    /\ UNCHANGED <<sourceVars, shm, drop_begin_id, ranges, ranges_next, dropped, buf,
                   arbiterVars, lock>>

(* The drop is over: push_dropped_event, then buffer_notify_dropped. *)
PushHole ==
    /\ bpc = "get" /\ shm # << >> /\ dropped_num > 0
    /\ BufCapacity - Len(buf) > 1
    /\ buf' = Append(buf, [id |-> Head(shm).id - 1, buf |-> 0, off |-> 0])
    /\ bpc' = "slot"
    /\ UNCHANGED <<sourceVars, shm, drop_begin_id, dropped_num, periodic, ranges,
                   ranges_next, dropped, arbiterVars, lock>>

(* The range in the current slot is extended, or the next slot is taken. *)
NextSlot == IF ranges_next = RangesNum THEN 1 ELSE ranges_next + 1

SameRange ==
    LET r == ranges[ranges_next]
    IN  r.begin = drop_begin_id \/ r.end = r.begin - 1

ChooseSlot ==
    /\ bpc = "slot"
    /\ IF SameRange
         THEN bpc' = "setend" /\ UNCHANGED ranges_next
         ELSE bpc' = "setbegin" /\ ranges_next' = NextSlot
    /\ Lock
    /\ UNCHANGED <<sourceVars, shm, drop_begin_id, dropped_num, periodic, ranges, dropped,
                   buf, arbiterVars>>

SetBegin ==
    /\ bpc = "setbegin"
    /\ ranges' = [ranges EXCEPT ![ranges_next].begin = drop_begin_id]
    /\ bpc' = "setend"
    /\ UNCHANGED <<sourceVars, shm, drop_begin_id, dropped_num, periodic, ranges_next,
                   dropped, buf, arbiterVars, lock>>

(* Variant: the range ends with the event behind the dropped ones. *)
SetEndTooFar ==
    /\ bpc = "setend"
    /\ ranges' = [ranges EXCEPT ![ranges_next].end = Head(shm).id]
    /\ bpc' = "unlock"
    /\ UNCHANGED <<sourceVars, shm, drop_begin_id, dropped_num, periodic, ranges_next,
                   dropped, buf, arbiterVars, lock>>

SetEnd ==
    /\ bpc = "setend"
    /\ ranges' = [ranges EXCEPT ![ranges_next].end = Head(shm).id - 1]
    /\ bpc' = "unlock"
    /\ UNCHANGED <<sourceVars, shm, drop_begin_id, dropped_num, periodic, ranges_next,
                   dropped, buf, arbiterVars, lock>>

(* A drop that is over is forgotten; one that goes on takes its event.     *)
UnlockRanges ==
    /\ bpc = "unlock" /\ Unlock
    /\ \/ /\ ~periodic
          /\ dropped_num' = 0
          /\ UNCHANGED <<shm, dropped>>
       \/ /\ periodic
          /\ shm' = Tail(shm) /\ dropped' = dropped \cup {Head(shm).id}
          /\ UNCHANGED dropped_num
    /\ periodic' = FALSE /\ bpc' = "get"
    /\ UNCHANGED <<sourceVars, drop_begin_id, ranges, ranges_next, buf, arbiterVars>>

BmmNext ==
    \/ HandleEvent \/ NotifyDrop \/ PushHole
    \/ ChooseSlot \/ SetBegin \/ SetEnd \/ UnlockRanges

-----------------------------------------------------------------------------
(* The arbiter: it is done with the oldest element of its buffer. *)
DropFirst ==
    /\ cpc = "idle" /\ buf # << >>
    /\ last_id' = Head(buf).id
    /\ buf' = Tail(buf)
    /\ cpc' = "notify"
    /\ UNCHANGED <<sourceVars, shm, bmmVars, last_processed, lock>>

NotifyProcessed ==
    /\ cpc = "notify"
    /\ last_processed' = last_id
    /\ cpc' = "idle"
    /\ UNCHANGED <<sourceVars, shm, bmmVars, buf, last_id, lock>>

AuxArbiterNext == DropFirst \/ NotifyProcessed

-----------------------------------------------------------------------------
(* All events were made and are gone from the buffers. *)
AllProcessed ==
    /\ evid = MaxEvents /\ spc = "idle" /\ shm = << >> /\ buf = << >>
    /\ UNCHANGED auxVars

AuxNext == SourceNext \/ BmmNext \/ AuxArbiterNext \/ AllProcessed

AuxSpec == AuxInit /\ [][AuxNext]_auxVars

-----------------------------------------------------------------------------
AuxRecords == [head : 0 .. AuxSize, first : 0 .. MaxEvents, last : 1 .. Infinity,
               data : [1 .. AuxSize -> 0 .. MaxEvents]]
Strings == [id : 0 .. MaxEvents, buf : Nat, off : Nat]
Ranges == [begin : 0 .. MaxEvents, end : 0 .. MaxEvents]

(* The values the variables take. *)
AuxTypeOK ==
    /\ evid \in 0 .. MaxEvents
    /\ aux \in Seq(AuxRecords) /\ age \in Seq(Nat) /\ cur \in 0 .. Len(aux)
    /\ spc \in {"idle", "scan", "lock", "end0", "begin", "end", "push"}
    /\ scan \in Nat \ {0} /\ rng \in Nat \ {0} /\ rbegin \in 0 .. MaxEvents
    /\ shm \in Seq(Strings) /\ Len(shm) <= ShmSize
    /\ bpc \in {"get", "slot", "setbegin", "setend", "unlock"}
    /\ drop_begin_id \in 0 .. MaxEvents /\ dropped_num \in Nat /\ periodic \in BOOLEAN
    /\ buf \in Seq(Strings) /\ Len(buf) <= BufCapacity
    /\ cpc \in {"idle", "notify"}
    /\ last_id \in 0 .. MaxEvents /\ last_processed \in 0 .. MaxEvents
    /\ ranges \in [1 .. RangesNum -> Ranges] /\ ranges_next \in 1 .. RangesNum
    /\ lock \in BOOLEAN /\ dropped \subseteq 1 .. MaxEvents

(* No slot of dropped_ranges was used twice: the first one is used last.   *)
SlotsFresh == ranges[1] = [begin |-> 0, end |-> 0]

(* The events that the monitor side still has. *)
Live == Range(shm) \cup Range(buf)

(* The string of an event that the monitor side still has is the one the   *)
(* source wrote: its auxiliary buffer was not reused too early.  This      *)
(* needs that no slot of dropped_ranges was used twice: the lock does not  *)
(* keep the source from reading one half of a range before it is           *)
(* overwritten and the other half after that.                              *)
StringsIntact ==
    SlotsFresh => \A e \in Live : e.buf # 0 => aux[e.buf].data[e.off] = e.id

(* The assertions that the current buffer is the last of aux_buffers_age,  *)
(* which lists every buffer once (and the types of what they speak of).    *)
AgeOrder ==
    /\ AuxTypeOK
    /\ cur # 0 => age[Len(age)] = cur
    /\ Len(age) = Len(aux)
    /\ \A i, j \in DOMAIN age : i # j => age[i] # age[j]

(* "the range of autodropped events (for garbage collection)": the source  *)
(* never takes for a range of dropped events one that is not, again as     *)
(* long as no slot was used twice.                                         *)
RangeIsOfDropped ==
    SlotsFresh /\ spc = "end" => rbegin .. ranges[rng].end \subseteq dropped

(* "spin lock": the source and the buffer manager are not both between     *)
(* lock and unlock.                                                        *)
LockExcludes ==
    ~(spc \in {"end0", "begin", "end"} /\ bpc \in {"setbegin", "setend", "unlock"})

-----------------------------------------------------------------------------
(* The inductive invariant behind these properties. *)

(* The events that are in the shared memory or were, and those taken from  *)
(* it.                                                                     *)
Pushed == IF spc = "idle" THEN evid ELSE evid - 1
Gone == Pushed - Len(shm)

(* Where the source is: it holds a position of the list while it looks at  *)
(* the ranges, and a buffer with room when it copies the string.           *)
SourceInv ==
    /\ spc # "idle" => evid >= 1 /\ Len(shm) < ShmSize
    /\ spc \in {"lock", "end0", "begin", "end"} => scan \in 1 .. Len(age)
    /\ spc \in {"begin", "end"} => rng <= RangesNum
    /\ spc = "push" => CurrentHasRoom
    /\ \A i \in 1 .. Len(aux) : aux[i].first <= evid

(* The list by age is a permutation of the buffers. *)
AgeInv ==
    /\ Len(age) = Len(aux) /\ \A i \in 1 .. Len(age) : age[i] \in 1 .. Len(aux)
    /\ cur # 0 => age[Len(age)] = cur
    /\ \A i, j \in 1 .. Len(age) : i # j => age[i] # age[j]

(* The ids: what is in the shared memory follows what was taken from it,   *)
(* and what the arbiter has reported lies before all that it still has.    *)
IdInv ==
    /\ Len(shm) <= Pushed /\ \A i \in 1 .. Len(shm) : shm[i].id = Gone + i
    /\ last_processed <= last_id /\ last_id <= Gone
    /\ \A i \in 1 .. Len(buf) :
          /\ last_id <= buf[i].id /\ buf[i].id <= Gone
          /\ buf[i].buf # 0 => last_id < buf[i].id /\ buf[i].id \notin dropped
    /\ \A i, j \in 1 .. Len(buf) : i < j =>
          buf[i].id <= buf[j].id /\ (buf[j].buf # 0 => buf[i].id < buf[j].id)

(* The drop in progress is of all events from its begin to the last one    *)
(* that was taken; it lies behind the range that was noted last, or that   *)
(* range is its first part.                                                *)
DropInv ==
    /\ dropped \subseteq 1 .. Gone
    /\ dropped_num > 0 => /\ drop_begin_id >= 1 /\ drop_begin_id <= Gone
                          /\ drop_begin_id .. Gone \subseteq dropped
    /\ bpc # "get" => shm # << >> /\ dropped_num > 0
    /\ LET r == ranges[ranges_next]
       IN  /\ bpc \in {"get", "slot"} => /\ r.begin <= r.end /\ r.end <= Gone
                                         /\ dropped_num > 0 =>
                                              r.end < drop_begin_id \/ r.begin = drop_begin_id
           /\ bpc \in {"setend", "unlock"} => r.begin = drop_begin_id
           /\ bpc = "unlock" => r.end = Gone

(* While no slot was used twice, a range that has an end is a range of     *)
(* dropped events, whose begin does not change any more ...                *)
Empty == [begin |-> 0, end |-> 0]

SlotInv ==
    /\ \A s \in 1 .. RangesNum :
          /\ ranges[s].end # 0 => ranges[s].begin .. ranges[s].end \subseteq dropped
          /\ s > ranges_next /\ ~(ranges_next = 1 /\ bpc = "setbegin") => ranges[s] = Empty
    /\ bpc = "setbegin" => ranges[ranges_next] = Empty

(* ... so that the source reads one range, and a buffer inside of it ...   *)
ReadInv ==
    /\ spc \in {"begin", "end"} => ranges[rng].end # 0
    /\ spc = "end" => rbegin = ranges[rng].begin /\ rbegin <= aux[age[scan]].first

(* ... and the string of a live event is in the used part of its buffer,   *)
(* among the events that the buffer says it has.                           *)
Kept(e) ==
    e.buf # 0 => /\ e.buf \in 1 .. Len(aux) /\ e.off \in 1 .. aux[e.buf].head
                 /\ aux[e.buf].first \in 1 .. e.id /\ e.id <= aux[e.buf].last
                 /\ aux[e.buf].data[e.off] = e.id

StringInv == \A e \in Live : Kept(e)

AuxInv ==
    /\ AuxTypeOK /\ SourceInv /\ AgeInv /\ IdInv /\ DropInv
    /\ SlotsFresh => SlotInv /\ ReadInv /\ StringInv
=============================================================================
