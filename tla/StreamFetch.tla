---------------------------- MODULE StreamFetch ----------------------------
(***************************************************************************)
(* One event stream from its source to the arbiter (core/arbiter.c,        *)
(* default_buffer_manager_thrd of core/shamon.c, the performance layer the *)
(* compiler generates):                                                    *)
(*                                                                         *)
(*   source --shm--> buffer manager thread --buf--> arbiter thread         *)
(*                                                                         *)
(* The buffer manager moves events from the shared memory to the arbiter   *)
(* buffer.  When the arbiter buffer is full it drops events, and when      *)
(* there is room again it puts a hole event in their place.                *)
(*                                                                         *)
(* shm and buf are bounded FIFO queues: SpscRingbuf shows that the ring    *)
(* buffers behind them are.  An event is its id; the source numbers its    *)
(* events 1, 2, ...  An action makes at most one access to what another    *)
(* thread changes.                                                         *)
(***************************************************************************)
EXTENDS Naturals, Sequences, FiniteSets

CONSTANTS MaxEvents,      \* bound on the events the source sends
          ShmSize,        \* elements the shared memory buffer holds
          BufCapacity,    \* elements the arbiter buffer holds
          DropThreshold,  \* drop_space_threshold
          NotifyPeriod,   \* events between two notifications while dropping
          FetchFuns       \* the functions the buffer manager may fetch with

ASSUME StreamAssumption ==
    /\ MaxEvents \in Nat /\ ShmSize \in Nat \ {0}
    /\ BufCapacity \in Nat /\ BufCapacity >= 3
    /\ DropThreshold \in 1 .. (BufCapacity - 1)
    /\ NotifyPeriod \in Nat \ {0}
    /\ FetchFuns \subseteq {"stream_fetch", "stream_filter_fetch"}

VARIABLES
    sent,           \* source: id of the last event it pushed
    destroyed,      \* source: info.destroyed of the shared buffer
    shm,            \* the shared memory buffer
    fetch,          \* buffer manager: stream_filter_fetch with the generated
                    \* layer, or stream_fetch with default_buffer_manager_thrd
    bpc,            \* buffer manager: where it is
    last_ev_id,     \* buffer manager: local of stream_fetch
    last_event_id,  \* buffer manager: stream->last_event_id
    dropped_num,    \* buffer manager: read by the arbiter, too
    drop_begin_id,  \* buffer manager
    hole_n,         \* buffer manager: the counter inside the hole event
    buf,            \* the arbiter buffer
    count_streams,  \* count_event_streams
    cpc,            \* arbiter: where it is
    last_id,        \* arbiter: local of shm_arbiter_buffer_drop
    last_processed, \* info.last_processed_id
    (* what happened, for the properties *)
    written,        \* all elements ever pushed to buf
    filtered,       \* ids the filter rejected
    dropped,        \* ids dropped for lack of space
    notified,       \* ids the source was told were dropped
    counted         \* the buffer manager was running when the arbiter, about
                    \* to exit, read count_streams

sourceVars == <<sent, destroyed, fetch>>
bmmVars == <<bpc, last_ev_id, last_event_id, dropped_num, drop_begin_id, hole_n,
             count_streams, written, filtered, dropped, notified>>
arbiterVars == <<cpc, last_id, last_processed, counted>>
vars == <<sourceVars, shm, bmmVars, buf, arbiterVars>>

Ids == 1 .. MaxEvents

Event(id) == [kind |-> "event", id |-> id, n |-> 0]
Hole(id, n) == [kind |-> "hole", id |-> id, n |-> n]

Init ==
    /\ sent = 0 /\ destroyed = FALSE /\ shm = << >>
    /\ fetch \in FetchFuns /\ bpc = "start" /\ last_ev_id = 1 /\ last_event_id = 0
    /\ dropped_num = 0 /\ drop_begin_id = 0 /\ hole_n = 0
    /\ buf = << >> /\ count_streams = 0
    /\ cpc = "idle" /\ last_id = 0 /\ last_processed = 0
    /\ written = << >> /\ filtered = {} /\ dropped = {} /\ notified = {}
    /\ counted = FALSE

-----------------------------------------------------------------------------
(* The source. *)

(* buffer_push or start_push ... finish_push of the next event; with no    *)
(* room the source tries again.                                            *)
SourcePush ==
    /\ ~destroyed /\ sent < MaxEvents /\ Len(shm) < ShmSize
    /\ sent' = sent + 1
    /\ shm' = Append(shm, sent + 1)
    /\ UNCHANGED <<destroyed, fetch, bmmVars, buf, arbiterVars>>

(* destroy_shared_buffer: no push follows. *)
SourceDestroy ==
    /\ ~destroyed
    /\ destroyed' = TRUE
    /\ UNCHANGED <<sent, fetch, shm, bmmVars, buf, arbiterVars>>

-----------------------------------------------------------------------------
(* The buffer manager thread. *)

FilterInFetch == fetch = "stream_filter_fetch"

Goto(place) == bpc' = place

FreeSpace == BufCapacity - Len(buf)

(* The thread counts itself among the running ones. *)
Start ==
    /\ bpc = "start"
    /\ count_streams' = count_streams + 1
    /\ Goto("get")
    /\ UNCHANGED <<sourceVars, shm, last_ev_id, last_event_id, dropped_num,
                   drop_begin_id, hole_n, written, filtered, dropped, notified,
                   buf, arbiterVars>>

(* get_event reads an event, or goes on to see if the stream is ready. *)
GetEvent ==
    /\ bpc = "get"
    /\ IF shm # << >>
         THEN /\ last_ev_id' = Head(shm)
              /\ last_event_id' = last_event_id + 1
              /\ Goto(IF FilterInFetch THEN "filter" ELSE "handle")
         ELSE /\ Goto("ready")
              /\ UNCHANGED <<last_ev_id, last_event_id>>
    /\ UNCHANGED <<sourceVars, shm, dropped_num, drop_begin_id, hole_n,
                   count_streams, written, filtered, dropped, notified, buf,
                   arbiterVars>>

(* is_ready of the stream: the flag first, then the size. *)
CheckDestroyed ==
    /\ bpc = "ready"
    /\ Goto(IF destroyed THEN "size" ELSE "get")
    /\ UNCHANGED <<sourceVars, shm, last_ev_id, last_event_id, dropped_num,
                   drop_begin_id, hole_n, count_streams, written, filtered,
                   dropped, notified, buf, arbiterVars>>

CheckSize ==
    /\ bpc = "size"
    /\ Goto(IF shm # << >> THEN "get" ELSE "end")
    /\ UNCHANGED <<sourceVars, shm, last_ev_id, last_event_id, dropped_num,
                   drop_begin_id, hole_n, count_streams, written, filtered,
                   dropped, notified, buf, arbiterVars>>

(* The filter is applied before dropping is considered (stream_filter_fetch) *)
(* or to the event stream_fetch returned (default_buffer_manager_thrd).      *)
Filter(keep) ==
    /\ bpc = "filter"
    /\ IF keep
         THEN /\ Goto(IF FilterInFetch THEN "handle" ELSE "write")
              /\ UNCHANGED filtered
         ELSE /\ Goto(IF FilterInFetch THEN "skip" ELSE "consume")
              /\ filtered' = filtered \cup {Head(shm)}
    /\ UNCHANGED <<sourceVars, shm, last_ev_id, last_event_id, dropped_num,
                   drop_begin_id, hole_n, count_streams, written, dropped,
                   notified, buf, arbiterVars>>

(* stream_fetch returns the event. *)
Fetched == IF FilterInFetch THEN "write" ELSE "filter"

(* Variants: dropping ends as soon as there is any room; a full buffer is  *)
(* waited for.                                                             *)
HandleDroppingAnyRoom ==
    /\ bpc = "handle"
    /\ Goto(IF dropped_num > 0
              THEN IF FreeSpace > 0 THEN "hole" ELSE "continue"
            ELSE IF FreeSpace = 0 THEN "begin" ELSE Fetched)
    /\ UNCHANGED <<sourceVars, shm, last_ev_id, last_event_id, dropped_num,
                   drop_begin_id, hole_n, count_streams, written, filtered,
                   dropped, notified, buf, arbiterVars>>

HandleDroppingWaits ==
    /\ bpc = "handle"
    /\ Goto(IF dropped_num > 0
              THEN IF FreeSpace > DropThreshold THEN "hole" ELSE "continue"
            ELSE IF FreeSpace = 0 THEN "handle" ELSE Fetched)
    /\ UNCHANGED <<sourceVars, shm, last_ev_id, last_event_id, dropped_num,
                   drop_begin_id, hole_n, count_streams, written, filtered,
                   dropped, notified, buf, arbiterVars>>

(* handle_dropping_event decides by the free space it sees. *)
HandleDropping ==
    /\ bpc = "handle"
    /\ Goto(IF dropped_num > 0
              THEN IF FreeSpace > DropThreshold THEN "hole" ELSE "continue"
            ELSE IF FreeSpace = 0 THEN "begin" ELSE Fetched)
    /\ UNCHANGED <<sourceVars, shm, last_ev_id, last_event_id, dropped_num,
                   drop_begin_id, hole_n, count_streams, written, filtered,
                   dropped, notified, buf, arbiterVars>>

(* Variant: the hole is initialised but not updated with its first event. *)
StartDroppingNoUpdate ==
    /\ bpc = "begin"
    /\ drop_begin_id' = Head(shm)
    /\ dropped_num' = dropped_num + 1
    /\ hole_n' = 0
    /\ dropped' = dropped \cup {Head(shm)}
    /\ Goto("skip")
    /\ UNCHANGED <<sourceVars, shm, last_ev_id, last_event_id, count_streams,
                   written, filtered, notified, buf, arbiterVars>>

StartDropping ==
    /\ bpc = "begin"
    /\ drop_begin_id' = Head(shm)
    /\ dropped_num' = dropped_num + 1
    /\ hole_n' = 1
    /\ dropped' = dropped \cup {Head(shm)}
    /\ Goto("skip")
    /\ UNCHANGED <<sourceVars, shm, last_ev_id, last_event_id, count_streams,
                   written, filtered, notified, buf, arbiterVars>>

ContinueDropping ==
    /\ bpc = "continue"
    /\ dropped_num' = dropped_num + 1
    /\ hole_n' = hole_n + 1
    /\ dropped' = dropped \cup {Head(shm)}
    /\ notified' = IF (dropped_num + 1) % NotifyPeriod = 0
                     THEN notified \cup (drop_begin_id .. (Head(shm) - 1))
                     ELSE notified
    /\ Goto("skip")
    /\ UNCHANGED <<sourceVars, shm, last_ev_id, last_event_id, drop_begin_id,
                   count_streams, written, filtered, buf, arbiterVars>>

(* Variant: the hole gets the id of the event behind it. *)
PushHoleNextId ==
    /\ bpc \in {"hole", "endhole"}
    /\ IF FreeSpace > 0
         THEN /\ buf' = Append(buf, Hole(last_ev_id, hole_n))
              /\ written' = Append(written, Hole(last_ev_id, hole_n))
         ELSE UNCHANGED <<buf, written>>
    /\ Goto(IF bpc = "hole" THEN "holed" ELSE "endholed")
    /\ UNCHANGED <<sourceVars, shm, last_ev_id, last_event_id, dropped_num,
                   drop_begin_id, hole_n, count_streams, filtered, dropped,
                   notified, arbiterVars>>

(* Variant: the hole gets the id of the first event it stands for. *)
PushHoleFirstId ==
    /\ bpc \in {"hole", "endhole"}
    /\ IF FreeSpace > 0
         THEN /\ buf' = Append(buf, Hole(drop_begin_id, hole_n))
              /\ written' = Append(written, Hole(drop_begin_id, hole_n))
         ELSE UNCHANGED <<buf, written>>
    /\ Goto(IF bpc = "hole" THEN "holed" ELSE "endholed")
    /\ UNCHANGED <<sourceVars, shm, last_ev_id, last_event_id, dropped_num,
                   drop_begin_id, hole_n, count_streams, filtered, dropped,
                   notified, arbiterVars>>

(* push_dropped_event pushes the hole (the result of the push is ignored), *)
(* called when an event is to be forwarded and when the stream ended.      *)
PushHole ==
    /\ bpc \in {"hole", "endhole"}
    /\ IF FreeSpace > 0
         THEN /\ buf' = Append(buf, Hole(last_ev_id - 1, hole_n))
              /\ written' = Append(written, Hole(last_ev_id - 1, hole_n))
         ELSE UNCHANGED <<buf, written>>
    /\ Goto(IF bpc = "hole" THEN "holed" ELSE "endholed")
    /\ UNCHANGED <<sourceVars, shm, last_ev_id, last_event_id, dropped_num,
                   drop_begin_id, hole_n, count_streams, filtered, dropped,
                   notified, arbiterVars>>

(* Variant: the range the source is told of includes the event behind the  *)
(* hole.                                                                   *)
HolePushedRangeTooLong ==
    /\ bpc \in {"holed", "endholed"}
    /\ notified' = notified \cup (drop_begin_id .. last_ev_id)
    /\ dropped_num' = 0
    /\ Goto(IF bpc = "holed" THEN Fetched ELSE "end")
    /\ UNCHANGED <<sourceVars, shm, last_ev_id, last_event_id, drop_begin_id,
                   hole_n, count_streams, written, filtered, dropped, buf,
                   arbiterVars>>

(* ... tells the source, and the caller forgets about the drop. *)
HolePushed ==
    /\ bpc \in {"holed", "endholed"}
    /\ notified' = notified \cup (drop_begin_id .. (last_ev_id - 1))
    /\ dropped_num' = 0
    /\ Goto(IF bpc = "holed" THEN Fetched ELSE "end")
    /\ UNCHANGED <<sourceVars, shm, last_ev_id, last_event_id, drop_begin_id,
                   hole_n, count_streams, written, filtered, dropped, buf,
                   arbiterVars>>

(* write_ptr, alter or memcpy, write_finish.  FreeSpace > 0 is asserted. *)
WriteEvent ==
    /\ bpc = "write" /\ FreeSpace > 0
    /\ buf' = Append(buf, Event(Head(shm)))
    /\ written' = Append(written, Event(Head(shm)))
    /\ Goto("consume")
    /\ UNCHANGED <<sourceVars, shm, last_ev_id, last_event_id, dropped_num,
                   drop_begin_id, hole_n, count_streams, filtered, dropped,
                   notified, arbiterVars>>

(* Variant: the id of the last event is forgotten with every event. *)
ConsumeEventForgetsId ==
    /\ bpc \in {"skip", "consume"}
    /\ shm' = Tail(shm)
    /\ last_ev_id' = 1
    /\ Goto("get")
    /\ UNCHANGED <<sourceVars, last_event_id, dropped_num, drop_begin_id, hole_n,
                   count_streams, written, filtered, dropped, notified, buf,
                   arbiterVars>>

(* shm_stream_consume: inside of stream_fetch ("skip"), or by its caller,  *)
(* which then calls stream_fetch again.                                    *)
ConsumeEvent ==
    /\ bpc \in {"skip", "consume"}
    /\ shm' = Tail(shm)
    /\ last_ev_id' = IF bpc = "skip" THEN last_ev_id ELSE 1
    /\ Goto("get")
    /\ UNCHANGED <<sourceVars, last_event_id, dropped_num, drop_begin_id, hole_n,
                   count_streams, written, filtered, dropped, notified, buf,
                   arbiterVars>>

(* handle_stream_end waits for room for the last hole; the thread exits. *)
StreamEnd ==
    /\ bpc = "end"
    /\ \/ /\ dropped_num > 0 /\ FreeSpace > DropThreshold
          /\ Goto("endhole")
          /\ UNCHANGED count_streams
       \/ /\ dropped_num = 0
          /\ Goto("done")
          /\ count_streams' = count_streams - 1
    /\ UNCHANGED <<sourceVars, shm, last_ev_id, last_event_id, dropped_num,
                   drop_begin_id, hole_n, written, filtered, dropped, notified,
                   buf, arbiterVars>>

BmmNext ==
    \/ Start \/ GetEvent \/ CheckDestroyed \/ CheckSize
    \/ \E keep \in BOOLEAN : Filter(keep)
    \/ HandleDropping \/ StartDropping \/ ContinueDropping
    \/ PushHole \/ HolePushed \/ WriteEvent \/ ConsumeEvent \/ StreamEnd

-----------------------------------------------------------------------------
(* The arbiter thread. *)

(* shm_arbiter_buffer_drop removes up to k events ... *)
Drop(k) ==
    LET m == IF k <= Len(buf) THEN k ELSE Len(buf)
    IN  /\ cpc = "idle" /\ buf # << >>
        /\ last_id' = buf[m].id
        /\ buf' = SubSeq(buf, m + 1, Len(buf))
        /\ cpc' = "notify"
        /\ UNCHANGED <<sourceVars, shm, bmmVars, last_processed, counted>>

(* ... and tells the source that it may reuse the memory of their payload. *)
NotifyProcessed ==
    /\ cpc = "notify"
    /\ last_processed' = last_id
    /\ cpc' = "idle"
    /\ UNCHANGED <<sourceVars, shm, bmmVars, buf, last_id, counted>>

(* shm_arbiter_buffer_is_done, asked for by a rule that matches "done"     *)
(* (done1, ...) and by are_streams_done, which looks at the number of      *)
(* running threads first and lets the arbiter exit (exit1, ...).           *)
AskDone ==
    /\ cpc = "idle"
    /\ cpc' = "done1"
    /\ UNCHANGED <<sourceVars, shm, bmmVars, buf, last_id, last_processed, counted>>

(* Variant: running threads are not considered. *)
AreStreamsDoneUncounted ==
    /\ cpc = "idle"
    /\ cpc' = "exit1"
    /\ counted' = (bpc # "start")
    /\ UNCHANGED <<sourceVars, shm, bmmVars, buf, last_id, last_processed>>

(* are_streams_done, of a program whose rules neither call done nor fail a *)
(* vamos_assert: those set __work_done, and the arbiter leaves at once (in *)
(* BankArbiter).                                                           *)
AreStreamsDone ==
    /\ cpc = "idle" /\ count_streams = 0
    /\ cpc' = "exit1"
    /\ counted' = (bpc # "start")
    /\ UNCHANGED <<sourceVars, shm, bmmVars, buf, last_id, last_processed>>

(* One of the four values is_done looks at: no more than that is known     *)
(* about the others.  A value that says "not done" ends the call.          *)
DoneStep(from, to, isDone) ==
    /\ cpc = from
    /\ cpc' = IF isDone THEN to ELSE "idle"
    /\ UNCHANGED <<sourceVars, shm, bmmVars, buf, last_id, last_processed, counted>>

IsDone ==
    \/ DoneStep("done1", "done2", buf = << >>)
    \/ DoneStep("done2", "done3", dropped_num = 0)
    \/ DoneStep("done3", "done4", destroyed)
    \/ DoneStep("done4", "isdone", shm = << >>)
    \/ DoneStep("isdone", "idle", TRUE)
    \/ DoneStep("exit1", "exit2", buf = << >>)
    \/ DoneStep("exit2", "exit3", dropped_num = 0)
    \/ DoneStep("exit3", "exit4", destroyed)
    \/ DoneStep("exit4", "exited", shm = << >>)

ArbiterNext ==
    \/ \E k \in 1 .. BufCapacity : Drop(k)
    \/ NotifyProcessed \/ AskDone \/ AreStreamsDone \/ IsDone

-----------------------------------------------------------------------------
(* The arbiter has exited, and with the monitor the program ends. *)
Terminated ==
    /\ cpc = "exited"
    /\ UNCHANGED vars

Next == SourcePush \/ SourceDestroy \/ BmmNext \/ ArbiterNext \/ Terminated

Spec == Init /\ [][Next]_vars

(* The buffer manager is a running thread; nothing is assumed of the       *)
(* source and of the arbiter.                                              *)
FairBmmSpec == Spec /\ WF_vars(BmmNext)

-----------------------------------------------------------------------------
(* Correctness. *)

Elements == [kind : {"event", "hole"}, id : 0 .. MaxEvents, n : 0 .. MaxEvents]

(* The values the variables of a stream take. *)
TypeOK ==
    /\ sent \in 0 .. MaxEvents /\ destroyed \in BOOLEAN
    /\ shm \in Seq(Ids) /\ Len(shm) <= ShmSize
    /\ fetch \in FetchFuns
    /\ bpc \in {"start", "get", "ready", "size", "filter", "handle", "begin",
                "continue", "skip", "hole", "holed", "write", "consume", "end",
                "endhole", "endholed", "done"}
    /\ last_ev_id \in Ids \cup {1} /\ last_event_id \in 0 .. MaxEvents
    /\ dropped_num \in 0 .. MaxEvents /\ drop_begin_id \in 0 .. MaxEvents
    /\ hole_n \in 0 .. MaxEvents
    /\ buf \in Seq(Elements) /\ Len(buf) <= BufCapacity
    /\ count_streams \in {0, 1}
    /\ cpc \in {"idle", "notify", "done1", "done2", "done3", "done4", "isdone",
                "exit1", "exit2", "exit3", "exit4", "exited"}
    /\ last_id \in 0 .. MaxEvents /\ last_processed \in 0 .. MaxEvents
    /\ written \in Seq(Elements)
    /\ filtered \subseteq Ids /\ dropped \subseteq Ids /\ notified \subseteq Ids
    /\ counted \in BOOLEAN

(* The assertion "IDs are inconsistent": the buffer manager reads every    *)
(* event once and in order, whatever path it takes to the next one.        *)
IdsConsistent ==
    bpc \in {"filter", "handle", "begin", "continue", "hole", "holed", "write"}
       => last_event_id = Head(shm) /\ last_ev_id = last_event_id

(* The assertion "No space in the buffer" and those after a hole is pushed: *)
(* when the buffer manager stops dropping there is room for the hole and    *)
(* for the event behind it.                                                 *)
RoomToForward == bpc \in {"holed", "endholed", "write"} => FreeSpace > 0

Forwarded == {written[i].id : i \in {j \in DOMAIN written : written[j].kind = "event"}}

(* The sum of the counters of a sequence of elements: every element counts *)
(* for the numbers from 1 to its n.                                        *)
HoleSum(s) == Cardinality({p \in (DOMAIN s) \X Ids : p[2] <= s[p[1]].n})

(* The id the buffer manager consumes next, or has handled but not consumed. *)
Handled == IF bpc \in {"skip", "consume"} THEN last_event_id
           ELSE IF shm = << >> THEN sent ELSE Head(shm) - 1

(* No event vanishes: what was taken from the stream was forwarded,        *)
(* filtered or dropped, exactly one of them, and the holes (with the drop  *)
(* in progress) account for exactly the dropped events.  These are the     *)
(* identities behind the statistics of dump_stats.                         *)
NothingVanishes ==
    /\ Forwarded \cup filtered \cup dropped = 1 .. Handled
    /\ Cardinality(Forwarded) + Cardinality(filtered) + Cardinality(dropped) = Handled
    /\ HoleSum(written)
         + (IF bpc \in {"holed", "endholed"} THEN 0 ELSE dropped_num)
          = Cardinality(dropped)

(* The elements of the arbiter buffer are sorted by id and no event comes  *)
(* with the id of an element before it: binary search in drop_older_than   *)
(* and the assertion "The IDs are not monotonic" rely on it.               *)
SortedById ==
    \A i, j \in DOMAIN written : i < j =>
       /\ written[i].id <= written[j].id
       /\ written[j].kind = "event" => written[i].id < written[j].id

(* The source may reuse the memory of the payload of an event with an id   *)
(* up to last_processed or in a range it was told was dropped.  No event   *)
(* that the arbiter or the buffer manager can still use is such an event.  *)
PayloadNotReleased ==
    /\ \A i \in DOMAIN buf : buf[i].kind = "event" =>
          buf[i].id > last_processed /\ buf[i].id \notin notified
    /\ \A i \in DOMAIN shm : shm[i] \notin (dropped \cup filtered \cup Forwarded) =>
          shm[i] > last_processed /\ shm[i] \notin notified

(* Nothing will be in the arbiter buffer ever again. *)
Drained == buf = << >> /\ shm = << >> /\ destroyed /\ dropped_num = 0

(* If the buffer manager runs by then, the arbiter exits only after it has *)
(* taken everything from its buffer, including the hole for events that    *)
(* were dropped last.                                                      *)
ExitsDrained == cpc = "exited" /\ counted => Drained

(* The assertion "Drop IDs are wrong" in send_dropped_event holds with     *)
(* stream_fetch, where every event between two dropped ones is dropped,    *)
(* too.  (stream_filter_fetch skips filtered events without counting them: *)
(* there it fails, and the hole is right nevertheless.)                    *)
DropIdsRightInFetch ==
    bpc = "hole" /\ ~FilterInFetch => last_ev_id = dropped_num + drop_begin_id

(* The state of the buffer manager is consistent: it has its types and the *)
(* assertions of core/arbiter.c hold, which relate what it remembers of    *)
(* the stream and of a drop to the two queues.                             *)
StateConsistent == TypeOK /\ IdsConsistent /\ RoomToForward /\ DropIdsRightInFetch

(* A hole covers the events it stands for: no dropped event has an id      *)
(* above that of the hole behind it.  The hole at the end of the stream    *)
(* gets the last id minus one ("the end id may not be precise",            *)
(* handle_stream_end) and covers all but the last one.                     *)
HoleCoversDrops ==
    /\ bpc = "holed" => \A id \in dropped : id <= written[Len(written)].id
    /\ bpc = "endholed" => \A id \in dropped : id <= written[Len(written)].id + 1

-----------------------------------------------------------------------------
(* The inductive invariant behind these properties. *)

(* The number of events that the buffer manager has consumed, and of those *)
(* whose fate is decided.                                                  *)
Consumed == sent - Len(shm)
Taken == IF bpc \in {"skip", "consume"} THEN Consumed + 1 ELSE Consumed

(* The shared memory holds the ids after those that were consumed. *)
ShmInv == Len(shm) <= sent /\ \A i \in DOMAIN shm : shm[i] = Consumed + i

(* Where the buffer manager holds an event it is the first one of the      *)
(* shared memory.  At the end of the stream no event can come any more.    *)
HoldsEvent == bpc \in {"filter", "handle", "begin", "continue", "hole", "holed",
                       "write", "skip", "consume"}
AtEnd == bpc \in {"end", "endhole", "endholed", "done"}

PlaceInv ==
    /\ HoldsEvent => /\ shm # << >>
                     /\ last_event_id = Consumed + 1 /\ last_ev_id = Consumed + 1
    /\ ~HoldsEvent => last_event_id = Consumed /\ last_ev_id \in {1, Consumed}
    /\ AtEnd \/ bpc = "size" => destroyed
    /\ AtEnd => shm = << >>
    /\ count_streams = IF bpc \in {"start", "done"} THEN 0 ELSE 1

(* stream_fetch has returned the event: nothing is being dropped and there *)
(* is room for it.                                                         *)
IsFetched == bpc = "write" \/ (bpc = "filter" /\ ~FilterInFetch)

(* The drop in progress began with an event that was taken, and without a  *)
(* filter in between it covers all events since.                           *)
DropInv ==
    /\ IsFetched \/ bpc \in {"begin", "consume", "done"} => dropped_num = 0
    /\ bpc \in {"continue", "hole", "holed", "endhole", "endholed"} => dropped_num > 0
    /\ dropped_num > 0 =>
          /\ hole_n = dropped_num /\ drop_begin_id >= 1
          /\ drop_begin_id + dropped_num <= Taken + 1
          /\ ~FilterInFetch => drop_begin_id + dropped_num = Taken + 1
          /\ last_ev_id = last_event_id

(* Only the arbiter changes the free space the buffer manager relies on,   *)
(* and it makes more of it.                                                *)
RoomInv ==
    /\ bpc \in {"hole", "endhole"} => FreeSpace > DropThreshold
    /\ IsFetched \/ bpc \in {"holed", "endholed"} => FreeSpace > 0

(* When the arbiter is about to exit the buffer manager is gone. *)
ExitInv ==
    /\ cpc \in {"exit1", "exit2", "exit3", "exit4", "exited"} /\ counted => bpc = "done"
    /\ cpc \in {"exit2", "exit3", "exit4", "exited"} /\ counted => buf = << >>

(* What was written has ids of events taken, and what was written before   *)
(* the drop in progress has ids below it; only its own hole is in it.      *)
HoleIsPushed == bpc \in {"holed", "endholed"}

WrittenInv ==
    /\ SortedById
    /\ \A i \in DOMAIN written :
          /\ written[i].id <= Taken
          /\ dropped_num > 0 /\ (written[i].kind = "event" \/ ~HoleIsPushed)
                => written[i].id < drop_begin_id
          /\ written[i].kind = "event" => written[i].id \notin notified
    /\ HoleIsPushed => written # << >> /\ written[Len(written)].id = last_ev_id - 1
    /\ notified \subseteq 1 .. Consumed

(* The buffer is the end of what was written; what the arbiter tells the   *)
(* source about lies before it.                                            *)
BufInv ==
    /\ Len(buf) <= Len(written)
    /\ \A i \in DOMAIN buf : buf[i] = written[Len(written) - Len(buf) + i]
    /\ last_id <= Taken /\ last_processed <= Taken
    /\ \A i \in DOMAIN buf : buf[i].kind = "event" =>
          buf[i].id > last_id /\ buf[i].id > last_processed

AccountInv ==
    /\ Forwarded \cup filtered \cup dropped = 1 .. Taken
    /\ Cardinality(Forwarded) + Cardinality(filtered) + Cardinality(dropped) = Taken
    /\ HoleSum(written) + (IF HoleIsPushed THEN 0 ELSE dropped_num) = Cardinality(dropped)

ControlInv == TypeOK /\ ShmInv /\ PlaceInv /\ DropInv /\ RoomInv /\ ExitInv
StreamInv == ControlInv /\ WrittenInv /\ BufInv /\ AccountInv

-----------------------------------------------------------------------------
(* The purpose of dropping: a source that waits for room in the shared     *)
(* memory gets it, even if the arbiter never takes an event again.         *)
SourceNotBlocked == Len(shm) = ShmSize ~> Len(shm) < ShmSize
=============================================================================
