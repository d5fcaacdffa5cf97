--------------------------- MODULE DropOlderThan ---------------------------
(***************************************************************************)
(* shm_arbiter_buffer_drop_older_than (core/arbiter.c): the arbiter drops  *)
(* all events up to an id from its buffer.  It takes a snapshot of the     *)
(* queue, which the ring buffer shows in two parts, looks for the id by    *)
(* binary search in one of them, consumes, and reports the id to the       *)
(* source.  Meanwhile the buffer manager pushes.                           *)
(* An event is its id.  tail is where the queue begins in the ring; it     *)
(* decides where the snapshot is split.                                    *)
(***************************************************************************)
EXTENDS Naturals, Sequences

CONSTANTS Slots,   \* slots of the ring, one more than the queue holds
          MaxId    \* bound on the ids

ASSUME DropAssumption == Slots \in Nat \ {0, 1} /\ MaxId \in Nat

VARIABLES
    queue,           \* the arbiter buffer
    tail,            \* its first slot in the ring
    last,            \* buffer manager: the id it pushed last
    ended,           \* buffer manager: the hole at the end was pushed
    pc,              \* arbiter: "idle", "peek", "search", "found", "consume",
                     \* "notify"
    id,              \* arbiter: the id asked for
    n, len1,         \* arbiter: length of the snapshot and of its first part
    off,             \* arbiter: 0 if events = ptr1, len1 if events = ptr2
    bot, top,        \* arbiter: bounds of the search
    steps,           \* arbiter: iterations of the search
    k,               \* arbiter: number of events to drop
    last_processed,  \* info.last_processed_id
    ahead            \* history: some id asked for was not yet pushed

bmmVars == <<last, ended>>
search == <<off, bot, top, steps>>
vars == <<queue, tail, bmmVars, pc, id, n, len1, search, k, last_processed, ahead>>

Lesser(a, b) == IF a <= b THEN a ELSE b

Init ==
    /\ queue = << >> /\ tail = 0 /\ last = 0 /\ ended = "no"
    /\ pc = "idle" /\ id = 0 /\ n = 0 /\ len1 = 0
    /\ off = 0 /\ bot = 0 /\ top = 0 /\ steps = 0 /\ k = 0
    /\ last_processed = 0 /\ ahead = "no"

-----------------------------------------------------------------------------
(* The buffer manager pushes an event, or a hole for dropped ones: ids     *)
(* between may be filtered, or dropped.                                    *)
Push(e) ==
    /\ ended = "no" /\ Len(queue) < Slots - 1 /\ e > last
    /\ queue' = Append(queue, e)
    /\ last' = e
    /\ UNCHANGED <<tail, ended, pc, id, n, len1, search, k, last_processed, ahead>>

(* The hole at the end of the stream may have the id of the event before.  *)
PushLastHole ==
    /\ ended = "no" /\ Len(queue) < Slots - 1 /\ last > 0
    /\ queue' = Append(queue, last)
    /\ ended' = "yes"
    /\ UNCHANGED <<tail, last, pc, id, n, len1, search, k, last_processed, ahead>>

-----------------------------------------------------------------------------
Call(i) ==
    /\ pc = "idle"
    /\ id' = i
    /\ ahead' = IF i > last THEN "yes" ELSE ahead
    /\ pc' = "peek"
    /\ UNCHANGED <<queue, tail, bmmVars, n, len1, search, k, last_processed>>

(* The snapshot.  Its first part ends with the array. *)
FirstPart == Lesser(Len(queue), Slots - tail)

(* In which part may the event be?  If it is beyond a snapshot with one    *)
(* part only, all of it is dropped.                                        *)
Peek ==
    /\ pc = "peek"
    /\ n' = Len(queue) /\ len1' = FirstPart
    /\ bot' = 0 /\ steps' = 0
    /\ \/ /\ queue = << >>
          /\ pc' = "idle" /\ UNCHANGED <<off, top, k>>
       \/ /\ queue # << >> /\ id <= queue[FirstPart]
          /\ pc' = "search" /\ off' = 0 /\ top' = FirstPart - 1 /\ UNCHANGED k
       \/ /\ queue # << >> /\ id > queue[FirstPart] /\ FirstPart < Len(queue)
          /\ pc' = "search" /\ off' = FirstPart
          /\ top' = Len(queue) - FirstPart - 1 /\ UNCHANGED k
       \/ /\ queue # << >> /\ id > queue[FirstPart] /\ FirstPart = Len(queue)
          /\ pc' = "consume" /\ k' = FirstPart /\ UNCHANGED <<off, top>>
    /\ UNCHANGED <<queue, tail, bmmVars, id, last_processed, ahead>>

(* The event at an index of the part that is searched. *)
At(i) == queue[off + i + 1]

pivot == (bot + top) \div 2

(* Variant: bot stays at the pivot. *)
SearchNoProgress ==
    /\ pc = "search"
    /\ \/ /\ id < At(pivot)
          /\ top' = IF pivot = 0 THEN 0 ELSE pivot - 1
          /\ UNCHANGED bot
       \/ /\ id >= At(pivot)
          /\ bot' = pivot
          /\ UNCHANGED top
    /\ pc' = IF bot' = top' THEN "found" ELSE "search"
    /\ steps' = steps + 1
    /\ UNCHANGED <<queue, tail, bmmVars, id, n, len1, off, k, last_processed, ahead>>

(* One iteration of the loop up to its test for the end. *)
Search ==
    /\ pc = "search"
    /\ \/ /\ id < At(pivot)
          /\ top' = IF pivot = 0 THEN 0 ELSE pivot - 1
          /\ UNCHANGED bot
       \/ /\ id >= At(pivot) /\ bot # pivot
          /\ bot' = pivot
          /\ UNCHANGED top
       \/ /\ id = At(pivot) /\ bot = pivot
          /\ top' = bot
          /\ UNCHANGED bot
       \/ /\ id > At(pivot) /\ bot = pivot
          /\ bot' = top
          /\ UNCHANGED top
    /\ pc' = IF bot' = top' THEN "found" ELSE "search"
    /\ steps' = steps + 1
    /\ UNCHANGED <<queue, tail, bmmVars, id, n, len1, off, k, last_processed, ahead>>

(* Variant: the event with the id itself is not dropped. *)
FoundYounger ==
    /\ pc = "found"
    /\ k' = IF id <= At(top) THEN off + top ELSE off + top + 1
    /\ pc' = IF k' > 0 THEN "consume" ELSE "idle"
    /\ UNCHANGED <<queue, tail, bmmVars, id, n, len1, search, last_processed, ahead>>

(* The event to drop last is the one at top, or the one to the left, which *)
(* may be the last one of the first part.                                  *)
Found ==
    /\ pc = "found"
    /\ k' = IF id < At(top) THEN off + top ELSE off + top + 1
    /\ pc' = IF k' > 0 THEN "consume" ELSE "idle"
    /\ UNCHANGED <<queue, tail, bmmVars, id, n, len1, search, last_processed, ahead>>

(* The events leave the queue: their number is that of the snapshot, which *)
(* only this thread makes shorter.                                         *)
Consume ==
    /\ pc = "consume"
    /\ queue' = SubSeq(queue, k + 1, Len(queue))
    /\ tail' = IF tail + k >= Slots THEN tail + k - Slots ELSE tail + k
    /\ pc' = "notify"
    /\ UNCHANGED <<bmmVars, id, n, len1, search, k, last_processed, ahead>>

(* Variant: the id of the newest event is reported. *)
NotifyNewest ==
    /\ pc = "notify"
    /\ last_processed' = last
    /\ pc' = "idle"
    /\ UNCHANGED <<queue, tail, bmmVars, id, n, len1, search, k, ahead>>

(* The source may reuse the memory of events up to the id asked for. *)
Notify ==
    /\ pc = "notify"
    /\ last_processed' = id
    /\ pc' = "idle"
    /\ UNCHANGED <<queue, tail, bmmVars, id, n, len1, search, k, ahead>>

Next ==
    \/ \E e \in 1 .. MaxId : Push(e)
    \/ PushLastHole
    \/ \E i \in 0 .. MaxId : Call(i)
    \/ Peek \/ Search \/ Found \/ Consume \/ Notify

Spec == Init /\ [][Next]_vars

-----------------------------------------------------------------------------
(* The values the variables of the search take. *)
TypeOK ==
    /\ queue \in Seq(0 .. MaxId) /\ Len(queue) < Slots
    /\ tail \in 0 .. (Slots - 1) /\ last \in 0 .. MaxId /\ ended \in {"no", "yes"}
    /\ pc \in {"idle", "peek", "search", "found", "consume", "notify"}
    /\ id \in 0 .. MaxId /\ n \in 0 .. Slots /\ len1 \in 0 .. Slots
    /\ off \in 0 .. Slots /\ bot \in 0 .. Slots /\ top \in 0 .. Slots
    /\ steps \in 0 .. Slots /\ k \in 0 .. Slots
    /\ last_processed \in 0 .. MaxId /\ ahead \in {"no", "yes"}

(* The assertions "BUG in binary search", bot <= top and k <= n: the       *)
(* search ends after fewer steps than there are events, and stays inside   *)
(* of the part of the snapshot it has chosen.                              *)
SearchBounded ==
    /\ pc \in {"search", "found"} =>
         bot <= top /\ off + top < n /\ (off = 0 => top < len1)
    /\ pc = "search" => steps < n
    /\ pc = "consume" => k <= n

(* "Drop all events with ID less or equal to the one of ev": the search    *)
(* finds only such events and leaves none of them in the queue it saw but  *)
(* the second of two with the id asked for, a hole at the end of the       *)
(* stream.                                                                 *)
DropsOlder ==
    pc = "consume" =>
       /\ \A i \in 1 .. k : queue[i] <= id
       /\ \A i \in (k + 1) .. Len(queue) :
             queue[i] > id \/ (queue[i] = id /\ queue[i - 1] = id) \/ i > n

(* A source that is told an id was processed may overwrite its strings: no *)
(* event of the queue is such, if no id was asked for ahead of its event.  *)
(* (A hole has no strings.)                                                *)
QueueNotReleased ==
    ahead = "no" =>
       \A i \in DOMAIN queue :
          queue[i] > last_processed \/ (ended = "yes" /\ i = Len(queue))

(* The assertion "The IDs are not monotonic" of                            *)
(* buffer_set_last_processed_id, under the same condition.                 *)
ProcessedMonotonic ==
    pc = "notify" /\ ahead = "no" => last_processed <= id

(* The ids of the queue increase, but for a hole at the end. *)
Increasing ==
    /\ \A i, j \in DOMAIN queue : i <= j => queue[i] <= queue[j]
    /\ \A i, j \in DOMAIN queue : i < j =>
          queue[i] < queue[j] \/ (ended = "yes" /\ j = Len(queue))
    /\ \A i \in DOMAIN queue : queue[i] <= last
    /\ ended = "yes" /\ queue # << >> => queue[Len(queue)] = last

(* What the loop knows: the events before the one at bot are to be         *)
(* dropped, and the one at bot, too, if there is one before it in this     *)
(* part; the events behind the one at top are not to be dropped.           *)
LoopInv ==
    pc \in {"search", "found"} =>
       /\ n <= Len(queue) /\ len1 \in 1 .. n /\ off \in {0, len1}
       /\ bot <= top /\ off + top < n /\ (off = 0 => top < len1)
       /\ pc = "search" => steps + top < n + bot
       /\ pc = "found" => bot = top /\ steps <= n
       /\ \A i \in 1 .. (off + bot) : queue[i] <= id
       /\ pc = "search" /\ bot > 0 => At(bot) <= id
       /\ \A i \in (off + top + 2) .. n : queue[i] > id \/ (queue[i] = id /\ queue[i - 1] = id)

(* What is known once the number of events to drop is. *)
ConsumeInv ==
    pc = "consume" => k \in 1 .. n /\ n <= Len(queue) /\ DropsOlder

(* No event that stays, and none that comes, has an id that was reported   *)
(* or is about to be.                                                      *)
ReportInv ==
    ahead = "no" =>
       /\ last_processed <= last
       /\ pc # "idle" => id <= last
       /\ pc = "notify" => last_processed <= id
       /\ pc \in {"search", "found", "consume"} =>
            \A i \in (n + 1) .. Len(queue) : queue[i] > id \/ (ended = "yes" /\ i = Len(queue))
       /\ pc = "notify" =>
            \A i \in DOMAIN queue : queue[i] > id \/ (ended = "yes" /\ i = Len(queue))

(* The inductive invariant of drop_older_than, from which the properties   *)
(* above follow.                                                           *)
DropInv ==
    TypeOK /\ Increasing /\ LoopInv /\ ConsumeInv /\ ReportInv /\ QueueNotReleased

(* The assertions top == 1 and top == bot + 1 in the search hold in a part *)
(* of at least two events.  (With one event bot, top and pivot are 0 from  *)
(* the start: the assertions fail, and the result is right.)               *)
PartLen == IF off = 0 THEN len1 ELSE n - len1
PartAsserts ==
    pc = "search" /\ PartLen > 1 =>
       /\ id < At(pivot) /\ pivot = 0 => bot = 0 /\ top = 1
       /\ id >= At(pivot) /\ bot = pivot => top = bot + 1
=============================================================================
