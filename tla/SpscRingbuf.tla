---------------------------- MODULE SpscRingbuf ----------------------------
(***************************************************************************)
(* The single-producer single-consumer ring buffer of core/spsc_ringbuf.c, *)
(* used through core/par_queue.c and shmbuf/buffer.c.                      *)
(*                                                                         *)
(* One writer thread and one reader thread share head and tail.  Only the  *)
(* writer stores head, only the reader stores tail.  Each keeps a cached   *)
(* copy of the other's index (seen_tail, seen_head) and reloads it only    *)
(* when the cache says there is not enough room or not enough data.        *)
(*                                                                         *)
(* An action is a stretch of code with at most one access to an index of   *)
(* the other thread, so the interleavings of the actions are those of the  *)
(* code.  Copying an element is two actions: while the copy is in progress *)
(* the slot holds Garbage, as it does before it is first written.          *)
(***************************************************************************)
EXTENDS Naturals, Sequences

CONSTANTS Capacity,  \* number of slots, one more than the ring can hold
          Values,    \* the elements
          Garbage    \* the content of a slot never written or being written

ASSUME RingAssumption ==
    /\ Capacity \in Nat \ {0}
    /\ Garbage \notin Values

VARIABLES head, tail,            \* the shared indices
          seen_head, seen_tail,  \* the reader's and the writer's cache
          slots,                 \* the data
          wpc,       \* writer: "idle", "null" (got no room), "fill" (has a
                     \* window), "copy" (is copying into its next slot)
          wn,        \* writer: number of slots it was given
          wk,        \* writer: number of slots of the window filled so far
          wfree,     \* writer: the free space it saw last, 0 if it did not ask
          rpc,       \* reader: "idle", "window" (sees data), "upto" (dropping)
          rlen1,     \* reader: slots of the window up to the end of the array
          rlen2,     \* reader: slots of the window from the array's beginning
          rval       \* reader: the element it read last

shared == <<head, tail, slots>>
writer == <<seen_tail, wpc, wn, wk, wfree>>
reader == <<seen_head, rpc, rlen1, rlen2, rval>>
vars == <<shared, writer, reader>>

Index == 0 .. (Capacity - 1)

-----------------------------------------------------------------------------
(* Index arithmetic. *)

WrittenNum(h, t) ==
    IF t < h THEN h - t
    ELSE IF t = h THEN 0
    ELSE Capacity - t + h

FreeNum(h, t) ==
    IF t < h THEN (Capacity - h - 1) + t
    ELSE IF h = t THEN Capacity - 1
    ELSE t - h - 1

(* Variant: the slot left free is not counted when the window wraps. *)
WriteOffWrapsTooFar(h, t) ==
    IF t < h
      THEN IF t = 0
             THEN [n |-> Capacity - h - 1, wrap |-> 0, total |-> Capacity - h - 1]
             ELSE [n |-> Capacity - h, wrap |-> t, total |-> Capacity - h + t]
    ELSE IF t = h
      THEN [n |-> Capacity - 1, wrap |-> 0, total |-> Capacity - 1]
    ELSE [n |-> t - h - 1, wrap |-> 0, total |-> t - h - 1]

(* get_write_off: slots up to the end of the array, slots after wrapping,  *)
(* and the number the function returns.                                    *)
WriteOff(h, t) ==
    IF t < h
      THEN IF t = 0
             THEN [n |-> Capacity - h - 1, wrap |-> 0, total |-> Capacity - h - 1]
             ELSE [n |-> Capacity - h, wrap |-> t - 1,
                   total |-> Capacity - h + t - 1]
    ELSE IF t = h
      THEN [n |-> Capacity - 1, wrap |-> 0, total |-> Capacity - 1]
    ELSE [n |-> t - h - 1, wrap |-> 0, total |-> t - h - 1]

(* Move an index k slots forward; no more than one wrap can be needed. *)
Advance(i, k) == IF i + k >= Capacity THEN i + k - Capacity ELSE i + k

Lesser(a, b) == IF a < b THEN a ELSE b

(* How peek splits the n elements from t on into two runs of the array. *)
PeekLen1(h, t, n) == IF t < h THEN n ELSE Lesser(n, Capacity - t)
PeekLen2(h, t, n) ==
    IF t < h THEN 0 ELSE Lesser(h, n - PeekLen1(h, t, n))

(* The slot of the j-th element (from 0) of the window that peek returned. *)
PeekSlot(t, j) == IF j < rlen1 THEN t + j ELSE j - rlen1

-----------------------------------------------------------------------------
Init ==
    /\ head = 0 /\ tail = 0
    /\ seen_head = 0 /\ seen_tail = 0
    /\ slots = [i \in Index |-> Garbage]
    /\ wpc = "idle" /\ wn = 0 /\ wk = 0 /\ wfree = 0
    /\ rpc = "idle" /\ rlen1 = 0 /\ rlen2 = 0 /\ rval = Garbage

-----------------------------------------------------------------------------
(* The writer. *)

(* The writer is given n slots from head on, or none (a NULL pointer). *)
GiveWindow(n) ==
    /\ wn' = n
    /\ wk' = 0
    /\ wpc' = IF n = 0 THEN "null" ELSE "fill"
    /\ UNCHANGED <<shared, reader, wfree>>

(* Variant: the tail is not reloaded when the cached one leaves no room. *)
WriteOffNoReload ==
    LET seen == IF seen_tail = 0 THEN tail ELSE seen_tail
    IN  /\ wpc = "idle"
        /\ seen_tail' = seen
        /\ GiveWindow(IF WriteOff(head, seen).n > 0 THEN 1 ELSE 0)

(* write_off_nowrap, called by shm_par_queue_write_ptr and                 *)
(* buffer_start_push, which use the first slot only.                       *)
WriteOffNowrap ==
    LET seen == IF seen_tail = 0 \/ WriteOff(head, seen_tail).total = 0
                  THEN tail ELSE seen_tail
    IN  /\ wpc = "idle"
        /\ seen_tail' = seen
        /\ GiveWindow(IF WriteOff(head, seen).n > 0 THEN 1 ELSE 0)

(* write_off (req = 1) and acquire: at least req slots are asked for, and  *)
(* all slots that are known to be free are given.                          *)
Acquire(req) ==
    LET seen == IF WriteOff(head, seen_tail).total < req THEN tail ELSE seen_tail
    IN  /\ wpc = "idle"
        /\ seen_tail' = seen
        /\ GiveWindow(WriteOff(head, seen).n + WriteOff(head, seen).wrap)

(* acquire_nowrap: as acquire, without the slots that get_write_off counts *)
(* as wrapped, so that there may be fewer than req.  In an empty ring it   *)
(* counts none as wrapped: a caller must still go round the ring.          *)
AcquireNowrap(req) ==
    LET seen == IF WriteOff(head, seen_tail).total < req THEN tail ELSE seen_tail
    IN  /\ wpc = "idle"
        /\ seen_tail' = seen
        /\ GiveWindow(WriteOff(head, seen).n)

(* No room: the caller gets NULL and goes on. *)
ReturnNull ==
    /\ wpc = "null"
    /\ wpc' = "idle"
    /\ UNCHANGED <<shared, reader, seen_tail, wn, wk, wfree>>

(* memcpy of an element into the next slot of the window. *)
CopyBegin ==
    /\ wpc = "fill" /\ wk < wn
    /\ slots' = [slots EXCEPT ![Advance(head, wk)] = Garbage]
    /\ wpc' = "copy"
    /\ UNCHANGED <<head, tail, reader, seen_tail, wn, wk, wfree>>

CopyEnd(v) ==
    /\ wpc = "copy"
    /\ slots' = [slots EXCEPT ![Advance(head, wk)] = v]
    /\ wpc' = "fill"
    /\ wk' = wk + 1
    /\ UNCHANGED <<head, tail, reader, seen_tail, wn, wfree>>

(* Variant: the whole window is published, written or not. *)
WriteFinishWholeWindow ==
    /\ wpc = "fill" /\ wk > 0
    /\ head' = Advance(head, wn)
    /\ wpc' = "idle" /\ wn' = 0 /\ wk' = 0 /\ wfree' = 0
    /\ UNCHANGED <<tail, slots, reader, seen_tail>>

(* write_finish publishes the elements written so far. *)
WriteFinish ==
    /\ wpc = "fill" /\ wk > 0
    /\ head' = Advance(head, wk)
    /\ wpc' = "idle" /\ wn' = 0 /\ wk' = 0 /\ wfree' = 0
    /\ UNCHANGED <<tail, slots, reader, seen_tail>>

(* free_num called by the writer: its own head and the current tail. *)
AskFree ==
    /\ wpc = "idle"
    /\ wfree' = FreeNum(head, tail)
    /\ UNCHANGED <<shared, reader, seen_tail, wpc, wn, wk>>

-----------------------------------------------------------------------------
(* The reader. *)

(* read_off_nowrap, called by top, peek1, pop and buffer_read_pointer,     *)
(* which use the first element only.                                       *)
ReadOffNowrap ==
    LET seen == IF WrittenNum(seen_head, tail) = 0 THEN head ELSE seen_head
        num  == WrittenNum(seen, tail)
    IN  /\ rpc = "idle"
        /\ seen_head' = seen
        /\ rpc' = IF num > 0 THEN "window" ELSE "idle"
        /\ rlen1' = Lesser(num, 1)
        /\ rlen2' = 0
        /\ UNCHANGED <<shared, writer, rval>>

(* peek with n > 0; the callers pass SIZE_MAX, here Capacity, for "all".   *)
Peek(n) ==
    LET seen == IF WrittenNum(seen_head, tail) < n THEN head ELSE seen_head
        num  == WrittenNum(seen, tail)
        m    == Lesser(n, num)
    IN  /\ rpc = "idle"
        /\ seen_head' = seen
        /\ rpc' = IF num > 0 THEN "window" ELSE "idle"
        /\ rlen1' = IF num > 0 THEN PeekLen1(seen, tail, m) ELSE 0
        /\ rlen2' = IF num > 0 THEN PeekLen2(seen, tail, m) ELSE 0
        /\ UNCHANGED <<shared, writer, rval>>

(* read_acquire: at least n elements are asked for, and all that are known *)
(* to be there are shown.  They may wrap around the end of the array.      *)
ReadAcquire(n) ==
    LET seen == IF WrittenNum(seen_head, tail) < n THEN head ELSE seen_head
        num  == WrittenNum(seen, tail)
    IN  /\ rpc = "idle"
        /\ seen_head' = seen
        /\ rpc' = IF num > 0 THEN "window" ELSE "idle"
        /\ rlen1' = PeekLen1(seen, tail, num)
        /\ rlen2' = PeekLen2(seen, tail, num)
        /\ UNCHANGED <<shared, writer, rval>>

(* The reader copies the j-th element it was shown. *)
ReadElem(j) ==
    /\ rpc = "window"
    /\ rval' = slots[PeekSlot(tail, j)]
    /\ UNCHANGED <<shared, writer, seen_head, rpc, rlen1, rlen2>>

(* The reader is done with what it was shown and leaves it in the ring. *)
LeaveWindow ==
    /\ rpc = "window"
    /\ rpc' = "idle" /\ rlen1' = 0 /\ rlen2' = 0
    /\ UNCHANGED <<shared, writer, seen_head, rval>>

(* consume(k), where k is at most what the reader was shown: the callers   *)
(* are pop, shm_par_queue_drop after a peek, and buffer_pop.               *)
Consume(k) ==
    /\ rpc = "window"
    /\ tail' = Advance(tail, k)
    /\ rpc' = "idle" /\ rlen1' = 0 /\ rlen2' = 0
    /\ UNCHANGED <<head, slots, writer, seen_head, rval>>

(* consume_upto(n), called by buffer_drop_k, computes what can be consumed *)
(* from a reloaded head and then stores the new tail.                      *)
ConsumeUpto(n) ==
    LET seen == IF WrittenNum(seen_head, tail) < n THEN head ELSE seen_head
        k    == Lesser(n, WrittenNum(seen, tail))
    IN  /\ rpc \in {"idle", "window"}
        /\ seen_head' = seen
        /\ rpc' = IF k > 0 THEN "upto" ELSE "idle"
        /\ rlen1' = k
        /\ rlen2' = 0
        /\ UNCHANGED <<shared, writer, rval>>

ConsumeUptoStore ==
    /\ rpc = "upto"
    /\ tail' = Advance(tail, rlen1)
    /\ rpc' = "idle" /\ rlen1' = 0 /\ rlen2' = 0
    /\ UNCHANGED <<head, slots, writer, seen_head, rval>>

-----------------------------------------------------------------------------
WriterNext ==
    \/ WriteOffNowrap
    \/ \E req \in 1 .. Capacity : Acquire(req) \/ AcquireNowrap(req)
    \/ ReturnNull
    \/ CopyBegin
    \/ \E v \in Values : CopyEnd(v)
    \/ WriteFinish
    \/ AskFree

ReaderNext ==
    \/ ReadOffNowrap
    \/ \E n \in 1 .. Capacity : Peek(n) \/ ReadAcquire(n)
    \/ \E j \in 0 .. (rlen1 + rlen2 - 1) : ReadElem(j)
    \/ LeaveWindow
    \/ \E k \in 1 .. (rlen1 + rlen2) : Consume(k)
    \/ \E n \in 1 .. Capacity : ConsumeUpto(n)
    \/ ConsumeUptoStore

Next == WriterNext \/ ReaderNext

Spec == Init /\ [][Next]_vars

-----------------------------------------------------------------------------
(* Correctness. *)

(* The values the variables of the ring buffer take. *)
TypeOK ==
    /\ head \in Index /\ tail \in Index
    /\ seen_head \in Index /\ seen_tail \in Index
    /\ slots \in [Index -> Values \cup {Garbage}]
    /\ wpc \in {"idle", "null", "fill", "copy"}
    /\ wn \in 0 .. Capacity /\ wk \in 0 .. Capacity
    /\ wfree \in 0 .. Capacity
    /\ rpc \in {"idle", "window", "upto"}
    /\ rlen1 \in 0 .. Capacity /\ rlen2 \in 0 .. Capacity
    /\ rval \in Values \cup {Garbage}

(* The slots with elements that are published and not yet consumed. *)
Unread == {Advance(tail, i) : i \in 0 .. (WrittenNum(head, tail) - 1)}

(* The slots the reader may be reading. *)
ReadWindow ==
    IF rpc = "window"
      THEN {PeekSlot(tail, j) : j \in 0 .. (rlen1 + rlen2 - 1)} ELSE {}

(* The slots the writer was given and did not publish yet. *)
WriteWindow ==
    IF wpc \in {"fill", "copy"} THEN {Advance(head, j) : j \in 0 .. (wn - 1)} ELSE {}

(* However stale the two cached indices are, the slots handed out by       *)
(* write_off and acquire hold no unread element and are disjoint from the  *)
(* slots a concurrent peek handed out: there is no race on an element.     *)
NoSlotRace ==
    /\ WriteWindow \cap Unread = {}
    /\ WriteWindow \cap ReadWindow = {}

(* The assertion "Invalid head move" of write_finish: publishing what was  *)
(* written never makes a full ring look empty, whatever the reader did     *)
(* since the window was given.                                             *)
HeadMoveValid == wpc = "fill" /\ wk > 0 => Advance(head, wk) # tail

(* stream_fetch asks for the free space and, seeing some, lets its caller  *)
(* take a write pointer that the caller asserts is not NULL.  The pointer  *)
(* is computed from another copy of tail than the free space was.          *)
NullOnlyWithoutSpace == wpc = "null" => wfree = 0

(* The inductive invariant.  A stale cache errs on the safe side: what the *)
(* reader believes is written is written, what the writer believes is free *)
(* is free.                                                                *)
CachesSafe ==
    /\ WrittenNum(seen_head, tail) <= WrittenNum(head, tail)
    /\ WrittenNum(head, tail) <= WrittenNum(head, seen_tail)

WriterSafe ==
    /\ wpc \in {"fill", "copy"} => wn <= FreeNum(head, seen_tail) /\ wk <= wn
    /\ wpc = "copy" => wk < wn
    /\ wfree <= FreeNum(head, tail)
    /\ wpc = "null" => wfree = 0

ReaderSafe ==
    /\ rlen1 + rlen2 <= WrittenNum(seen_head, tail)
    /\ tail + rlen1 <= Capacity \/ rpc = "upto"
    /\ rlen2 > 0 => tail + rlen1 = Capacity /\ rpc = "window"

DataWritten ==
    /\ \A i \in Index : i < WrittenNum(head, tail)
                           => slots[Advance(tail, i)] \in Values
    /\ wpc \in {"fill", "copy"}
          => \A i \in Index : i < wk => slots[Advance(head, i)] \in Values

(* The caches are safe, and so the windows of the two threads lie in their *)
(* own part of the ring and every published slot holds a whole element.    *)
RingInv == TypeOK /\ CachesSafe /\ WriterSafe /\ ReaderSafe /\ DataWritten

(* The queue the ring buffer represents. *)
Queue == [i \in 1 .. WrittenNum(head, tail) |-> slots[Advance(tail, i - 1)]]

Fifo == INSTANCE BoundedFifo WITH
            MaxSize <- Capacity - 1, NoValue <- Garbage,
            queue <- Queue, out <- rval

(* The ring buffer implements the bounded FIFO queue: every step of the    *)
(* two threads is a push of a batch, a read of a queued element, a removal *)
(* of the oldest elements, or invisible.                                   *)
RefinesFifo == Fifo!FifoSpec
=============================================================================
