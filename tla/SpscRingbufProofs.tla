------------------------- MODULE SpscRingbufProofs -------------------------
(***************************************************************************)
(* Proofs about the ring buffer, for every capacity and every set of       *)
(* elements: the inductive invariant RingInv, the safety properties that   *)
(* follow from it, and that the ring buffer implements the bounded FIFO.   *)
(* And about the monitor buffer, which is used as a FIFO: it delivers      *)
(* every event once and in order, for every capacity and every number of   *)
(* events.                                                                 *)
(***************************************************************************)
EXTENDS SpscRingbuf, MonitorBuffer, SequenceTheorems, TLAPS

-----------------------------------------------------------------------------
(* Index arithmetic. *)

(* The assertions of get_written_num and get_free_num, and that the three  *)
(* ways of counting (written, free, write_off) agree with each other.      *)
LEMMA Counts ==
    \A h, t \in Index :
        /\ WrittenNum(h, t) \in Index
        /\ FreeNum(h, t) \in Index
        /\ FreeNum(h, t) = Capacity - 1 - WrittenNum(h, t)
  BY RingAssumption DEF Index, WrittenNum, FreeNum

(* write_off and acquire hand out exactly the free slots, and the window   *)
(* up to the end of the array is empty only if there is no free slot.      *)
LEMMA WriteOffCounts ==
    \A h, t \in Index :
        /\ WriteOff(h, t).total = FreeNum(h, t)
        /\ WriteOff(h, t).n \in Nat
        /\ WriteOff(h, t).n + WriteOff(h, t).wrap = FreeNum(h, t)
        /\ WriteOff(h, t).n <= FreeNum(h, t)
        /\ WriteOff(h, t).n = 0 => FreeNum(h, t) = 0
  BY RingAssumption DEF Index, FreeNum, WriteOff

(* Moving head forward by no more than the free space publishes k slots. *)
LEMMA AdvanceHead ==
    ASSUME NEW h \in Index, NEW t \in Index, NEW k \in Nat, k <= FreeNum(h, t)
    PROVE  /\ Advance(h, k) \in Index
           /\ WrittenNum(Advance(h, k), t) = WrittenNum(h, t) + k
  BY RingAssumption DEF Index, WrittenNum, FreeNum, Advance

(* Moving tail forward by no more than what is written frees k slots. *)
LEMMA AdvanceTail ==
    ASSUME NEW h \in Index, NEW t \in Index, NEW k \in Nat, k <= WrittenNum(h, t)
    PROVE  /\ Advance(t, k) \in Index
           /\ WrittenNum(h, Advance(t, k)) = WrittenNum(h, t) - k
  BY RingAssumption DEF Index, WrittenNum, Advance

(* Within one turn of the ring, positions and slots correspond. *)
LEMMA AdvanceOneTurn ==
    ASSUME NEW x \in Index, NEW i \in Index
    PROVE  /\ Advance(x, i) \in Index
           /\ \A j \in Index : Advance(x, i) = Advance(x, j) => i = j
           /\ \A j \in Index : i + j < Capacity
                 => Advance(Advance(x, i), j) = Advance(x, i + j)
  BY RingAssumption DEF Index, Advance

(* The head is as far from the tail as elements are written. *)
LEMMA HeadFromTail ==
    ASSUME NEW h \in Index, NEW t \in Index
    PROVE  Advance(t, WrittenNum(h, t)) = h
  BY RingAssumption DEF Index, WrittenNum, Advance

(* The numbers that the two threads compute in a state of the right type.  *)
LEMMA Numbers ==
    ASSUME TypeOK
    PROVE  /\ WrittenNum(head, tail) \in 0 .. (Capacity - 1)
           /\ WrittenNum(seen_head, tail) \in 0 .. (Capacity - 1)
           /\ WrittenNum(head, seen_tail) \in 0 .. (Capacity - 1)
           /\ FreeNum(head, tail) = Capacity - 1 - WrittenNum(head, tail)
           /\ FreeNum(head, seen_tail) = Capacity - 1 - WrittenNum(head, seen_tail)
<1>1. head \in Index /\ tail \in Index /\ seen_head \in Index /\ seen_tail \in Index
  BY DEF TypeOK
<1> QED BY <1>1, Counts DEF Index

-----------------------------------------------------------------------------
(* The inductive invariant. *)

(* It holds initially ... *)
LEMMA InitRingInv == Init => RingInv
  BY RingAssumption DEF Init, RingInv, TypeOK, CachesSafe, WriterSafe,
     ReaderSafe, DataWritten, Index, WrittenNum, FreeNum

(* The steps that only look for free slots. *)
LEMMA GiveWindowRingInv ==
    ASSUME RingInv, wpc = "idle", NEW n \in Nat,
           seen_tail' \in {tail, seen_tail},
           n <= FreeNum(head, seen_tail'),
           n = 0 => FreeNum(head, seen_tail') = 0 /\ seen_tail' = tail,
           GiveWindow(n)
    PROVE  RingInv'
<1>1. /\ head \in Index /\ tail \in Index /\ seen_tail' \in Index
      /\ head' = head /\ tail' = tail /\ seen_head' = seen_head /\ slots' = slots
      /\ wn' = n /\ wk' = 0 /\ wfree' = wfree
      /\ wpc' = IF n = 0 THEN "null" ELSE "fill"
      /\ rpc' = rpc /\ rlen1' = rlen1 /\ rlen2' = rlen2 /\ rval' = rval
  BY DEF RingInv, TypeOK, GiveWindow, shared, reader
<1>2. n \in 0 .. Capacity /\ 0 \in 0 .. Capacity
  <2>1. FreeNum(head, seen_tail') \in Index
    BY <1>1, Counts
  <2> QED BY <2>1, RingAssumption DEF Index
<1>3. TypeOK'
  BY <1>1, <1>2 DEF RingInv, TypeOK
<1>4. CachesSafe'
  BY <1>1, Numbers DEF RingInv, CachesSafe
<1>5. WriterSafe'
  <2>1. wfree' <= FreeNum(head', tail')
    BY <1>1 DEF RingInv, WriterSafe
  <2>2. n = 0 => wfree = 0
    BY <1>1, Numbers DEF RingInv, WriterSafe, TypeOK
  <2> QED BY <1>1, <1>2, <2>1, <2>2 DEF WriterSafe
<1>6. ReaderSafe'
  BY <1>1 DEF RingInv, ReaderSafe
<1>7. DataWritten'
  BY <1>1 DEF RingInv, DataWritten, Index
<1> QED BY <1>3, <1>4, <1>5, <1>6, <1>7 DEF RingInv

(* ... the writer keeps it ... *)
LEMMA WriterRingInv == RingInv /\ WriterNext => RingInv'
<1> SUFFICES ASSUME RingInv, WriterNext PROVE RingInv'
  OBVIOUS
<1> USE RingAssumption
<1>1. CASE WriteOffNowrap
  <2> DEFINE seen == IF seen_tail = 0 \/ WriteOff(head, seen_tail).total = 0
                       THEN tail ELSE seen_tail
             n == IF WriteOff(head, seen).n > 0 THEN 1 ELSE 0
  <2>1. wpc = "idle" /\ seen_tail' = seen /\ GiveWindow(n)
    BY <1>1 DEF WriteOffNowrap
  <2>2. head \in Index /\ tail \in Index /\ seen_tail \in Index /\ seen \in Index
    BY DEF RingInv, TypeOK
  <2>3. /\ WriteOff(head, seen).n \in Nat
        /\ WriteOff(head, seen).n <= FreeNum(head, seen)
        /\ WriteOff(head, seen).n = 0 => FreeNum(head, seen) = 0
        /\ FreeNum(head, seen) \in 0 .. (Capacity - 1)
        /\ WriteOff(head, seen_tail).total = FreeNum(head, seen_tail)
    <3> HIDE DEF seen
    <3> QED BY Zenon, <2>2, WriteOffCounts, Counts DEF Index
  <2>4. n = 0 => FreeNum(head, seen) = 0 /\ seen = tail
    BY <2>3
  <2>5. n \in Nat /\ n <= FreeNum(head, seen)
    <3> HIDE DEF seen
    <3> QED BY <2>3
  <2> HIDE DEF n, seen
  <2>6. seen \in {tail, seen_tail}
    BY DEF seen
  <2> QED BY <2>1, <2>4, <2>5, <2>6, GiveWindowRingInv
<1>2. ASSUME NEW req \in 1 .. Capacity, Acquire(req) PROVE RingInv'
  <2> DEFINE seen == IF WriteOff(head, seen_tail).total < req
                       THEN tail ELSE seen_tail
             n == WriteOff(head, seen).n + WriteOff(head, seen).wrap
  <2>1. wpc = "idle" /\ seen_tail' = seen /\ GiveWindow(n)
    BY <1>2 DEF Acquire
  <2>2. head \in Index /\ tail \in Index /\ seen_tail \in Index /\ seen \in Index
    BY DEF RingInv, TypeOK
  <2>3. n = FreeNum(head, seen) /\ n \in Nat /\ n <= FreeNum(head, seen)
    <3> HIDE DEF seen
    <3>1. FreeNum(head, seen) \in 0 .. (Capacity - 1)
      BY <2>2, Counts DEF Index
    <3> QED BY <2>2, <3>1, WriteOffCounts
  <2>4. n = 0 => FreeNum(head, seen) = 0 /\ seen = tail
    BY <2>2, <2>3, WriteOffCounts
  <2> HIDE DEF n, seen
  <2>5. seen \in {tail, seen_tail}
    BY DEF seen
  <2> QED BY <2>1, <2>3, <2>4, <2>5, GiveWindowRingInv
<1>2a. ASSUME NEW req \in 1 .. Capacity, AcquireNowrap(req) PROVE RingInv'
  <2> DEFINE seen == IF WriteOff(head, seen_tail).total < req
                       THEN tail ELSE seen_tail
             n == WriteOff(head, seen).n
  <2>1. wpc = "idle" /\ seen_tail' = seen /\ GiveWindow(n)
    BY <1>2a DEF AcquireNowrap
  <2>2. head \in Index /\ tail \in Index /\ seen_tail \in Index /\ seen \in Index
    BY DEF RingInv, TypeOK
  <2>3. /\ n \in Nat /\ n <= FreeNum(head, seen)
        /\ n = 0 => FreeNum(head, seen) = 0
        /\ WriteOff(head, seen_tail).total = FreeNum(head, seen_tail)
    <3> HIDE DEF seen
    <3> QED BY <2>2, WriteOffCounts
  <2>4. n = 0 => FreeNum(head, seen) = 0 /\ seen = tail
    BY <2>3
  <2> HIDE DEF n, seen
  <2>5. seen \in {tail, seen_tail}
    BY DEF seen
  <2> QED BY <2>1, <2>3, <2>4, <2>5, GiveWindowRingInv
<1>3. CASE ReturnNull
  BY <1>3 DEF ReturnNull, RingInv, TypeOK, CachesSafe, WriterSafe, ReaderSafe,
     DataWritten, shared, reader, Index
<1>4. ASSUME NEW v \in Values \cup {Garbage}, wpc \in {"fill", "copy"}, wk < wn,
             slots' = [slots EXCEPT ![Advance(head, wk)] = v],
             UNCHANGED <<head, tail, reader, seen_tail, wn, wfree>>,
             \/ wk' = wk /\ wpc' = "copy"
             \/ wk' = wk + 1 /\ wpc' = "fill" /\ v \in Values
      PROVE  RingInv'
  <2> DEFINE w == WrittenNum(head, tail)
  <2>1. /\ head \in Index /\ tail \in Index /\ seen_tail \in Index
        /\ wk \in Index /\ w \in Index /\ w + wk < Capacity
        /\ wk + 1 \in 0 .. Capacity
    <3>1. /\ head \in Index /\ tail \in Index /\ seen_tail \in Index
          /\ wk \in Nat /\ wn \in Nat
      BY DEF RingInv, TypeOK
    <3>2. wk < wn /\ wn <= FreeNum(head, seen_tail)
      BY <1>4 DEF RingInv, WriterSafe
    <3> QED BY <3>1, <3>2, Numbers DEF RingInv, CachesSafe, Index
  <2>2. Advance(head, wk) \in Index
    BY <2>1, AdvanceOneTurn
  <2>3. TypeOK'
    BY <1>4, <2>1, <2>2 DEF RingInv, TypeOK, reader
  <2>4. CachesSafe' /\ ReaderSafe'
    BY <1>4 DEF RingInv, CachesSafe, ReaderSafe, reader
  <2>5. WriterSafe'
    BY <1>4, <2>1 DEF RingInv, TypeOK, WriterSafe, reader, Index
  <2>6. \A i \in Index : i < w => Advance(tail, i) # Advance(head, wk)
    <3> SUFFICES ASSUME NEW i \in Index, i < w
                 PROVE  Advance(tail, i) # Advance(head, wk)
      OBVIOUS
    <3>1. Advance(head, wk) = Advance(tail, w + wk) /\ w + wk \in Index
      <4>1. w + wk \in Index
        BY <2>1 DEF Index
      <4>2. head = Advance(tail, w)
        BY <2>1, HeadFromTail
      <4> HIDE DEF w
      <4> QED BY <2>1, <4>1, <4>2, AdvanceOneTurn
    <3> HIDE DEF w
    <3> QED BY <2>1, <3>1, AdvanceOneTurn DEF Index
  <2>7. \A i \in Index : i < wk => Advance(head, i) # Advance(head, wk)
    BY <2>1, AdvanceOneTurn DEF Index
  <2>8. \A i \in Index : i < w => slots'[Advance(tail, i)] \in Values
    BY <1>4, <2>1, <2>6, AdvanceOneTurn DEF RingInv, TypeOK, DataWritten
  <2>9. \A i \in Index : i < wk' => slots'[Advance(head, i)] \in Values
    <3> SUFFICES ASSUME NEW i \in Index, i < wk'
                 PROVE  slots'[Advance(head, i)] \in Values
      OBVIOUS
    <3>1. CASE i < wk
      BY <1>4, <2>1, <2>7, <3>1, AdvanceOneTurn DEF RingInv, TypeOK, DataWritten
    <3>2. CASE ~(i < wk)
      <4>1. i = wk /\ v \in Values
        BY <1>4, <2>1, <3>2 DEF Index
      <4> QED BY <1>4, <2>2, <4>1 DEF RingInv, TypeOK
    <3> QED BY <3>1, <3>2
  <2>10. DataWritten'
    BY <1>4, <2>8, <2>9 DEF DataWritten
  <2> QED BY <2>3, <2>4, <2>5, <2>10 DEF RingInv
<1>5. CASE CopyBegin
  BY Zenon, <1>4, <1>5 DEF CopyBegin
<1>6. ASSUME NEW v \in Values, CopyEnd(v) PROVE RingInv'
  BY Zenon, <1>4, <1>6 DEF CopyEnd, RingInv, WriterSafe
<1>7. CASE WriteFinish
  <2>1. /\ head \in Index /\ tail \in Index /\ seen_tail \in Index
        /\ wk \in Nat /\ wk <= FreeNum(head, seen_tail)
        /\ wk <= FreeNum(head, tail)
    BY <1>7, Numbers DEF WriteFinish, RingInv, TypeOK, WriterSafe, CachesSafe
  <2>2. /\ head' \in Index
        /\ WrittenNum(head', tail) = WrittenNum(head, tail) + wk
        /\ WrittenNum(head', seen_tail) = WrittenNum(head, seen_tail) + wk
    BY <1>7, <2>1, AdvanceHead DEF WriteFinish
  <2>3. TypeOK'
    BY <1>7, <2>2 DEF WriteFinish, RingInv, TypeOK, reader
  <2>4. CachesSafe'
    BY <1>7, <2>1, <2>2, Numbers DEF WriteFinish, RingInv, CachesSafe, reader
  <2>5. WriterSafe'
    <3>1. FreeNum(head', tail) \in Nat
      BY <2>1, <2>2, Counts DEF Index
    <3> QED BY <1>7, <3>1 DEF WriteFinish, WriterSafe
  <2>6. ReaderSafe'
    BY <1>7 DEF WriteFinish, RingInv, ReaderSafe, reader
  <2>7. ASSUME NEW i \in Index, i < WrittenNum(head, tail) + wk
        PROVE  slots[Advance(tail, i)] \in Values
    <3> DEFINE w == WrittenNum(head, tail)
    <3>1. w \in Index /\ head = Advance(tail, w)
      BY <2>1, Counts, HeadFromTail
    <3>2. CASE i < w
      BY <3>2 DEF RingInv, DataWritten
    <3>3. CASE i >= w
      <4>1. i - w \in Index /\ i - w < wk /\ w + (i - w) = i
        BY <3>1, <3>3, <2>7, <2>1 DEF Index
      <4>2. Advance(tail, i) = Advance(head, i - w)
        <5> HIDE DEF w
        <5> QED BY <2>1, <2>7, <3>1, <4>1, AdvanceOneTurn DEF Index
      <4> QED BY <1>7, <4>1, <4>2 DEF WriteFinish, RingInv, DataWritten
    <3> QED BY <3>1, <3>2, <3>3 DEF Index
  <2>8. DataWritten'
    BY <1>7, <2>1, <2>2, <2>7 DEF WriteFinish, DataWritten, reader
  <2> QED BY <2>3, <2>4, <2>5, <2>6, <2>8 DEF RingInv
<1>8. CASE AskFree
  <2>1. FreeNum(head, tail) \in 0 .. Capacity
    BY Numbers, RingAssumption DEF RingInv
  <2> QED BY <1>8, <2>1 DEF AskFree, RingInv, TypeOK, CachesSafe, WriterSafe,
     ReaderSafe, DataWritten, shared, reader, Index
<1> QED
  BY <1>1, <1>2, <1>2a, <1>3, <1>5, <1>6, <1>7, <1>8 DEF WriterNext

(* The steps of the reader that move its cache of head and show it m       *)
(* elements, split in two runs of the array.                               *)
LEMMA ShowWindowRingInv ==
    ASSUME RingInv,
           UNCHANGED <<shared, writer, rval>>,
           seen_head' \in {head, seen_head},
           rpc' \in {"idle", "window", "upto"},
           rlen1' \in Nat, rlen2' \in Nat,
           rlen1' + rlen2' <= WrittenNum(seen_head', tail),
           tail + rlen1' <= Capacity \/ rpc' = "upto",
           rlen2' > 0 => tail + rlen1' = Capacity /\ rpc' = "window"
    PROVE  RingInv'
<1>1. /\ head' = head /\ tail' = tail /\ slots' = slots /\ rval' = rval
      /\ seen_tail' = seen_tail /\ wpc' = wpc /\ wn' = wn /\ wk' = wk /\ wfree' = wfree
  BY DEF shared, writer
<1>2. WrittenNum(seen_head', tail) \in 0 .. (Capacity - 1)
  BY Numbers DEF RingInv
<1>3. rlen1' \in 0 .. Capacity /\ rlen2' \in 0 .. Capacity
  BY <1>2, RingAssumption
<1>4. TypeOK'
  BY <1>1, <1>3 DEF RingInv, TypeOK
<1>5. CachesSafe'
  BY <1>1, Numbers DEF RingInv, CachesSafe
<1>6. WriterSafe' /\ DataWritten'
  BY <1>1 DEF RingInv, WriterSafe, DataWritten, Index
<1>7. ReaderSafe'
  BY <1>1 DEF ReaderSafe
<1> QED BY <1>4, <1>5, <1>6, <1>7 DEF RingInv

(* The steps of the reader that remove k of the elements it was shown. *)
LEMMA RemoveRingInv ==
    ASSUME RingInv, NEW k \in Nat, k <= rlen1 + rlen2,
           tail' = Advance(tail, k),
           rpc' = "idle", rlen1' = 0, rlen2' = 0,
           UNCHANGED <<head, slots, writer, seen_head, rval>>
    PROVE  RingInv'
<1>1. /\ head' = head /\ slots' = slots /\ rval' = rval /\ seen_head' = seen_head
      /\ seen_tail' = seen_tail /\ wpc' = wpc /\ wn' = wn /\ wk' = wk /\ wfree' = wfree
  BY DEF writer
<1>2. /\ head \in Index /\ tail \in Index /\ seen_head \in Index
      /\ rlen1 \in Nat /\ rlen2 \in Nat
  BY DEF RingInv, TypeOK
<1>3. k <= WrittenNum(seen_head, tail) /\ k <= WrittenNum(head, tail)
  BY <1>2, Numbers DEF RingInv, ReaderSafe, CachesSafe
<1>4. /\ tail' \in Index
      /\ WrittenNum(seen_head, tail') = WrittenNum(seen_head, tail) - k
      /\ WrittenNum(head, tail') = WrittenNum(head, tail) - k
  BY <1>2, <1>3, AdvanceTail
<1>5. TypeOK'
  BY <1>1, <1>4, RingAssumption DEF RingInv, TypeOK
<1>6. CachesSafe'
  BY <1>1, <1>3, <1>4, Numbers DEF RingInv, CachesSafe
<1>7. WriterSafe'
  <2>1. FreeNum(head, tail') = FreeNum(head, tail) + k
    <3>1. FreeNum(head, tail') = Capacity - 1 - WrittenNum(head, tail')
      BY <1>2, <1>4, Counts
    <3> QED BY <1>4, <3>1, Numbers, RingAssumption DEF RingInv
  <2>2. wfree \in Nat
    BY DEF RingInv, TypeOK
  <2>3. wfree <= FreeNum(head, tail')
    BY <2>1, <2>2, Numbers, RingAssumption DEF RingInv, WriterSafe
  <2> QED BY <1>1, <2>3 DEF RingInv, WriterSafe
<1>8. ReaderSafe'
  BY <1>1, <1>3, <1>4, Numbers, RingAssumption DEF RingInv, ReaderSafe, Index
<1>9. ASSUME NEW i \in Index, i < WrittenNum(head, tail')
      PROVE  slots[Advance(tail', i)] \in Values
  <2>1. k + i \in Index /\ k \in Index /\ k + i < WrittenNum(head, tail)
    BY <1>3, <1>4, <1>9, Numbers, RingAssumption DEF RingInv, Index
  <2>2. k + i < Capacity
    BY <2>1, RingAssumption DEF Index
  <2>3. Advance(tail', i) = Advance(tail, k + i)
    BY <1>2, <1>9, <2>1, <2>2, AdvanceOneTurn
  <2> QED BY <2>1, <2>3 DEF RingInv, DataWritten
<1>10. DataWritten'
  BY <1>1, <1>9 DEF RingInv, DataWritten
<1> QED BY <1>5, <1>6, <1>7, <1>8, <1>10 DEF RingInv

(* peek shows a reader the n oldest elements in ring order. *)
LEMMA PeekSplit ==
    ASSUME NEW h \in Index, NEW t \in Index, NEW n \in Nat, n <= WrittenNum(h, t)
    PROVE  /\ PeekLen1(h, t, n) \in Nat /\ PeekLen2(h, t, n) \in Nat
           /\ PeekLen1(h, t, n) + PeekLen2(h, t, n) = n
           /\ t + PeekLen1(h, t, n) <= Capacity
           /\ PeekLen2(h, t, n) > 0 => t + PeekLen1(h, t, n) = Capacity
  BY RingAssumption DEF Index, WrittenNum, PeekLen1, PeekLen2, Lesser

(* ... and so does the reader. *)
LEMMA ReaderRingInv == RingInv /\ ReaderNext => RingInv'
<1> SUFFICES ASSUME RingInv, ReaderNext PROVE RingInv'
  OBVIOUS
<1>0. /\ head \in Index /\ tail \in Index /\ seen_head \in Index
      /\ rlen1 \in Nat /\ rlen2 \in Nat
      /\ tail < Capacity
  BY RingAssumption DEF RingInv, TypeOK, Index
<1>1. CASE ReadOffNowrap
  <2> DEFINE seen == IF WrittenNum(seen_head, tail) = 0 THEN head ELSE seen_head
  <2>1. WrittenNum(seen, tail) \in Nat /\ seen \in {head, seen_head}
    BY Numbers DEF RingInv
  <2>2. /\ seen_head' = seen /\ rpc' \in {"idle", "window"} /\ rlen2' = 0
        /\ rlen1' = Lesser(WrittenNum(seen, tail), 1)
        /\ UNCHANGED <<shared, writer, rval>>
    BY <1>1 DEF ReadOffNowrap
  <2> HIDE DEF seen
  <2>3. rlen1' \in Nat /\ rlen1' <= 1 /\ rlen1' <= WrittenNum(seen, tail)
    BY <2>1, <2>2 DEF Lesser
  <2>4. tail + rlen1' <= Capacity
    <3>1. rlen1' = 0 \/ rlen1' = 1
      BY <2>3
    <3> QED BY <1>0, <3>1, RingAssumption DEF Index
  <2> QED BY <2>1, <2>2, <2>3, <2>4, ShowWindowRingInv
<1>2. ASSUME NEW n \in 1 .. Capacity, Peek(n) PROVE RingInv'
  <2> DEFINE seen == IF WrittenNum(seen_head, tail) < n THEN head ELSE seen_head
             num  == WrittenNum(seen, tail)
             m    == Lesser(n, num)
  <2>1. num \in Nat /\ seen \in {head, seen_head} /\ seen \in Index
    BY <1>0, Numbers DEF RingInv
  <2>2. /\ seen_head' = seen /\ rpc' = IF num > 0 THEN "window" ELSE "idle"
        /\ rlen1' = IF num > 0 THEN PeekLen1(seen, tail, m) ELSE 0
        /\ rlen2' = IF num > 0 THEN PeekLen2(seen, tail, m) ELSE 0
        /\ UNCHANGED <<shared, writer, rval>>
    BY <1>2 DEF Peek
  <2>3. m \in Nat /\ m <= num
    BY <2>1, RingAssumption DEF Lesser
  <2> HIDE DEF seen, m
  <2>4. /\ PeekLen1(seen, tail, m) \in Nat /\ PeekLen2(seen, tail, m) \in Nat
        /\ PeekLen1(seen, tail, m) + PeekLen2(seen, tail, m) = m
        /\ tail + PeekLen1(seen, tail, m) <= Capacity
        /\ PeekLen2(seen, tail, m) > 0 => tail + PeekLen1(seen, tail, m) = Capacity
    BY <1>0, <2>1, <2>3, PeekSplit
  <2> HIDE DEF num
  <2>5. /\ rlen1' \in Nat /\ rlen2' \in Nat /\ rlen1' + rlen2' <= num
        /\ tail + rlen1' <= Capacity
        /\ rlen2' > 0 => tail + rlen1' = Capacity /\ rpc' = "window"
    BY <1>0, <2>1, <2>2, <2>3, <2>4, RingAssumption DEF Index
  <2> QED BY <2>1, <2>2, <2>5, ShowWindowRingInv DEF num
<1>2a. ASSUME NEW n \in 1 .. Capacity, ReadAcquire(n) PROVE RingInv'
  <2> DEFINE seen == IF WrittenNum(seen_head, tail) < n THEN head ELSE seen_head
             num  == WrittenNum(seen, tail)
  <2>1. num \in Nat /\ seen \in {head, seen_head} /\ seen \in Index
    BY <1>0, Numbers DEF RingInv
  <2>2. /\ seen_head' = seen /\ rpc' = IF num > 0 THEN "window" ELSE "idle"
        /\ rlen1' = PeekLen1(seen, tail, num) /\ rlen2' = PeekLen2(seen, tail, num)
        /\ UNCHANGED <<shared, writer, rval>>
    BY <1>2a DEF ReadAcquire
  <2> HIDE DEF seen
  <2>3. /\ rlen1' \in Nat /\ rlen2' \in Nat /\ rlen1' + rlen2' = num
        /\ tail + rlen1' <= Capacity
        /\ rlen2' > 0 => tail + rlen1' = Capacity
    BY <1>0, <2>1, <2>2, PeekSplit
  <2> HIDE DEF num
  <2>4. rlen1' + rlen2' <= num /\ (rlen2' > 0 => rpc' = "window")
    BY <2>1, <2>2, <2>3
  <2> QED BY <2>1, <2>2, <2>3, <2>4, ShowWindowRingInv DEF num
<1>3. ASSUME NEW j \in 0 .. (rlen1 + rlen2 - 1), ReadElem(j) PROVE RingInv'
  <2>1. PeekSlot(tail, j) \in Index
    <3>1. /\ rlen1 + rlen2 <= WrittenNum(seen_head, tail)
          /\ tail + rlen1 <= Capacity
      BY <1>3 DEF RingInv, ReaderSafe, ReadElem
    <3> QED BY <1>0, <1>3, <3>1, Numbers, RingAssumption DEF RingInv, PeekSlot, Index
  <2>2. rval' \in Values \cup {Garbage}
    BY <1>3, <2>1 DEF ReadElem, RingInv, TypeOK
  <2> QED BY <1>3, <2>2 DEF ReadElem, shared, writer, RingInv, TypeOK, CachesSafe,
             WriterSafe, ReaderSafe, DataWritten, Index
<1>4. CASE LeaveWindow
  <2>1. tail + 0 <= Capacity /\ 0 <= WrittenNum(seen_head, tail)
    BY <1>0, Numbers, RingAssumption DEF RingInv, Index
  <2> QED BY <1>4, <2>1, ShowWindowRingInv DEF LeaveWindow
<1>5. ASSUME NEW k \in 1 .. (rlen1 + rlen2), Consume(k) PROVE RingInv'
  BY <1>0, <1>5, RemoveRingInv DEF Consume
<1>6. ASSUME NEW n \in 1 .. Capacity, ConsumeUpto(n) PROVE RingInv'
  <2> DEFINE seen == IF WrittenNum(seen_head, tail) < n THEN head ELSE seen_head
             k == Lesser(n, WrittenNum(seen, tail))
  <2>1. WrittenNum(seen, tail) \in Nat /\ seen \in {head, seen_head}
    BY Numbers DEF RingInv
  <2>2. /\ seen_head' = seen /\ rpc' = IF k > 0 THEN "upto" ELSE "idle"
        /\ rlen1' = k /\ rlen2' = 0
        /\ UNCHANGED <<shared, writer, rval>>
    BY <1>6 DEF ConsumeUpto
  <2> HIDE DEF seen
  <2>3. k \in Nat /\ k <= WrittenNum(seen, tail)
    BY <2>1, RingAssumption DEF Lesser
  <2> HIDE DEF k
  <2>4. tail + k <= Capacity \/ rpc' = "upto"
    BY <1>0, <2>2, <2>3, RingAssumption DEF Index
  <2> QED BY <2>1, <2>2, <2>3, <2>4, ShowWindowRingInv
<1>7. CASE ConsumeUptoStore
  BY <1>0, <1>7, RemoveRingInv DEF ConsumeUptoStore
<1> QED
  BY <1>1, <1>2, <1>2a, <1>3, <1>4, <1>5, <1>6, <1>7 DEF ReaderNext

(* RingInv is preserved by every step of the two threads. *)
LEMMA NextRingInv == RingInv /\ [Next]_vars => RingInv'
<1>1. RingInv /\ UNCHANGED vars => RingInv'
  BY DEF RingInv, TypeOK, CachesSafe, WriterSafe, ReaderSafe, DataWritten, Index,
         vars, shared, writer, reader
<1> QED BY <1>1, WriterRingInv, ReaderRingInv DEF Next

(* The indices, caches, windows and data of the ring buffer are always in  *)
(* the relation RingInv, for every capacity.                               *)
THEOREM RingInvariant == Spec => []RingInv
<1> QED BY InitRingInv, NextRingInv, PTL DEF Spec

(* The variables of the ring buffer keep their types. *)
THEOREM TypeCorrect == Spec => []TypeOK
<1>1. RingInv => TypeOK
  BY DEF RingInv
<1> QED BY <1>1, RingInvariant, PTL

(* The j-th element that peek shows is the j-th oldest element. *)
LEMMA PeekSlotInOrder ==
    ASSUME RingInv, rpc = "window", NEW j \in 0 .. (rlen1 + rlen2 - 1)
    PROVE  /\ PeekSlot(tail, j) = Advance(tail, j)
           /\ j \in 0 .. (WrittenNum(head, tail) - 1)
<1>1. tail \in 0 .. (Capacity - 1) /\ rlen1 \in Nat /\ rlen2 \in Nat
  BY DEF RingInv, TypeOK, Index
<1>2. /\ tail + rlen1 <= Capacity
      /\ rlen2 > 0 => tail + rlen1 = Capacity
      /\ rlen1 + rlen2 <= WrittenNum(seen_head, tail)
  BY DEF RingInv, ReaderSafe
<1>3. rlen1 + rlen2 <= WrittenNum(head, tail) /\ WrittenNum(head, tail) < Capacity
  BY <1>1, <1>2, Numbers, RingAssumption DEF RingInv, CachesSafe
<1>4. WrittenNum(head, tail) \in Nat
  BY Numbers DEF RingInv
<1> QED BY <1>1, <1>2, <1>3, <1>4, RingAssumption DEF PeekSlot, Advance

(* A slot the writer was given is no slot of an unread element. *)
LEMMA WriteSlotFree ==
    ASSUME RingInv, wpc \in {"fill", "copy"}, NEW j \in 0 .. (wn - 1),
           NEW i \in 0 .. (WrittenNum(head, tail) - 1)
    PROVE  Advance(head, j) # Advance(tail, i)
<1> DEFINE w == WrittenNum(head, tail)
<1>1. head \in Index /\ tail \in Index /\ wn \in Nat
  BY DEF RingInv, TypeOK
<1>2. wn <= FreeNum(head, seen_tail)
  BY DEF RingInv, WriterSafe
<1>3. w \in Index /\ i \in Index /\ j \in Index /\ w + j \in Index /\ w + j < Capacity
  BY <1>1, <1>2, Numbers, RingAssumption DEF RingInv, CachesSafe, Index
<1>4. w + j # i
  BY <1>3 DEF Index
<1>5. head = Advance(tail, w)
  BY <1>1, HeadFromTail
<1> HIDE DEF w
<1>6. Advance(head, j) = Advance(tail, w + j)
  BY <1>1, <1>3, <1>5, AdvanceOneTurn
<1> QED BY <1>1, <1>3, <1>4, <1>6, AdvanceOneTurn

(* The writer never touches a slot that the reader may read: no race on    *)
(* an element, whatever the two caches missed.                             *)
THEOREM NoSlotRaceHolds == Spec => []NoSlotRace
<1>1. RingInv => NoSlotRace
  <2> SUFFICES ASSUME RingInv PROVE NoSlotRace
    OBVIOUS
  <2>1. ReadWindow \subseteq Unread
    BY PeekSlotInOrder DEF ReadWindow, Unread
  <2>2. WriteWindow \cap Unread = {}
    BY WriteSlotFree DEF WriteWindow, Unread
  <2> QED BY <2>1, <2>2 DEF NoSlotRace
<1> QED BY <1>1, RingInvariant, PTL

(* The assertion in write_finish holds: head never catches up with tail. *)
THEOREM HeadMoveValidHolds == Spec => []HeadMoveValid
<1>1. RingInv => HeadMoveValid
  <2> SUFFICES ASSUME RingInv, wpc = "fill", wk > 0
               PROVE  Advance(head, wk) # tail
    BY DEF HeadMoveValid
  <2>1. head \in Index /\ tail \in Index /\ wk \in Nat /\ wn \in Nat
    BY DEF RingInv, TypeOK
  <2>2. wk <= wn /\ wn <= FreeNum(head, seen_tail)
    BY DEF RingInv, WriterSafe
  <2>3. wk <= FreeNum(head, tail)
    BY <2>1, <2>2, Numbers, RingAssumption DEF RingInv, CachesSafe
  <2>4. WrittenNum(Advance(head, wk), tail) = WrittenNum(head, tail) + wk
    BY <2>1, <2>3, AdvanceHead
  <2>5. WrittenNum(tail, tail) = 0
    BY <2>1 DEF WrittenNum, Index
  <2> QED BY <2>1, <2>4, <2>5, Numbers DEF RingInv
<1> QED BY <1>1, RingInvariant, PTL

(* A writer that saw free space is never refused a slot. *)
THEOREM NullOnlyWithoutSpaceHolds == Spec => []NullOnlyWithoutSpace
<1>1. RingInv => NullOnlyWithoutSpace
  BY DEF RingInv, WriterSafe, NullOnlyWithoutSpace
<1> QED BY <1>1, RingInvariant, PTL

-----------------------------------------------------------------------------
(* Refinement of the bounded FIFO queue. *)

QueueFacts ==
    /\ Queue \in Seq(Values)
    /\ Len(Queue) = WrittenNum(head, tail)
    /\ \A i \in 1 .. WrittenNum(head, tail) : Queue[i] = slots[Advance(tail, i - 1)]

(* The queue the ring represents is a sequence of whole elements. *)
LEMMA QueueSeq == RingInv => QueueFacts
<1> SUFFICES ASSUME RingInv PROVE QueueFacts
  OBVIOUS
<1> DEFINE w == WrittenNum(head, tail)
<1>1. w \in Nat /\ w < Capacity
  BY Numbers, RingAssumption DEF RingInv
<1>2. \A i \in 1 .. w : slots[Advance(tail, i - 1)] \in Values
  <2> SUFFICES ASSUME NEW i \in 1 .. w
               PROVE  slots[Advance(tail, i - 1)] \in Values
    OBVIOUS
  <2>1. i - 1 \in Index /\ i - 1 < w
    BY <1>1, RingAssumption DEF Index
  <2> QED BY <2>1 DEF RingInv, DataWritten
<1>3. Queue \in [1 .. w -> Values]
  BY <1>2 DEF Queue
<1>4. Queue \in Seq(Values)
  BY <1>1, <1>3, SeqDef
<1>5. Len(Queue) = w
  BY <1>1, <1>3, <1>4, LenProperties
<1> QED BY Zenon, <1>4, <1>5 DEF Queue, QueueFacts

(* A step that leaves the indices and the unread slots alone is invisible. *)
LEMMA QueueUnchanged ==
    ASSUME RingInv, RingInv', head' = head, tail' = tail,
           \A i \in 0 .. (WrittenNum(head, tail) - 1) :
              slots'[Advance(tail, i)] = slots[Advance(tail, i)]
    PROVE  Queue' = Queue
<1> DEFINE w == WrittenNum(head, tail)
<1>1. w \in Nat
  BY Numbers DEF RingInv
<1>2. \A i \in 1 .. w : i - 1 \in 0 .. (w - 1)
  BY <1>1
<1> QED BY <1>2 DEF Queue

(* write_finish publishes the filled slots as one batch. *)
LEMMA WriteFinishPushes ==
    ASSUME RingInv, RingInv', WriteFinish PROVE Fifo!Push
<1> DEFINE w == WrittenNum(head, tail)
           batch == [i \in 1 .. wk |-> slots[Advance(head, i - 1)]]
<1>1. head \in Index /\ tail \in Index /\ wk \in Nat /\ wn \in Nat
  BY DEF RingInv, TypeOK
<1>2. wk <= wn /\ wn <= FreeNum(head, seen_tail)
  BY DEF RingInv, WriterSafe, WriteFinish
<1>3. /\ w \in Nat /\ w + wk < Capacity /\ wk <= FreeNum(head, tail)
      /\ wk \in 1 .. (Capacity - 1 - w)
  BY <1>1, <1>2, Numbers, RingAssumption DEF RingInv, CachesSafe, WriteFinish
<1>4. WrittenNum(head', tail') = w + wk
  BY <1>1, <1>3, AdvanceHead DEF WriteFinish
<1>5. batch \in [1 .. wk -> Values]
  <2> SUFFICES ASSUME NEW i \in 1 .. wk
               PROVE  slots[Advance(head, i - 1)] \in Values
    OBVIOUS
  <2>1. i - 1 \in Index /\ i - 1 < wk
    BY <1>1, <1>3, RingAssumption DEF Index
  <2> QED BY <2>1 DEF RingInv, DataWritten, WriteFinish
<1>6. /\ batch \in Seq(Values) /\ Len(batch) = wk
      /\ \A i \in 1 .. wk : batch[i] = slots[Advance(head, i - 1)]
  <2>1. batch \in Seq(Values)
    BY <1>1, <1>5, SeqDef
  <2> QED BY <1>1, <1>5, <2>1, LenProperties
<1>7. /\ Queue' \in Seq(Values) /\ Len(Queue') = w + wk
      /\ \A i \in 1 .. (w + wk) : Queue'[i] = slots[Advance(tail, i - 1)]
  <2>1. tail' = tail /\ slots' = slots
    BY DEF WriteFinish
  <2>2. QueueFacts'
    BY QueueSeq, PTL
  <2> QED BY <1>4, <2>1, <2>2 DEF QueueFacts
<1>8. /\ Queue \in Seq(Values) /\ Len(Queue) = w
      /\ \A i \in 1 .. w : Queue[i] = slots[Advance(tail, i - 1)]
  BY QueueSeq DEF QueueFacts
<1>9. ASSUME NEW i \in 1 .. (w + wk), i > w
      PROVE  Advance(tail, i - 1) = Advance(head, i - w - 1)
  <2>1. w \in Index /\ i - w - 1 \in Index /\ w + (i - w - 1) = i - 1
        /\ w + (i - w - 1) < Capacity
    BY <1>1, <1>3, <1>9, RingAssumption DEF Index
  <2>2. head = Advance(tail, w)
    BY <1>1, HeadFromTail
  <2> HIDE DEF w
  <2> QED BY <1>1, <2>1, <2>2, AdvanceOneTurn
<1> HIDE DEF batch, w
<1>10. /\ Queue \o batch \in Seq(Values) /\ Len(Queue \o batch) = w + wk
       /\ \A i \in 1 .. (w + wk) :
             (Queue \o batch)[i] = IF i <= w THEN Queue[i] ELSE batch[i - w]
  BY ZenonT(40), <1>6, <1>8, ConcatProperties
<1>11. ASSUME NEW i \in 1 .. (w + wk) PROVE Queue'[i] = (Queue \o batch)[i]
  <2>1. CASE i <= w
    <3>1. i \in 1 .. w
      BY <1>1, <1>3, <2>1
    <3>2. (Queue \o batch)[i] = Queue[i]
      BY <1>10, <2>1
    <3> QED BY <1>7, <1>8, <3>1, <3>2
  <2>2. CASE ~(i <= w)
    <3>1. i > w /\ i - w \in 1 .. wk
      BY <1>1, <1>3, <2>2
    <3>2. (Queue \o batch)[i] = slots[Advance(head, i - w - 1)]
      BY <1>6, <1>10, <2>2, <3>1
    <3> QED BY <1>7, <1>9, <3>1, <3>2
  <2> QED BY Zenon, <2>1, <2>2
<1>12. Queue' = Queue \o batch
  BY <1>7, <1>10, <1>11, SeqEqual
<1>13. rval' = rval
  BY DEF WriteFinish, reader
<1> QED BY SMTT(40), <1>3, <1>5, <1>8, <1>12, <1>13 DEF Fifo!Push

(* Storing a tail that is k > 0 slots further removes the k oldest elements. *)
LEMMA RemoveDrops ==
    ASSUME RingInv, RingInv', NEW k \in Nat \ {0}, k <= rlen1 + rlen2,
           tail' = Advance(tail, k), UNCHANGED <<head, slots, rval>>
    PROVE  Fifo!Drop
<1> DEFINE w == WrittenNum(head, tail)
<1>1. head \in Index /\ tail \in Index /\ rlen1 \in Nat /\ rlen2 \in Nat
  BY DEF RingInv, TypeOK
<1>2. w \in Nat /\ w < Capacity /\ k <= w
  BY <1>1, Numbers, RingAssumption DEF RingInv, CachesSafe, ReaderSafe
<1>3. WrittenNum(head', tail') = w - k
  BY <1>1, <1>2, AdvanceTail
<1>4. /\ Queue' \in Seq(Values) /\ Len(Queue') = w - k
      /\ \A i \in 1 .. (w - k) : Queue'[i] = slots[Advance(tail', i - 1)]
  <2>1. QueueFacts'
    BY QueueSeq, PTL
  <2> QED BY <1>3, <2>1 DEF QueueFacts
<1>5. /\ Queue \in Seq(Values) /\ Len(Queue) = w
      /\ \A i \in 1 .. w : Queue[i] = slots[Advance(tail, i - 1)]
  BY QueueSeq DEF QueueFacts
<1> DEFINE rest == SubSeq(Queue, k + 1, w)
<1>6. ASSUME NEW i \in 1 .. (w - k)
      PROVE  Advance(tail', i - 1) = Advance(tail, k + i - 1)
  <2>1. k \in Index /\ i - 1 \in Index /\ k + (i - 1) = k + i - 1
        /\ k + (i - 1) < Capacity
    BY <1>2, RingAssumption DEF Index
  <2> QED BY <1>1, <2>1, AdvanceOneTurn
<1> HIDE DEF w
<1>7. /\ rest \in Seq(Values)
      /\ Len(rest) = w - k
      /\ \A i \in 1 .. (w - k) : rest[i] = Queue[k + i]
  <2>1. \A i \in (k + 1) .. w : Queue[i] \in Values
    BY <1>2, <1>5, ElementOfSeq
  <2>2. /\ rest \in Seq(Values)
        /\ Len(rest) = IF k + 1 <= w THEN w - (k + 1) + 1 ELSE 0
        /\ \A i \in 1 .. (w - (k + 1) + 1) : rest[i] = Queue[k + 1 + i - 1]
    BY <1>2, <2>1, SubSeqProperties
  <2> HIDE DEF rest
  <2> QED BY <1>2, <2>2
<1>8. ASSUME NEW i \in 1 .. (w - k) PROVE Queue'[i] = rest[i]
  <2>1. k + i \in 1 .. w
    BY <1>2
  <2>2. Queue'[i] = slots[Advance(tail, k + i - 1)]
    BY <1>4, <1>6
  <2>3. rest[i] = slots[Advance(tail, k + i - 1)]
    BY <1>5, <1>7, <2>1
  <2> QED BY Zenon, <2>2, <2>3
<1> HIDE DEF rest
<1>9. Queue' = rest
  BY <1>4, <1>7, <1>8, SeqEqual
<1>10. k \in 1 .. w
  BY <1>2
<1> QED BY <1>5, <1>9, <1>10 DEF Fifo!Drop, rest

(* Every step of the ring buffer is a step of the queue or invisible. *)
LEMMA StepRefines ==
    ASSUME RingInv, RingInv', [Next]_vars PROVE [Fifo!FifoNext]_(Fifo!fifoVars)
<1>0. SUFFICES Fifo!FifoNext \/ (Queue' = Queue /\ rval' = rval)
  BY DEF Fifo!fifoVars
<1>1. CASE UNCHANGED <<head, tail, slots, rval>>
  BY <1>1, QueueUnchanged
<1>2. ASSUME NEW v, slots' = [slots EXCEPT ![Advance(head, wk)] = v],
             wpc \in {"fill", "copy"}, wk < wn,
             UNCHANGED <<head, tail, rval>>
      PROVE  Queue' = Queue /\ rval' = rval
  <2>1. wk \in 0 .. (wn - 1)
    BY <1>2 DEF RingInv, TypeOK
  <2>2. \A i \in 0 .. (WrittenNum(head, tail) - 1) :
          Advance(head, wk) # Advance(tail, i)
    BY <1>2, <2>1, WriteSlotFree
  <2>3. \A i \in 0 .. (WrittenNum(head, tail) - 1) :
          slots'[Advance(tail, i)] = slots[Advance(tail, i)]
    <3> SUFFICES ASSUME NEW i \in 0 .. (WrittenNum(head, tail) - 1)
                 PROVE  slots'[Advance(tail, i)] = slots[Advance(tail, i)]
      OBVIOUS
    <3>1. i \in Index /\ tail \in Index
      <4>1. tail \in Index
        BY DEF RingInv, TypeOK
      <4> QED BY <4>1, Numbers, RingAssumption DEF RingInv, Index
    <3>2. Advance(tail, i) \in Index
      BY <3>1, AdvanceOneTurn
    <3>3. slots \in [Index -> Values \cup {Garbage}]
      BY DEF RingInv, TypeOK
    <3> QED BY <1>2, <2>2, <3>2, <3>3
  <2> QED BY <1>2, <2>3, QueueUnchanged
<1>3. CASE CopyBegin
  BY Zenon, <1>2, <1>3 DEF CopyBegin, reader
<1>4. ASSUME NEW v \in Values, CopyEnd(v) PROVE Queue' = Queue /\ rval' = rval
  BY Zenon, <1>2, <1>4 DEF CopyEnd, RingInv, WriterSafe, reader
<1>5. CASE WriteFinish
  BY <1>5, WriteFinishPushes DEF Fifo!FifoNext
<1>6. ASSUME NEW j \in 0 .. (rlen1 + rlen2 - 1), ReadElem(j) PROVE Fifo!Read
  <2>1. /\ PeekSlot(tail, j) = Advance(tail, j)
        /\ j \in 0 .. (WrittenNum(head, tail) - 1)
    BY <1>6, PeekSlotInOrder DEF ReadElem
  <2>2. j + 1 \in 1 .. WrittenNum(head, tail) /\ j + 1 - 1 = j
    BY <2>1, Numbers DEF RingInv
  <2>3. rval' = Queue[j + 1]
    BY <1>6, <2>1, <2>2, QueueSeq DEF ReadElem, QueueFacts
  <2>4. Queue' = Queue
    BY <1>6, QueueUnchanged DEF ReadElem, shared
  <2>5. j + 1 \in 1 .. Len(Queue)
    BY <2>2, QueueSeq DEF QueueFacts
  <2> QED BY <2>3, <2>4, <2>5 DEF Fifo!Read
<1>7. ASSUME NEW k \in 1 .. (rlen1 + rlen2), Consume(k) PROVE Fifo!Drop
  <2>1. rlen1 \in Nat /\ rlen2 \in Nat
    BY DEF RingInv, TypeOK
  <2>2. k \in Nat \ {0} /\ k <= rlen1 + rlen2
    BY <2>1
  <2> QED BY <1>7, <2>2, RemoveDrops DEF Consume
<1>8. CASE ConsumeUptoStore
  <2>1. rlen1 \in Nat /\ rlen2 \in Nat /\ tail \in 0 .. (Capacity - 1)
    BY DEF RingInv, TypeOK, Index
  <2>2. CASE rlen1 = 0
    <3>1. tail' = tail
      BY <1>8, <2>1, <2>2, RingAssumption DEF ConsumeUptoStore, Advance
    <3> QED BY <1>1, <1>8, <3>1 DEF ConsumeUptoStore
  <2>3. CASE rlen1 # 0
    <3>1. rlen1 \in Nat \ {0} /\ rlen1 <= rlen1 + rlen2
      BY SMTT(40), <2>1, <2>3
    <3> QED BY <1>8, <3>1, RemoveDrops DEF ConsumeUptoStore, Fifo!FifoNext
  <2> QED BY <2>2, <2>3
<1>9. \/ UNCHANGED <<head, tail, slots, rval>>
      \/ CopyBegin \/ WriteFinish \/ ConsumeUptoStore
      \/ \E v \in Values : CopyEnd(v)
      \/ \E j \in 0 .. (rlen1 + rlen2 - 1) : ReadElem(j)
      \/ \E k \in 1 .. (rlen1 + rlen2) : Consume(k)
  BY Zenon DEF Next, WriterNext, ReaderNext, WriteOffNowrap, Acquire, AcquireNowrap,
         GiveWindow, ReturnNull, AskFree, ReadOffNowrap, Peek, ReadAcquire, LeaveWindow, ConsumeUpto,
         vars, shared, reader
<1> QED BY <1>1, <1>3, <1>4, <1>5, <1>6, <1>7, <1>8, <1>9 DEF Fifo!FifoNext

(* The ring buffer implements the bounded FIFO queue: no element is lost,  *)
(* duplicated, reordered or seen half written.                             *)
THEOREM RingRefinesFifo == Spec => RefinesFifo
<1>1. Init => Fifo!FifoInit
  <2> SUFFICES ASSUME Init PROVE Queue = << >> /\ rval = Garbage
    BY DEF Fifo!FifoInit
  <2>1. WrittenNum(head, tail) = 0
    BY DEF Init, WrittenNum
  <2>2. RingInv
    BY InitRingInv
  <2>3. Queue \in Seq(Values) /\ Len(Queue) = 0
    BY <2>1, <2>2, QueueSeq DEF QueueFacts
  <2> QED BY <2>3, EmptySeq DEF Init
<1> QED BY <1>1, StepRefines, RingInvariant, PTL DEF Spec, RefinesFifo, Fifo!FifoSpec

-----------------------------------------------------------------------------
(* The monitor buffer. *)

(* The three invariants hold together: a published event has a free slot   *)
(* because its pointer was given for one, and the monitor takes from a     *)
(* queue that only it makes shorter.                                       *)
MonitorInv ==
    /\ MonitorTypeOK /\ InOrderOnce /\ WriteNotLate
    /\ apc \in {"ptr", "write"} => yielded < MaxYields

(* The buffer is empty and nothing was yielded. *)
LEMMA InitMonitorInv == MonitorInit => MonitorInv
<1>1. SUFFICES ASSUME MonitorInit PROVE MonitorInv
  OBVIOUS
<1>2. MonitorTypeOK
  <2>1. finished \in BOOLEAN
    BY <1>1, Zenon DEF MonitorInit
  <2>2. /\ queue \in Seq(Nat) /\ Len(queue) <= MonCapacity /\ yielded \in 0 .. MaxYields
        /\ delivered \in Seq(Nat)
    BY <1>1, MonitorAssumption DEF MonitorInit
  <2> QED BY <1>1, <2>1, <2>2 DEF MonitorInit, MonitorTypeOK
<1>3. InOrderOnce
  BY <1>1 DEF MonitorInit, InOrderOnce
<1>4. WriteNotLate
  <2>1. finished => apc = "exit"
    BY <1>1, Zenon DEF MonitorInit
  <2> QED BY <1>1, <2>1 DEF MonitorInit, WriteNotLate
<1> QED BY <1>1, <1>2, <1>3, <1>4 DEF MonitorInv, MonitorInit

(* Steps of the arbiter and of fetch_arbiter_stream that leave the queue.  *)
LEMMA ControlMonitorInv ==
  ASSUME MonitorInv, Yield \/ WritePtr \/ SetFinished \/ Top \/ CheckFinished
  PROVE  MonitorInv'
<1>1. queue' = queue /\ yielded' = yielded /\ delivered' = delivered
  BY DEF Yield, WritePtr, SetFinished, Top, CheckFinished
<1>2. InOrderOnce'
  BY <1>1 DEF MonitorInv, InOrderOnce
<1>3. MonitorTypeOK'
  <2>1. finished' \in BOOLEAN
    BY Zenon DEF MonitorInv, MonitorTypeOK, Yield, WritePtr, SetFinished, Top, CheckFinished
  <2>2. apc' \in {"run", "ptr", "write", "exit"}
    BY Zenon DEF MonitorInv, MonitorTypeOK, Yield, WritePtr, SetFinished, Top, CheckFinished
  <2>3. mpc' \in {"top", "finished?", "process", "end"}
    BY DEF MonitorInv, MonitorTypeOK, Yield, WritePtr, SetFinished, Top, CheckFinished
  <2> QED BY <1>1, <2>1, <2>2, <2>3 DEF MonitorInv, MonitorTypeOK
<1>4. WriteNotLate'
  <2>1. finished' => apc' = "exit"
    BY Zenon DEF MonitorInv, WriteNotLate, Yield, WritePtr, SetFinished, Top, CheckFinished
  <2>2. apc' = "write" => Len(queue') < MonCapacity
    BY <1>1 DEF MonitorInv, WriteNotLate, Yield, WritePtr, SetFinished, Top, CheckFinished
  <2>3. mpc' = "process" => queue' # << >>
    BY <1>1 DEF MonitorInv, WriteNotLate, Yield, WritePtr, SetFinished, Top, CheckFinished
  <2> QED BY <2>1, <2>2, <2>3 DEF WriteNotLate
<1>5. apc' \in {"ptr", "write"} => yielded' < MaxYields
  BY <1>1 DEF MonitorInv, Yield, WritePtr, SetFinished, Top, CheckFinished
<1> QED BY <1>2, <1>3, <1>4, <1>5 DEF MonitorInv

(* The numbers of delivered, waiting and yielded events move together. *)
LEMMA Balance ==
  ASSUME NEW d \in Nat, NEW q \in Nat, NEW y \in Nat, d + q = y
  PROVE  d + (q + 1) = y + 1 /\ (d + 1) + (q - 1) = y
  OBVIOUS

(* Publishing appends the next number. *)
LEMMA WriteFinishMonitorInv ==
  ASSUME MonitorInv, MonitorWriteFinish
  PROVE  MonitorInv'
<1>1. /\ queue \in Seq(Nat) /\ delivered \in Seq(Nat) /\ yielded \in Nat /\ MaxYields \in Nat
      /\ Len(queue) \in Nat /\ Len(delivered) \in Nat /\ MonCapacity \in Nat
  BY MonitorAssumption DEF MonitorInv, MonitorTypeOK
<1>2. Len(queue) < MonCapacity /\ yielded < MaxYields
  BY DEF MonitorInv, WriteNotLate, MonitorWriteFinish
<1>3. /\ yielded' = yielded + 1 /\ apc' = "run" /\ mpc' = mpc /\ delivered' = delivered
  BY DEF MonitorWriteFinish
<1>4. /\ queue' \in Seq(Nat) /\ Len(queue') = Len(queue) + 1
      /\ queue'[Len(queue) + 1] = yielded + 1
      /\ \A i \in 1 .. Len(queue) : queue'[i] = queue[i]
  BY <1>1 DEF MonitorWriteFinish
<1>5. finished' = finished
  BY DEF MonitorWriteFinish
<1>6. MonitorTypeOK'
  <2>1. finished' \in BOOLEAN
    BY <1>5, Zenon DEF MonitorInv, MonitorTypeOK
  <2>2. Len(queue') <= MonCapacity /\ yielded' \in 0 .. MaxYields
    BY <1>1, <1>2, <1>3, <1>4
  <2> QED BY <2>1, <2>2, <1>3, <1>4 DEF MonitorInv, MonitorTypeOK
<1>7. InOrderOnce'
  <2>1. /\ Len(delivered) + Len(queue) = yielded
        /\ \A i \in 1 .. Len(delivered) : delivered[i] = i
        /\ \A i \in 1 .. Len(queue) : queue[i] = Len(delivered) + i
    BY DEF MonitorInv, InOrderOnce
  <2>2. Len(delivered) + (Len(queue) + 1) = yielded + 1
    <3>1. Len(delivered) + Len(queue) = yielded
      BY <2>1
    <3> DEFINE d == Len(delivered)
               q == Len(queue)
    <3>2. d \in Nat /\ q \in Nat /\ d + q = yielded
      BY <3>1, <1>1
    <3>3. yielded \in Nat
      BY <1>1
    <3> HIDE DEF d, q
    <3>4. d + (q + 1) = yielded + 1
      BY <3>2, <3>3, Balance
    <3> QED BY <3>4 DEF d, q
  <2>3. ASSUME NEW i \in 1 .. Len(queue')
        PROVE  queue'[i] = Len(delivered') + i
    <3>1. CASE i = Len(queue) + 1
      BY <3>1, <2>2, <1>3, <1>4
    <3>2. CASE i # Len(queue) + 1
      <4>1. i \in 1 .. Len(queue)
        BY <3>2, <1>1, <1>4
      <4> QED BY <4>1, <2>1, <1>3, <1>4
    <3> QED BY <3>1, <3>2
  <2> QED BY <2>1, <2>2, <2>3, <1>3, <1>4 DEF InOrderOnce
<1>8. WriteNotLate'
  <2>1. ~finished'
    <3>1. apc # "exit"
      BY DEF MonitorWriteFinish
    <3>2. finished => apc = "exit"
      BY DEF MonitorInv, WriteNotLate
    <3> QED BY <3>1, <3>2, <1>5
  <2>2. queue' # << >>
    BY <1>1, <1>4
  <2> QED BY <2>1, <2>2, <1>3 DEF WriteNotLate
<1> QED BY <1>3, <1>6, <1>7, <1>8 DEF MonitorInv

(* Processing takes the oldest event, whose number is the next one. *)
LEMMA ProcessMonitorInv ==
  ASSUME MonitorInv, Process
  PROVE  MonitorInv'
<1>1. /\ queue \in Seq(Nat) /\ delivered \in Seq(Nat) /\ yielded \in Nat
      /\ Len(queue) \in Nat /\ Len(delivered) \in Nat /\ MonCapacity \in Nat
  BY MonitorAssumption DEF MonitorInv, MonitorTypeOK
<1>2. queue # << >> /\ queue' = Tail(queue) /\ delivered' = Append(delivered, Head(queue))
  BY DEF MonitorInv, WriteNotLate, Process
<1>3. yielded' = yielded /\ apc' = apc /\ mpc' = "top"
  BY DEF Process
<1>4. finished' = finished
  BY DEF Process
<1>5. /\ Head(queue) = queue[1] /\ queue[1] \in Nat /\ Len(queue) >= 1
      /\ Tail(queue) \in Seq(Nat) /\ Len(Tail(queue)) = Len(queue) - 1
      /\ \A i \in 1 .. Len(Tail(queue)) : Tail(queue)[i] = queue[i + 1]
  BY <1>1, <1>2, HeadTailProperties
<1>6. /\ delivered' \in Seq(Nat) /\ Len(delivered') = Len(delivered) + 1
      /\ delivered'[Len(delivered) + 1] = queue[1]
      /\ \A i \in 1 .. Len(delivered) : delivered'[i] = delivered[i]
  BY <1>1, <1>2, <1>5
<1>7. MonitorTypeOK'
  <2>1. finished' \in BOOLEAN
    BY <1>4, Zenon DEF MonitorInv, MonitorTypeOK
  <2>2. Len(queue') <= MonCapacity /\ queue' \in Seq(Nat)
    BY <1>1, <1>2, <1>5 DEF MonitorInv, MonitorTypeOK
  <2> QED BY <2>1, <2>2, <1>3, <1>6 DEF MonitorInv, MonitorTypeOK
<1>8. InOrderOnce'
  <2>1. /\ Len(delivered) + Len(queue) = yielded
        /\ \A i \in 1 .. Len(delivered) : delivered[i] = i
        /\ \A i \in 1 .. Len(queue) : queue[i] = Len(delivered) + i
    BY DEF MonitorInv, InOrderOnce
  <2>2. Len(delivered') + Len(queue') = yielded'
    <3>1. Len(delivered') = Len(delivered) + 1 /\ Len(queue') = Len(queue) - 1
      BY <1>2, <1>5, <1>6
    <3>2. Len(delivered) + Len(queue) = yielded
      BY <2>1
    <3>3. (Len(delivered) + 1) + (Len(queue) - 1) = yielded
      <4> DEFINE d == Len(delivered)
                 q == Len(queue)
      <4>1. d \in Nat /\ q \in Nat /\ d + q = yielded
        BY <3>2, <1>1
      <4>2. yielded \in Nat
        BY <1>1
      <4> HIDE DEF d, q
      <4>3. (d + 1) + (q - 1) = yielded
        BY <4>1, <4>2, Balance
      <4> QED BY <4>3 DEF d, q
    <3> QED BY <3>1, <3>3, <1>3
  <2>3. ASSUME NEW i \in 1 .. Len(delivered')
        PROVE  delivered'[i] = i
    <3>1. CASE i = Len(delivered) + 1
      <4>1. queue[1] = Len(delivered) + 1
        BY <2>1, <1>1, <1>5
      <4> QED BY <3>1, <4>1, <1>6
    <3>2. CASE i # Len(delivered) + 1
      <4>1. i \in 1 .. Len(delivered)
        BY <3>2, <1>1, <1>6
      <4> QED BY <4>1, <2>1, <1>6
    <3> QED BY <3>1, <3>2
  <2>4. ASSUME NEW i \in 1 .. Len(queue')
        PROVE  queue'[i] = Len(delivered') + i
    <3>1. i + 1 \in 1 .. Len(queue) /\ queue'[i] = queue[i + 1]
      BY <1>1, <1>2, <1>5
    <3> QED BY <3>1, <2>1, <1>1, <1>6
  <2> QED BY <2>2, <2>3, <2>4 DEF InOrderOnce
<1>9. WriteNotLate'
  <2>1. finished' => apc' = "exit"
    BY <1>3, <1>4, Zenon DEF MonitorInv, WriteNotLate
  <2>2. apc' = "write" => Len(queue') < MonCapacity
    BY <1>1, <1>2, <1>3, <1>5 DEF MonitorInv, WriteNotLate
  <2> QED BY <2>1, <2>2, <1>3 DEF WriteNotLate
<1> QED BY <1>3, <1>7, <1>8, <1>9 DEF MonitorInv

-----------------------------------------------------------------------------
(* The invariant of the monitor buffer holds for every capacity. *)
THEOREM MonitorInvariant == MonitorSpec => []MonitorInv
<1>1. MonitorInv /\ [MonitorBufferNext]_monitorVars => MonitorInv'
  <2>1. SUFFICES ASSUME MonitorInv, [MonitorBufferNext]_monitorVars PROVE MonitorInv'
    OBVIOUS
  <2>2. CASE UNCHANGED monitorVars
    BY <2>1, <2>2, Zenon DEF monitorVars, MonitorInv, MonitorTypeOK, InOrderOnce, WriteNotLate
  <2>3. CASE MonitorBufferNext /\ ~UNCHANGED monitorVars
    BY <2>1, <2>3, ControlMonitorInv, WriteFinishMonitorInv, ProcessMonitorInv, Zenon
       DEF MonitorBufferNext, ArbiterNext, MonitorNext, Ended
  <2> QED BY <2>1, <2>2, <2>3
<1> QED BY <1>1, InitMonitorInv, PTL DEF MonitorSpec

(* The monitor processes every event once and in the order of the yields.  *)
THEOREM InOrderOnceHolds == MonitorSpec => []InOrderOnce
<1>1. MonitorInv => InOrderOnce
  BY DEF MonitorInv
<1> QED BY <1>1, MonitorInvariant, PTL

(* The arbiter never asks for a pointer of a finished buffer, and the slot *)
(* it was given is free when it publishes.                                 *)
THEOREM WriteNotLateHolds == MonitorSpec => []WriteNotLate
<1>1. MonitorInv => WriteNotLate
  BY DEF MonitorInv
<1> QED BY <1>1, MonitorInvariant, PTL

(* The buffer is never over its capacity. *)
THEOREM MonitorTyped == MonitorSpec => []MonitorTypeOK
<1>1. MonitorInv => MonitorTypeOK
  BY DEF MonitorInv
<1> QED BY <1>1, MonitorInvariant, PTL
=============================================================================
