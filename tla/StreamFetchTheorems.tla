------------------------ MODULE StreamFetchTheorems ------------------------
(***************************************************************************)
(* StreamInv is inductive, and what follows from it.  A monitor with its   *)
(* loop in the main thread (ShamonLoop) is one way to run the arbiter's    *)
(* side of the stream.                                                     *)
(***************************************************************************)
EXTENDS ShamonLoop, StreamFetchProofs, FiniteSetTheorems

(* One more element adds its counter to the sum. *)
LEMMA HoleSumAppend ==
    ASSUME NEW s \in Seq(Elements), NEW x \in Elements
    PROVE  HoleSum(s) \in Nat /\ HoleSum(Append(s, x)) = HoleSum(s) + x.n
<1> DEFINE t == Append(s, x)
           n == Len(s)
           P == {p \in (DOMAIN s) \X Ids : p[2] <= s[p[1]].n}
           Q == {n + 1} \X (1 .. x.n)
           R == {p \in (DOMAIN t) \X Ids : p[2] <= t[p[1]].n}
<1>1. n \in Nat /\ DOMAIN s = 1 .. n OBVIOUS
<1>2. /\ DOMAIN t = 1 .. (n + 1) /\ t[n + 1] = x
      /\ \A i \in 1 .. n : t[i] = s[i]
  BY AppendFacts
<1>3. x.n \in 0 .. MaxEvents BY DEF Elements
<1>4. MaxEvents \in Nat BY StreamAssumption
<1> HIDE DEF t, n
<1>5. R = P \cup Q
  <2>1. ASSUME NEW p \in R PROVE p \in P \cup Q
    <3>1. p[1] \in 1 .. (n + 1) /\ p[2] \in 1 .. MaxEvents /\ p[2] <= t[p[1]].n
          /\ p = <<p[1], p[2]>>
      BY <1>2, <2>1 DEF Ids
    <3>2. CASE p[1] = n + 1
      <4>1. p[2] \in 1 .. x.n BY <1>2, <1>3, <3>1, <3>2
      <4> QED BY <3>1, <3>2, <4>1
    <3>3. CASE p[1] \in 1 .. n
      BY <1>1, <1>2, <2>1, <3>1, <3>3
    <3> QED BY <1>1, <3>1, <3>2, <3>3
  <2>2. ASSUME NEW p \in P PROVE p \in R
    <3>1. p[1] \in 1 .. n /\ p[2] \in Ids /\ p[2] <= s[p[1]].n /\ p = <<p[1], p[2]>>
      BY <1>1, <2>2
    <3>2. p[1] \in 1 .. (n + 1) /\ t[p[1]] = s[p[1]] BY <1>1, <1>2, <3>1
    <3> QED BY <1>2, <3>1, <3>2
  <2>3. ASSUME NEW p \in Q PROVE p \in R
    <3>1. p[1] = n + 1 /\ p[2] \in 1 .. x.n /\ p = <<p[1], p[2]>> BY <2>3
    <3>2. n + 1 \in 1 .. (n + 1) /\ p[2] \in Ids /\ p[2] <= x.n
      BY <1>1, <1>3, <1>4, <3>1 DEF Ids
    <3> QED BY <1>2, <3>1, <3>2
  <2> QED BY <2>1, <2>2, <2>3
<1>6. P \cap Q = {}
  <2>1. n + 1 \notin 1 .. n BY <1>1
  <2> QED BY <1>1, <2>1
<1>7. IsFiniteSet(P)
  <2>1. IsFiniteSet(1 .. n) /\ IsFiniteSet(Ids) BY <1>1, <1>4, FS_Interval DEF Ids
  <2>2. IsFiniteSet((1 .. n) \X Ids) BY <2>1, FS_Product, Zenon
  <2> QED BY <1>1, <2>2, FS_Subset
<1>8. IsFiniteSet(Q) /\ Cardinality(Q) = x.n
  <2>1. IsFiniteSet({n + 1}) /\ Cardinality({n + 1}) = 1 BY Zenon, FS_Singleton
  <2>2. 1 \in Int /\ x.n \in Int BY <1>3
  <2>3. IsFiniteSet(1 .. x.n) /\ Cardinality(1 .. x.n) = IF 1 > x.n THEN 0 ELSE x.n - 1 + 1
    BY <2>2, FS_Interval
  <2>4. Cardinality(1 .. x.n) = x.n BY <1>3, <2>3
  <2>5. IsFiniteSet(Q) /\ Cardinality(Q) = Cardinality({n + 1}) * Cardinality(1 .. x.n)
    BY <2>1, <2>3, FS_Product, Zenon
  <2> QED BY <1>3, <2>1, <2>4, <2>5
<1>9. Cardinality(P) \in Nat BY <1>7, FS_CardinalityType
<1>10. Cardinality(P \cup Q) = Cardinality(P) + Cardinality(Q) - Cardinality(P \cap Q)
  BY <1>7, <1>8, FS_Union, Zenon
<1>11. Cardinality(P \cap Q) = 0 BY <1>6, FS_EmptySet, Zenon
<1> DEFINE cp == Cardinality(P)
           cr == Cardinality(R)
<1>12. cr = cp + x.n - 0 /\ cp \in Nat BY <1>5, <1>8, <1>9, <1>10, <1>11, Zenon
<1> HIDE DEF cp, cr, P, R, Q
<1>13. cr = cp + x.n /\ cp \in Nat BY <1>3, <1>12
<1> QED BY <1>13, Zenon DEF HoleSum, cp, cr, P, R, t

(* The sum is a natural number. *)
LEMMA HoleSumType ==
    ASSUME NEW s \in Seq(Elements)
    PROVE  HoleSum(s) \in Nat
<1>1. Event(0) \in Elements BY StreamAssumption DEF Elements, Event
<1> QED BY <1>1, HoleSumAppend

(* A set of the ids so far gets the next one. *)
LEMMA OneMore ==
    ASSUME NEW n \in Nat, NEW A \in SUBSET (1 .. n)
    PROVE  Cardinality(A \cup {n + 1}) = Cardinality(A) + 1 /\ Cardinality(A) \in Nat
<1>1. IsFiniteSet(1 .. n) BY FS_Interval
<1>2. IsFiniteSet(A) BY <1>1, FS_Subset, Zenon
<1>3. n + 1 \notin A
  <2>1. n + 1 \notin 1 .. n OBVIOUS
  <2> QED BY <2>1
<1> QED BY <1>2, <1>3, FS_AddElement, FS_CardinalityType

-----------------------------------------------------------------------------
(* What became of the events. *)

(* The filter rejects the event. *)
LEMMA AccountFilter ==
    ASSUME ControlInv, AccountInv, Filter(FALSE)
    PROVE  AccountInv'
<1>1. /\ Taken = Consumed /\ Taken \in Nat /\ Taken' = Taken + 1
      /\ shm # << >> /\ Head(shm) = Taken + 1
  <2>1. shm # << >> /\ bpc = "filter" BY DEF Filter, ControlInv, PlaceInv, HoldsEvent
  <2> QED BY <2>1, TakenType, ControlFilter, ShmHead, Zenon DEF ControlInv
<1>2. /\ filtered' = filtered \cup {Taken + 1} /\ ~HoleIsPushed /\ ~HoleIsPushed'
      /\ UNCHANGED <<written, dropped, dropped_num>>
  BY <1>1 DEF Filter, HoleIsPushed, Goto, FilterInFetch
<1>3. Forwarded' = Forwarded BY <1>2 DEF Forwarded
<1>4. /\ filtered \in SUBSET (1 .. Taken) /\ Forwarded \in SUBSET (1 .. Taken)
      /\ dropped \in SUBSET (1 .. Taken) /\ 1 .. (Taken + 1) = (1 .. Taken) \cup {Taken + 1}
  BY <1>1 DEF AccountInv
<1>5. /\ Cardinality(filtered \cup {Taken + 1}) = Cardinality(filtered) + 1
      /\ Cardinality(filtered) \in Nat /\ Cardinality(Forwarded) \in Nat
      /\ Cardinality(dropped) \in Nat
  BY <1>1, <1>4, OneMore, Zenon
<1>6. Forwarded \cup (filtered \cup {Taken + 1}) \cup dropped = 1 .. (Taken + 1)
  BY <1>4 DEF AccountInv
<1>7. Cardinality(Forwarded) + (Cardinality(filtered) + 1) + Cardinality(dropped) = Taken + 1
  <2> DEFINE f == Cardinality(Forwarded)
             r == Cardinality(filtered)
             d == Cardinality(dropped)
  <2>1. f + r + d = Taken BY DEF AccountInv
  <2>2. f \in Nat /\ r \in Nat /\ d \in Nat BY <1>5
  <2> HIDE DEF f, r, d
  <2>3. f + (r + 1) + d = Taken + 1 BY <1>1, <2>1, <2>2
  <2> QED BY <2>3 DEF f, r, d
<1> QED BY <1>1, <1>2, <1>3, <1>5, <1>6, <1>7 DEF AccountInv

(* The event is dropped, and counted as such. *)
LEMMA AccountDrop ==
    ASSUME ControlInv, AccountInv, StartDropping \/ ContinueDropping
    PROVE  AccountInv'
<1>1. /\ bpc \in {"begin", "continue"} /\ bpc' = "skip"
      /\ dropped' = dropped \cup {Head(shm)} /\ dropped_num' = dropped_num + 1
      /\ UNCHANGED <<written, filtered>>
  BY DEF StartDropping, ContinueDropping, Goto
<1>2. /\ Taken = Consumed /\ Taken \in Nat /\ Taken' = Taken + 1
      /\ Head(shm) = Taken + 1 /\ ~HoleIsPushed /\ ~HoleIsPushed'
  <2>1. shm # << >> BY <1>1 DEF ControlInv, PlaceInv, HoldsEvent
  <2> QED BY <1>1, <2>1, TakenType, ControlDrop, ShmHead DEF ControlInv, HoleIsPushed
<1>3. Forwarded' = Forwarded BY <1>1 DEF Forwarded
<1>4. /\ filtered \in SUBSET (1 .. Taken) /\ Forwarded \in SUBSET (1 .. Taken)
      /\ dropped \in SUBSET (1 .. Taken) /\ 1 .. (Taken + 1) = (1 .. Taken) \cup {Taken + 1}
  BY <1>2 DEF AccountInv
<1>5. /\ Cardinality(dropped \cup {Taken + 1}) = Cardinality(dropped) + 1
      /\ Cardinality(filtered) \in Nat /\ Cardinality(Forwarded) \in Nat
      /\ Cardinality(dropped) \in Nat
  BY <1>2, <1>4, OneMore, Zenon
<1>6. Forwarded \cup filtered \cup (dropped \cup {Taken + 1}) = 1 .. (Taken + 1)
  BY <1>4 DEF AccountInv
<1>7. Cardinality(Forwarded) + Cardinality(filtered) + (Cardinality(dropped) + 1) = Taken + 1
  <2> DEFINE f == Cardinality(Forwarded)
             r == Cardinality(filtered)
             d == Cardinality(dropped)
  <2>1. f + r + d = Taken BY DEF AccountInv
  <2>2. f \in Nat /\ r \in Nat /\ d \in Nat BY <1>5
  <2> HIDE DEF f, r, d
  <2>3. f + r + (d + 1) = Taken + 1 BY <1>2, <2>1, <2>2
  <2> QED BY <2>3 DEF f, r, d
<1>8. HoleSum(written) \in Nat /\ dropped_num \in Nat
  BY WrittenTypes, HoleSumType, StreamAssumption DEF ControlInv, TypeOK
<1>9. HoleSum(written) + (dropped_num + 1) = Cardinality(dropped) + 1
  BY <1>2, <1>5, <1>8 DEF AccountInv
<1> QED BY <1>1, <1>2, <1>3, <1>6, <1>7, <1>5, <1>9, Zenon DEF AccountInv

(* The event is forwarded. *)
LEMMA AccountWriteEvent ==
    ASSUME ControlInv, AccountInv, WriteEvent
    PROVE  AccountInv'
<1>1. PICK x \in Elements : written' = Append(written, x) /\ x = Event(Consumed + 1)
  BY ControlPush
<1>2. /\ Taken = Consumed /\ Taken \in Nat /\ Taken' = Taken + 1
      /\ UNCHANGED <<filtered, dropped, dropped_num>> /\ ~HoleIsPushed /\ ~HoleIsPushed'
  BY TakenType, ControlWriteEvent DEF WriteEvent, HoleIsPushed, Goto
<1>3. written \in Seq(Elements) BY WrittenTypes
<1>4. x.kind = "event" /\ x.id = Taken + 1 /\ x.n = 0 BY <1>1, <1>2 DEF Event
<1>5. Forwarded' = Forwarded \cup {Taken + 1} BY <1>1, <1>3, <1>4, ForwardedAppend
<1>6. /\ filtered \in SUBSET (1 .. Taken) /\ Forwarded \in SUBSET (1 .. Taken)
      /\ dropped \in SUBSET (1 .. Taken) /\ 1 .. (Taken + 1) = (1 .. Taken) \cup {Taken + 1}
  BY <1>2 DEF AccountInv
<1>7. (Forwarded \cup {Taken + 1}) \cup filtered \cup dropped = 1 .. (Taken + 1)
  BY <1>6 DEF AccountInv
<1>8. /\ Cardinality(Forwarded \cup {Taken + 1}) = Cardinality(Forwarded) + 1
      /\ Cardinality(filtered) \in Nat /\ Cardinality(Forwarded) \in Nat
      /\ Cardinality(dropped) \in Nat
  BY <1>2, <1>6, OneMore, Zenon
<1>9. (Cardinality(Forwarded) + 1) + Cardinality(filtered) + Cardinality(dropped) = Taken + 1
  <2> DEFINE f == Cardinality(Forwarded)
             r == Cardinality(filtered)
             d == Cardinality(dropped)
  <2>1. f + r + d = Taken BY DEF AccountInv
  <2>2. f \in Nat /\ r \in Nat /\ d \in Nat BY <1>8
  <2> HIDE DEF f, r, d
  <2>3. (f + 1) + r + d = Taken + 1 BY <1>2, <2>1, <2>2
  <2> QED BY <2>3 DEF f, r, d
<1>10. HoleSum(written') = HoleSum(written)
  <2>1. HoleSum(written) \in Nat /\ HoleSum(written') = HoleSum(written) + 0
    BY <1>1, <1>3, <1>4, HoleSumAppend
  <2> QED BY <2>1
<1> QED BY <1>2, <1>5, <1>8, <1>9, <1>10, <1>7 DEF AccountInv

(* The hole counts for the events that were dropped. *)
LEMMA AccountPushHole ==
    ASSUME ControlInv, AccountInv, PushHole
    PROVE  AccountInv'
<1>1. PICK x \in Elements : /\ written' = Append(written, x)
                            /\ x = Hole(last_ev_id - 1, hole_n)
  BY ControlPush, Zenon
<1>2. /\ Taken' = Taken /\ ~HoleIsPushed /\ HoleIsPushed'
      /\ UNCHANGED <<filtered, dropped, dropped_num>> /\ hole_n = dropped_num
  BY ControlPushHole DEF PushHole, HoleIsPushed, Goto, ControlInv, DropInv
<1>3. written \in Seq(Elements) /\ dropped_num \in Nat
  BY WrittenTypes, StreamAssumption DEF ControlInv, TypeOK
<1>4. x.kind = "hole" /\ x.n = dropped_num BY <1>1, <1>2 DEF Hole
<1>5. Forwarded' = Forwarded BY <1>1, <1>3, <1>4, ForwardedAppend, Zenon
<1>6. /\ HoleSum(written') = HoleSum(written) + dropped_num
      /\ HoleSum(written) + dropped_num \in Nat
  BY <1>1, <1>3, <1>4, HoleSumAppend
<1>7. HoleSum(written') + 0 = HoleSum(written) + dropped_num BY <1>6
<1> QED BY <1>2, <1>5, <1>7 DEF AccountInv

(* The drop is over; its hole accounts for it. *)
LEMMA AccountHolePushed ==
    ASSUME ControlInv, AccountInv, HolePushed
    PROVE  AccountInv'
<1>1. /\ Taken' = Taken /\ HoleIsPushed /\ ~HoleIsPushed' /\ dropped_num' = 0
      /\ UNCHANGED <<written, filtered, dropped>>
  BY ControlHolePushed DEF HolePushed, HoleIsPushed, Goto, Fetched, FilterInFetch
<1> QED BY <1>1 DEF AccountInv, Forwarded

-----------------------------------------------------------------------------
(* The whole invariant. *)

(* It holds initially. *)
LEMMA StreamInit == Init => StreamInv
<1> SUFFICES ASSUME Init PROVE StreamInv OBVIOUS
<1>1. ControlInv BY ControlInit
<1>2. /\ written = << >> /\ DOMAIN written = {} /\ Len(written) = 0
      /\ buf = << >> /\ DOMAIN buf = {} /\ Len(buf) = 0
      /\ filtered = {} /\ dropped = {} /\ notified = {}
      /\ dropped_num = 0 /\ last_id = 0 /\ last_processed = 0 /\ ~HoleIsPushed
      /\ bpc = "start" /\ sent = 0 /\ Len(shm) = 0
  BY DEF Init, HoleIsPushed
<1>3. Taken = 0 /\ Consumed = 0 BY <1>2 DEF Taken, Consumed
<1>4. WrittenInv BY <1>2 DEF WrittenInv, SortedById
<1>5. BufInv BY <1>2, <1>3 DEF BufInv
<1>6. Forwarded = {} BY <1>2 DEF Forwarded
<1>7. HoleSum(written) = 0
  <2>1. {p \in (DOMAIN written) \X Ids : p[2] <= written[p[1]].n} = {} BY <1>2
  <2> QED BY <2>1, FS_EmptySet DEF HoleSum
<1>8. Cardinality(Forwarded) = 0 /\ Cardinality(filtered) = 0 /\ Cardinality(dropped) = 0
  BY <1>2, <1>6, FS_EmptySet
<1>9. AccountInv
  <2>1. 1 .. 0 = {} OBVIOUS
  <2>2. Forwarded \cup filtered \cup dropped = 1 .. Taken BY <1>2, <1>3, <1>6, <2>1, Zenon
  <2>3. Cardinality(Forwarded) + Cardinality(filtered) + Cardinality(dropped) = Taken
    BY <1>3, <1>8
  <2>4. HoleSum(written) + (IF HoleIsPushed THEN 0 ELSE dropped_num) = Cardinality(dropped)
    BY <1>2, <1>7, <1>8
  <2> QED BY <2>2, <2>3, <2>4 DEF AccountInv
<1> QED BY <1>1, <1>4, <1>5, <1>9 DEF StreamInv

(* The source preserves it. *)
LEMMA StreamSource ==
    ASSUME StreamInv, SourcePush \/ SourceDestroy
    PROVE  StreamInv'
<1>1. ControlInv' /\ Taken' = Taken BY ControlSource DEF StreamInv
<1>2. /\ UNCHANGED <<buf, written, filtered, dropped, notified, dropped_num,
                     drop_begin_id, last_id, last_processed>>
      /\ UNCHANGED <<bpc, last_ev_id>>
  BY DEF SourcePush, SourceDestroy, bmmVars, arbiterVars
<1>3. Consumed' = Consumed
  <2>1. CASE SourcePush BY <2>1, ShmAppend DEF StreamInv, ControlInv
  <2>2. CASE SourceDestroy BY <2>2 DEF SourceDestroy, Consumed
  <2> QED BY <2>1, <2>2
<1> QED BY <1>1, <1>2, <1>3, QuietStep DEF StreamInv

(* The steps of the buffer manager that decide nothing preserve it. *)
LEMMA StreamBmmMoves ==
    ASSUME StreamInv,
           \/ Start \/ GetEvent \/ CheckDestroyed \/ CheckSize \/ Filter(TRUE)
           \/ HandleDropping \/ ConsumeEvent \/ StreamEnd
    PROVE  StreamInv'
<1>1. ControlInv' /\ Taken' = Taken
  BY ControlMoves, ControlGetEvent, ControlFilter, ControlConsume, Zenon DEF StreamInv
<1>2. Consumed' \in {Consumed, Consumed + 1}
  <2>1. CASE ConsumeEvent BY <2>1, ControlConsume DEF StreamInv
  <2>2. CASE Filter(TRUE) BY <2>2, ControlFilter, Zenon DEF StreamInv
  <2>3. CASE Start \/ GetEvent \/ CheckDestroyed \/ CheckSize \/ HandleDropping \/ StreamEnd
    <3>1. sent' = sent /\ shm' = shm
      BY <2>3 DEF Start, GetEvent, CheckDestroyed, CheckSize, HandleDropping, StreamEnd, sourceVars
    <3> QED BY <3>1, Zenon DEF Consumed
  <2> QED BY <2>1, <2>2, <2>3, Zenon
<1>3. /\ UNCHANGED <<buf, written, filtered, dropped, notified, dropped_num,
                     drop_begin_id, last_id, last_processed>>
      /\ ~HoleIsPushed /\ ~HoleIsPushed'
  <2> USE DEF arbiterVars, HoleIsPushed, Goto, FilterInFetch
  <2>1. CASE Start BY <2>1 DEF Start
  <2>2. CASE GetEvent BY <2>2, Zenon DEF GetEvent
  <2>3. CASE CheckDestroyed \/ CheckSize BY <2>3 DEF CheckDestroyed, CheckSize
  <2>4. CASE Filter(TRUE) BY <2>4, Zenon DEF Filter
  <2>5. CASE HandleDropping BY <2>5 DEF HandleDropping, Fetched
  <2>6. CASE ConsumeEvent BY <2>6 DEF ConsumeEvent
  <2>7. CASE StreamEnd BY <2>7 DEF StreamEnd
  <2> QED BY <2>1, <2>2, <2>3, <2>4, <2>5, <2>6, <2>7, Zenon
<1> QED BY <1>1, <1>2, <1>3, QuietStep, Zenon DEF StreamInv

(* So do those that decide about an event. *)
LEMMA StreamBmmDecides ==
    ASSUME StreamInv,
           \/ Filter(FALSE) \/ StartDropping \/ ContinueDropping
           \/ PushHole \/ HolePushed \/ WriteEvent
    PROVE  StreamInv'
<1> USE DEF StreamInv
<1>1. CASE Filter(FALSE)
  <2>1. ControlInv' /\ Consumed' = Consumed /\ Taken' = Taken + 1
    BY <1>1, ControlFilter, Zenon
  <2>2. /\ UNCHANGED <<buf, written, notified, dropped_num, drop_begin_id, last_id, last_processed>>
        /\ ~HoleIsPushed /\ ~HoleIsPushed'
    BY <1>1 DEF Filter, arbiterVars, HoleIsPushed, Goto, FilterInFetch
  <2>3. WrittenInv' BY <2>1, <2>2, WrittenKept, Zenon
  <2>4. BufInv' BY <2>1, <2>2, BufKept
  <2> QED BY <1>1, <2>1, <2>3, <2>4, AccountFilter
<1>2. CASE StartDropping \/ ContinueDropping
  <2>1. ControlInv' /\ Taken' = Taken + 1 BY <1>2, ControlDrop
  <2>2. UNCHANGED <<buf, written, last_id, last_processed>>
    BY <1>2 DEF StartDropping, ContinueDropping, arbiterVars
  <2>3. BufInv' BY <2>1, <2>2, BufKept
  <2> QED BY <1>2, <2>1, <2>3, WrittenDrop, AccountDrop
<1>3. CASE PushHole
  BY <1>3, ControlPushHole, WrittenPushHole, BufPush, AccountPushHole
<1>4. CASE HolePushed
  <2>1. ControlInv' /\ Taken' = Taken BY <1>4, ControlHolePushed, Zenon
  <2>2. UNCHANGED <<buf, written, last_id, last_processed>>
    BY <1>4 DEF HolePushed, arbiterVars
  <2>3. BufInv' BY <2>1, <2>2, BufKept, Zenon
  <2> QED BY <1>4, <2>1, <2>3, WrittenHolePushed, AccountHolePushed
<1>5. CASE WriteEvent
  BY <1>5, ControlWriteEvent, WrittenWriteEvent, BufPush, AccountWriteEvent
<1> QED BY <1>1, <1>2, <1>3, <1>4, <1>5, Zenon

(* The arbiter preserves it. *)
LEMMA StreamArbiter ==
    ASSUME StreamInv, ArbiterNext
    PROVE  StreamInv'
<1> USE DEF StreamInv
<1>1. CASE \E k \in 1 .. BufCapacity : Drop(k)
  <2>1. PICK k \in 1 .. BufCapacity : Drop(k) BY <1>1
  <2>2. ControlInv' /\ Taken' = Taken BY <2>1, ControlArbiterDrop
  <2>3. /\ UNCHANGED <<written, filtered, dropped, notified, dropped_num, drop_begin_id>>
        /\ UNCHANGED <<bpc, last_ev_id>> /\ Consumed' = Consumed
    BY <2>1 DEF Drop, bmmVars, sourceVars, Consumed
  <2>4. WrittenInv' BY <2>2, <2>3, WrittenKept
  <2>5. AccountInv' BY <2>2, <2>3 DEF AccountInv, Forwarded, HoleIsPushed
  <2> QED BY <2>1, <2>2, <2>4, <2>5, BufArbiterDrop
<1>2. CASE NotifyProcessed
  <2>1. ControlInv' /\ Taken' = Taken BY <1>2, ControlArbiter
  <2>2. /\ UNCHANGED <<written, filtered, dropped, notified, dropped_num, drop_begin_id>>
        /\ UNCHANGED <<bpc, last_ev_id>> /\ Consumed' = Consumed
    BY <1>2 DEF NotifyProcessed, bmmVars, sourceVars, Consumed
  <2>3. WrittenInv' BY <2>1, <2>2, WrittenKept, Zenon
  <2>4. AccountInv' BY <2>1, <2>2, Zenon DEF AccountInv, Forwarded, HoleIsPushed
  <2> QED BY <1>2, <2>1, <2>3, <2>4, BufNotify
<1>3. CASE AskDone \/ AreStreamsDone \/ IsDone
  <2>1. ControlInv' /\ Taken' = Taken BY <1>3, ControlArbiter
  <2>2. UNCHANGED <<sourceVars, shm, bmmVars, buf, last_id, last_processed>>
    BY <1>3 DEF AskDone, AreStreamsDone, IsDone, DoneStep
  <2>3. Consumed' = Consumed BY <2>2 DEF sourceVars, Consumed
  <2> QED BY <2>1, <2>2, <2>3, QuietStep DEF bmmVars
<1> QED BY <1>1, <1>2, <1>3 DEF ArbiterNext

(* A step that changes nothing preserves it. *)
LEMMA StreamStutter ==
    ASSUME StreamInv, UNCHANGED vars
    PROVE  StreamInv'
<1> USE DEF vars, arbiterVars
<1>1. /\ ExitInv' /\ counted' \in BOOLEAN /\ last_processed' \in 0 .. MaxEvents
      /\ cpc' \in {"idle", "notify", "done1", "done2", "done3", "done4", "isdone",
                   "exit1", "exit2", "exit3", "exit4", "exited"}
  BY DEF StreamInv, ControlInv, ExitInv, TypeOK, bmmVars
<1>2. ControlInv' /\ Taken' = Taken BY <1>1, ControlArbiterMoves DEF StreamInv
<1>3. Consumed' = Consumed BY DEF sourceVars, Consumed
<1> QED BY <1>2, <1>3, QuietStep DEF StreamInv, bmmVars

(* Every step preserves it. *)
LEMMA StreamStep == StreamInv /\ [Next]_vars => StreamInv'
<1> SUFFICES ASSUME StreamInv, [Next]_vars PROVE StreamInv' OBVIOUS
<1>1. CASE SourcePush \/ SourceDestroy BY <1>1, StreamSource
<1>2. CASE BmmNext
  <2>1. ASSUME NEW keep \in BOOLEAN, Filter(keep) PROVE StreamInv'
    <3>1. CASE keep = TRUE BY <2>1, <3>1, StreamBmmMoves
    <3>2. CASE keep = FALSE BY <2>1, <3>2, StreamBmmDecides, Zenon
    <3> QED BY <3>1, <3>2, Zenon
  <2> QED BY <1>2, <2>1, StreamBmmMoves, StreamBmmDecides, Zenon DEF BmmNext
<1>3. CASE ArbiterNext BY <1>3, StreamArbiter
<1>4. CASE Terminated \/ UNCHANGED vars BY <1>4, StreamStutter DEF Terminated
<1> QED BY <1>1, <1>2, <1>3, <1>4 DEF Next

(* StreamInv holds in every state of one stream, its buffer manager and    *)
(* the arbiter, whatever the sizes, the thresholds and the fetch function. *)
THEOREM StreamInvariant == Spec => []StreamInv
<1>1. Init => StreamInv BY StreamInit
<1>2. StreamInv /\ [Next]_vars => StreamInv' BY StreamStep
<1> QED BY <1>1, <1>2, PTL DEF Spec

(* The events whose fate is decided, told by what the code knows. *)
LEMMA HandledIsTaken ==
    ASSUME ControlInv
    PROVE  Handled = Taken
<1>1. CASE bpc \in {"skip", "consume"}
  BY <1>1 DEF Handled, Taken, ControlInv, PlaceInv, HoldsEvent
<1>2. CASE bpc \notin {"skip", "consume"} /\ shm = << >>
  <2>1. Len(shm) = 0 /\ sent \in Nat BY <1>2, StreamAssumption DEF ControlInv, TypeOK
  <2> QED BY <1>2, <2>1 DEF Handled, Taken, Consumed
<1>3. CASE bpc \notin {"skip", "consume"} /\ shm # << >>
  <2>1. Head(shm) = Consumed + 1 /\ Consumed \in Nat BY <1>3, ShmHead DEF ControlInv
  <2> QED BY <1>3, <2>1 DEF Handled, Taken
<1> QED BY <1>1, <1>2, <1>3

(* The assertions of core/arbiter.c on ids, room and drops follow from it. *)
LEMMA StateConsistentHolds == StreamInv => StateConsistent
<1> SUFFICES ASSUME StreamInv PROVE StateConsistent OBVIOUS
<1> USE DEF StreamInv
<1>1. TypeOK /\ RoomToForward
  BY DEF ControlInv, RoomInv, IsFetched, RoomToForward
<1>2. IdsConsistent
  <2>1. HoldsEvent => Head(shm) = Consumed + 1 BY ShmHead DEF ControlInv, PlaceInv
  <2> QED BY <2>1 DEF ControlInv, PlaceInv, HoldsEvent, IdsConsistent
<1>3. DropIdsRightInFetch
  <2> SUFFICES ASSUME bpc = "hole", ~FilterInFetch
               PROVE  last_ev_id = dropped_num + drop_begin_id
    BY Zenon DEF DropIdsRightInFetch
  <2>1. last_ev_id = Consumed + 1 /\ Taken = Consumed
    BY TakenType DEF ControlInv, PlaceInv, HoldsEvent
  <2>2. dropped_num > 0 /\ dropped_num \in Nat /\ drop_begin_id \in Nat
    BY StreamAssumption DEF ControlInv, DropInv, TypeOK
  <2>3. drop_begin_id + dropped_num = Taken + 1 BY <2>2, Zenon DEF ControlInv, DropInv
  <2> QED BY <2>1, <2>2, <2>3
<1> QED BY <1>1, <1>2, <1>3 DEF StateConsistent

(* No event that can still be used was released. *)
LEMMA PayloadKept == StreamInv => PayloadNotReleased
<1> SUFFICES ASSUME StreamInv PROVE PayloadNotReleased OBVIOUS
<1> USE DEF StreamInv
<1> DEFINE n == Len(written)
           b == Len(buf)
<1>1. /\ buf \in Seq(Elements) /\ b \in Nat /\ DOMAIN buf = 1 .. b
      /\ n \in Nat /\ DOMAIN written = 1 .. n
  BY WrittenTypes DEF ControlInv, TypeOK
<1>2. b <= n /\ \A i \in 1 .. b : buf[i] = written[n - b + i] BY <1>1, Zenon DEF BufInv
<1> HIDE DEF n, b
<1>3. ASSUME NEW i \in DOMAIN buf, buf[i].kind = "event"
      PROVE  buf[i].id > last_processed /\ buf[i].id \notin notified
  <2>1. n - b + i \in DOMAIN written BY <1>1, <1>2
  <2> QED BY <1>1, <1>2, <1>3, <2>1, Zenon DEF BufInv, WrittenInv
<1>4. ASSUME NEW i \in DOMAIN shm, shm[i] \notin (dropped \cup filtered \cup Forwarded)
      PROVE  shm[i] > last_processed /\ shm[i] \notin notified
  <2>1. shm[i] \in Nat /\ shm[i] >= 1 BY StreamAssumption DEF ControlInv, TypeOK, Ids
  <2>2. shm[i] \notin 1 .. Taken BY <1>4, Zenon DEF AccountInv
  <2>3. /\ Taken \in Nat /\ Consumed \in Nat /\ Consumed <= Taken
        /\ last_processed <= Taken /\ last_processed \in Nat
    BY TakenType, StreamAssumption DEF BufInv, ControlInv, TypeOK
  <2>4. shm[i] > Taken BY <2>1, <2>2, <2>3
  <2>5. shm[i] \notin notified BY <2>1, <2>3, <2>4 DEF WrittenInv
  <2> QED BY <2>1, <2>3, <2>4, <2>5
<1> QED BY <1>3, <1>4, Zenon DEF PayloadNotReleased

(* The id of a hole against those of the dropped events. *)
LEMMA HoleCovers == StreamInv => HoleCoversDrops
<1> SUFFICES ASSUME StreamInv PROVE HoleCoversDrops OBVIOUS
<1> USE DEF StreamInv
<1>1. Consumed \in Nat /\ dropped \subseteq 1 .. Taken BY TakenType DEF AccountInv
<1>2. ASSUME bpc = "holed" PROVE \A id \in dropped : id <= written[Len(written)].id
  <2>1. Taken = Consumed /\ last_ev_id = Consumed + 1
    BY <1>2, TakenType DEF ControlInv, PlaceInv, HoldsEvent
  <2>2. written[Len(written)].id = Consumed
    BY <1>1, <1>2, <2>1 DEF WrittenInv, HoleIsPushed
  <2> QED BY <1>1, <2>1, <2>2
<1>3. ASSUME bpc = "endholed" PROVE \A id \in dropped : id <= written[Len(written)].id + 1
  <2>1. Taken = Consumed /\ last_ev_id = Consumed
    <3>1. last_event_id = Consumed BY <1>3 DEF ControlInv, PlaceInv, HoldsEvent
    <3>2. last_ev_id = last_event_id BY <1>3 DEF ControlInv, DropInv
    <3> QED BY <1>3, <3>1, <3>2, TakenType
  <2>2. written[Len(written)].id = Consumed - 1
    BY <1>1, <1>3, <2>1 DEF WrittenInv, HoleIsPushed
  <2>3. written[Len(written)].id + 1 = Consumed BY <1>1, <2>2
  <2>4. \A id \in dropped : id <= Consumed BY <1>1, <2>1
  <2> QED BY Zenon, <2>3, <2>4
<1> QED BY <1>2, <1>3, Zenon DEF HoleCoversDrops

(* The buffer manager always knows where it is in the stream, finds room   *)
(* where it asserts that there is, and has its drop ids right.             *)
THEOREM StreamConsistent == Spec => []StateConsistent
BY StreamInvariant, StateConsistentHolds, PTL

(* Every event that was taken from the stream was forwarded, filtered or   *)
(* dropped, exactly one of them, and the holes count the dropped ones.     *)
THEOREM StreamNothingVanishes == Spec => []NothingVanishes
<1>1. StreamInv => NothingVanishes
  BY HandledIsTaken, Zenon DEF StreamInv, AccountInv, NothingVanishes, HoleIsPushed
<1> QED BY <1>1, StreamInvariant, PTL

(* What is written to the arbiter buffer is sorted by id. *)
THEOREM StreamSorted == Spec => []SortedById
<1>1. StreamInv => SortedById BY Zenon DEF StreamInv, WrittenInv
<1> QED BY <1>1, StreamInvariant, PTL

(* The source is never told that it may reuse the memory of an event that  *)
(* the arbiter or the buffer manager can still use.                        *)
THEOREM StreamPayloadNotReleased == Spec => []PayloadNotReleased
BY StreamInvariant, PayloadKept, PTL

(* An arbiter that exits after the buffer manager has started leaves       *)
(* nothing behind.                                                         *)
THEOREM StreamExitsDrained == Spec => []ExitsDrained
<1>1. StreamInv => ExitsDrained
  BY Zenon DEF StreamInv, ControlInv, ExitInv, PlaceInv, AtEnd, DropInv, ExitsDrained, Drained
<1> QED BY <1>1, StreamInvariant, PTL

(* No dropped event has an id above that of its hole, but for the last one *)
(* of a stream that ended.                                                 *)
THEOREM StreamHoleCovers == Spec => []HoleCoversDrops
BY StreamInvariant, HoleCovers, PTL

-----------------------------------------------------------------------------
(* The main loop. *)

(* Each of its steps is one of the stream, or leaves the stream alone. *)
LEMMA LoopStep == [ShamonNext]_shamonVars => [Next]_vars
<1> SUFFICES ASSUME [ShamonNext]_shamonVars PROVE [Next]_vars OBVIOUS
<1>1. CASE SourcePush \/ SourceDestroy \/ BmmNext BY <1>1, Zenon DEF Next
<1>2. CASE IsReady \/ PeekFirst \/ Deliver \/ Join \/ Interrupt \/ Stopped \/ UNCHANGED shamonVars
  BY <1>2 DEF IsReady, PeekFirst, Deliver, Join, Interrupt, Stopped, MainStep, shamonVars
<1>3. CASE TakeHalf
  <2>1. BufCapacity \div 2 \in 1 .. BufCapacity BY StreamAssumption
  <2> QED BY <1>3, <2>1 DEF TakeHalf, ArbiterNext, Next
<1>4. CASE TakeOne
  <2>1. 1 \in 1 .. BufCapacity BY StreamAssumption
  <2> QED BY <1>4, <2>1 DEF TakeOne, ArbiterNext, Next
<1>5. CASE TakeNotify BY <1>5 DEF TakeNotify, ArbiterNext, Next
<1> QED BY <1>1, <1>2, <1>3, <1>4, <1>5 DEF ShamonNext, MainNext

(* A monitor that takes its events with shamon_get_next_ev implements the  *)
(* stream: what holds for every arbiter holds for it.                      *)
THEOREM LoopImplementsStream == ShamonSpec => Spec
<1>1. ShamonInit => Init BY DEF ShamonInit
<1>2. [ShamonNext]_shamonVars => [Next]_vars BY LoopStep
<1> QED BY <1>1, <1>2, PTL DEF ShamonSpec, Spec

(* Once the source is gone and the shared memory is empty it stays so, and *)
(* what comes to the arbiter buffer is a hole.                             *)
LEMMA QuietEnd ==
    ASSUME StreamInv, destroyed, shm = << >>, SourcePush \/ SourceDestroy \/ BmmNext
    PROVE  /\ destroyed' /\ shm' = << >>
           /\ (\A i \in DOMAIN buf : buf[i].kind = "hole")
                 => \A i \in DOMAIN buf' : buf'[i].kind = "hole"
<1>1. ~HoldsEvent BY DEF StreamInv, ControlInv, PlaceInv
<1>2. ~SourcePush /\ ~SourceDestroy BY DEF SourcePush, SourceDestroy
<1>3. CASE PushHole
  <2>1. PICK x \in Elements : buf' = Append(buf, x) /\ x = Hole(last_ev_id - 1, hole_n)
    BY <1>3, ControlPush DEF StreamInv
  <2>2. buf \in Seq(Elements) BY DEF StreamInv, ControlInv, TypeOK
  <2>3. x.kind = "hole" BY <2>1, Zenon DEF Hole
  <2>4. \A i \in DOMAIN buf' : (i \in DOMAIN buf /\ buf'[i] = buf[i]) \/ buf'[i] = x
    BY <2>1, <2>2
  <2>5. destroyed' /\ shm' = << >> BY <1>3, Zenon DEF PushHole, sourceVars
  <2> QED BY <2>3, <2>4, <2>5
<1>4. CASE BmmNext /\ ~PushHole
  <2>1. \/ Start \/ GetEvent \/ CheckDestroyed \/ CheckSize \/ HolePushed \/ StreamEnd
    BY <1>1, <1>4, StepWithoutEvent, Zenon
  <2>2. UNCHANGED <<destroyed, shm, buf>>
    BY <2>1, Zenon DEF Start, GetEvent, CheckDestroyed, CheckSize, HolePushed, StreamEnd, sourceVars
  <2>3. destroyed' /\ shm' = << >> /\ buf' = buf BY <2>2, Zenon
  <2> QED BY <2>3, Zenon
<1> QED BY <1>2, <1>3, <1>4

(* The loop is left as LeaveInv says. *)
LEMMA LeaveStep ==
    ASSUME StreamInv, LeaveInv, [ShamonNext]_shamonVars
    PROVE  LeaveInv'
<1>1. CASE (SourcePush \/ SourceDestroy \/ BmmNext) /\ UNCHANGED mainVars
  <2>1. mpc' = mpc /\ run' = run BY <1>1 DEF mainVars
  <2>2. destroyed => destroyed'
    BY <1>1, Zenon DEF SourcePush, SourceDestroy, BmmNext, Start, GetEvent, CheckDestroyed, CheckSize,
       Filter, HandleDropping, StartDropping, ContinueDropping, PushHole, HolePushed,
       WriteEvent, ConsumeEvent, StreamEnd, sourceVars
  <2>3. CASE mpc = "bufsize" \/ LeftLoop
    BY <1>1, <2>1, <2>3, QuietEnd DEF LeaveInv, LeftLoop
  <2>4. CASE ~(mpc = "bufsize" \/ LeftLoop)
    BY <2>1, <2>2, <2>4 DEF LeaveInv, LeftLoop
  <2> QED BY <2>3, <2>4
<1>2. CASE IsReady
  <2>1. UNCHANGED <<destroyed, shm, buf, run>>
    BY <1>2 DEF IsReady, MainStep, vars, sourceVars
  <2>2. CASE mpc = "ready" BY <1>2, <2>1, <2>2 DEF IsReady, MainStep, LeaveInv, LeftLoop
  <2>3. CASE mpc = "shmsize" BY <1>2, <2>1, <2>3 DEF IsReady, MainStep, LeaveInv, LeftLoop
  <2>4. CASE mpc = "bufsize"
    <3>1. DOMAIN << >> = {} OBVIOUS
    <3> QED BY <1>2, <2>1, <2>4, <3>1 DEF IsReady, MainStep, LeaveInv, LeftLoop
  <2> QED BY <1>2, <2>2, <2>3, <2>4 DEF IsReady, MainStep
<1>3. CASE PeekFirst \/ TakeHalf \/ TakeOne \/ TakeNotify \/ Deliver
  BY <1>3, Zenon DEF PeekFirst, TakeHalf, TakeOne, TakeNotify, Deliver, LeaveInv, LeftLoop
<1>4. CASE Join \/ Interrupt
  <2>1. UNCHANGED <<destroyed, shm, buf>> /\ (LeftLoop' => LeftLoop)
    BY <1>4 DEF Join, MainStep, Interrupt, LeftLoop, vars, sourceVars
  <2>2. mpc' \in {mpc, "exit"} BY <1>4, Zenon DEF Join, MainStep, Interrupt
  <2> QED BY <2>1, <2>2, Zenon DEF LeaveInv
<1>5. CASE Stopped \/ UNCHANGED shamonVars
  BY <1>5 DEF Stopped, shamonVars, vars, sourceVars, mainVars, LeaveInv, LeftLoop
<1> QED BY <1>1, <1>2, <1>3, <1>4, <1>5 DEF ShamonNext, MainNext

(* The order of the ids in a step that neither moves nor hands out one. *)
LEMMA OrderKept ==
    ASSUME OrderInv, qsize' \in Nat, UNCHANGED <<buf, written, ev, delivered>>
    PROVE  OrderInv'
BY Zenon DEF OrderInv, MonitorSeesOrder

(* What comes to the buffer is not older than what is there. *)
LEMMA OrderPush ==
    ASSUME StreamInv, StreamInv', OrderInv, PushHole \/ WriteEvent, UNCHANGED mainVars
    PROVE  OrderInv'
<1> DEFINE n == Len(written)
           b == Len(buf)
<1>1. PICK x \in Elements : buf' = Append(buf, x) /\ written' = Append(written, x)
  BY ControlPush, Zenon DEF StreamInv
<1>2. /\ buf \in Seq(Elements) /\ b \in Nat /\ DOMAIN buf = 1 .. b
      /\ written \in Seq(Elements) /\ n \in Nat /\ (written # << >> => n >= 1)
      /\ \A i \in 1 .. n : written[i].id \in Nat
  <2>1. buf \in Seq(Elements) /\ written \in Seq(Elements)
    BY Zenon DEF StreamInv, ControlInv, TypeOK
  <2>2. \A i \in 1 .. n : written[i].id \in Nat BY WrittenTypes, Zenon DEF StreamInv
  <2> QED BY <2>1, <2>2
<1>3. /\ DOMAIN buf' = 1 .. (b + 1) /\ buf'[b + 1] = x /\ \A i \in 1 .. b : buf'[i] = buf[i]
      /\ DOMAIN written' = 1 .. (n + 1) /\ Len(written') = n + 1 /\ written' # << >>
      /\ written'[n + 1] = x /\ \A i \in 1 .. n : written'[i] = written[i]
  BY <1>1, <1>2, AppendFacts
<1>4. ev.id \in Nat /\ x.id \in Nat BY StreamAssumption DEF OrderInv, Deliverable, Elements
<1>5. ev.id <= x.id
  <2>1. CASE written = << >> BY <1>4, <2>1 DEF OrderInv
  <2>2. CASE written # << >>
    <3>1. n \in 1 .. n /\ n \in 1 .. (n + 1) /\ n + 1 \in 1 .. (n + 1) /\ n < n + 1
      BY <1>2, <2>2
    <3>2. written'[n].id <= written'[n + 1].id
      BY <1>3, <3>1 DEF StreamInv, WrittenInv, SortedById
    <3>3. written[n].id <= x.id /\ written[n].id \in Nat BY <1>2, <1>3, <3>1, <3>2
    <3> QED BY <1>4, <2>2, <3>3 DEF OrderInv
  <2> QED BY <2>1, <2>2, Zenon
<1>6. \A i \in 1 .. b : ev.id <= buf[i].id BY <1>2, Zenon DEF OrderInv
<1> HIDE DEF n, b
<1>7. \A i \in DOMAIN buf' : ev.id <= buf'[i].id
  <2>1. \A i \in 1 .. (b + 1) : i \in 1 .. b \/ i = b + 1 BY <1>2
  <2> QED BY <1>3, <1>5, <1>6, <2>1
<1>8. UNCHANGED <<qsize, ev, delivered>> BY DEF mainVars
<1> QED BY <1>3, <1>5, <1>7, <1>8 DEF OrderInv, MonitorSeesOrder

(* The ids handed out are natural numbers. *)
LEMMA DeliveredTypes ==
    ASSUME OrderInv
    PROVE  \A i \in DOMAIN delivered : delivered[i].id \in Nat
<1>1. \A x \in Deliverable : x.id \in Nat BY StreamAssumption DEF Deliverable
<1>2. \A i \in DOMAIN delivered : delivered[i] \in Deliverable BY DEF OrderInv
<1> QED BY <1>1, <1>2, Zenon

(* The event taken from the buffer is not older than those before it, and  *)
(* not newer than those left.                                              *)
LEMMA OrderTake ==
    ASSUME StreamInv, OrderInv, TakeHalf \/ TakeOne
    PROVE  OrderInv'
<1> DEFINE n == Len(written)
           b == Len(buf)
<1>1. PICK k \in 1 .. BufCapacity : Drop(k)
  <2>1. BufCapacity \div 2 \in 1 .. BufCapacity /\ 1 \in 1 .. BufCapacity BY StreamAssumption
  <2> QED BY <2>1 DEF TakeHalf, TakeOne
<1>c. ControlInv BY DEF StreamInv
<1>2. PICK m \in 1 .. b : Len(buf') = b - m /\ \A i \in 1 .. Len(buf') : buf'[i] = buf[m + i]
  BY <1>1, <1>c, ControlArbiterDrop, Zenon
<1>3. buf' \in Seq(Elements) BY <1>1, <1>c, ControlArbiterDrop, Zenon
<1>4. /\ buf \in Seq(Elements) /\ b \in Nat /\ b >= 1 /\ DOMAIN buf = 1 .. b
      /\ n \in Nat /\ DOMAIN written = 1 .. n /\ \A i \in 1 .. n : written[i].id \in Nat
  <2>1. /\ buf \in Seq(Elements) /\ b \in Nat /\ DOMAIN buf = 1 .. b
        /\ n \in Nat /\ DOMAIN written = 1 .. n /\ \A i \in 1 .. n : written[i].id \in Nat
    BY <1>c, BufTypes, WrittenTypes, Zenon
  <2>2. b >= 1 BY <1>2, <2>1
  <2> QED BY <2>1, <2>2, Zenon
<1>5. buf[1] \in Elements /\ 1 \in 1 .. b BY <1>4
<1>6. /\ ev' \in Deliverable /\ ev'.id = buf[1].id
      /\ UNCHANGED <<qsize, delivered, written>>
  <2>1. buf[1] \in Deliverable /\ buf[1].id \in 0 .. MaxEvents
    BY <1>5, Zenon DEF Elements, Deliverable
  <2>2. CASE TakeOne BY <2>1, <2>2, Zenon DEF TakeOne, Drop, bmmVars
  <2>3. CASE TakeHalf
    <3>1. ev \in Deliverable BY DEF OrderInv
    <3>2. ev' = [ev EXCEPT !.id = buf[1].id] BY <2>3 DEF TakeHalf
    <3>3. ev' \in Deliverable /\ ev'.id = buf[1].id BY <2>1, <3>1, <3>2 DEF Deliverable
    <3> QED BY <2>3, <3>3, Zenon DEF TakeHalf, Drop, bmmVars
  <2> QED BY <2>2, <2>3, Zenon
<1>7. b <= n /\ \A i \in 1 .. b : buf[i] = written[n - b + i]
  BY <1>4, Zenon DEF StreamInv, BufInv
<1>8. \A i, j \in 1 .. n : i < j => written[i].id <= written[j].id
  <2>1. SortedById BY DEF StreamInv, WrittenInv
  <2> QED BY <1>4, <2>1, Zenon DEF SortedById
<1>9. ev.id <= buf[1].id BY <1>4, <1>5 DEF OrderInv
<1>10. written # << >> BY <1>4, <1>7
<1> HIDE DEF n, b
<1>11. n - b + 1 \in 1 .. n /\ n \in 1 .. n BY <1>4, <1>7
<1>12. buf[1] = written[n - b + 1] BY <1>5, <1>7, Zenon
<1>13. buf[1].id <= written[n].id
  <2>1. CASE n - b + 1 = n BY <1>11, <1>12, <2>1, <1>4
  <2>2. CASE n - b + 1 < n BY <1>8, <1>11, <1>12, <2>2
  <2> QED BY <1>4, <1>7, <2>1, <2>2
<1>14. ASSUME NEW i \in DOMAIN buf' PROVE buf[1].id <= buf'[i].id
  <2>1. i \in 1 .. (b - m) BY <1>2, <1>3
  <2>2. m + i \in 1 .. b /\ n - b + (m + i) \in 1 .. n /\ n - b + 1 < n - b + (m + i)
    BY <1>4, <1>7, <2>1, Behind, Zenon
  <2>3. buf'[i] = buf[m + i] BY <1>2, <2>1
  <2>4. buf[m + i] = written[n - b + (m + i)] BY <1>7, <2>2, Zenon
  <2> QED BY <1>8, <1>11, <1>12, <2>2, <2>3, <2>4
<1>15. \A i \in DOMAIN delivered : delivered[i].id <= buf[1].id
  <2>1. ev.id \in Nat /\ buf[1].id \in Nat
    BY <1>5, StreamAssumption DEF OrderInv, Deliverable, Elements
  <2>2. \A i \in DOMAIN delivered : delivered[i].id \in Nat /\ delivered[i].id <= ev.id
    BY DeliveredTypes DEF OrderInv
  <2> QED BY <1>9, <2>1, <2>2
<1> QED BY <1>6, <1>10, <1>13, <1>14, <1>15 DEF OrderInv, MonitorSeesOrder, n

(* The event at hand is handed to the monitor. *)
LEMMA OrderDeliver ==
    ASSUME OrderInv, Deliver
    PROVE  OrderInv'
<1> DEFINE d == Len(delivered)
<1>1. /\ delivered \in Seq(Deliverable) /\ ev \in Deliverable
      /\ d \in Nat /\ DOMAIN delivered = 1 .. d
  BY DEF OrderInv
<1>2. /\ delivered' = Append(delivered, ev) /\ UNCHANGED <<qsize, ev, buf, written>>
  BY Zenon DEF Deliver, vars, bmmVars
<1>3. /\ delivered' \in Seq(Deliverable) /\ DOMAIN delivered' = 1 .. (d + 1)
      /\ delivered'[d + 1] = ev /\ \A i \in 1 .. d : delivered'[i] = delivered[i]
  BY <1>1, <1>2, AppendFacts
<1>4. \A i \in 1 .. d : delivered[i].id <= ev.id BY <1>1, Zenon DEF OrderInv
<1>5. ev.id <= ev.id BY <1>1, StreamAssumption DEF Deliverable
<1>6. \A i, j \in 1 .. d : i < j => delivered[i].id <= delivered[j].id
  BY <1>1 DEF OrderInv, MonitorSeesOrder
<1> HIDE DEF d
<1>7. \A i \in 1 .. (d + 1) : i \in 1 .. d \/ i = d + 1 BY <1>1
<1>8. \A i \in DOMAIN delivered' : delivered'[i].id <= ev.id BY <1>3, <1>4, <1>5, <1>7
<1>9. ASSUME NEW i \in 1 .. (d + 1), NEW j \in 1 .. (d + 1), i < j
      PROVE  delivered'[i].id <= delivered'[j].id
  <2>1. i \in 1 .. d BY <1>1, <1>9
  <2>2. CASE j = d + 1 BY <1>3, <1>4, <2>1, <2>2
  <2>3. CASE j \in 1 .. d BY <1>3, <1>6, <1>9, <2>1, <2>3
  <2> QED BY <1>7, <2>2, <2>3
<1> QED BY <1>2, <1>3, <1>8, <1>9, Zenon DEF OrderInv, MonitorSeesOrder

(* The order is kept by every step. *)
LEMMA OrderStep ==
    ASSUME StreamInv, StreamInv', OrderInv, [ShamonNext]_shamonVars
    PROVE  OrderInv'
<1>0. qsize \in Nat BY DEF OrderInv
<1>1. CASE (SourcePush \/ SourceDestroy \/ BmmNext) /\ UNCHANGED mainVars
  <2>1. CASE PushHole \/ WriteEvent BY <1>1, <2>1, OrderPush
  <2>2. CASE ~(PushHole \/ WriteEvent)
    <3>1. UNCHANGED <<buf, written>>
      BY <1>1, <2>2, ZenonT(40) DEF SourcePush, SourceDestroy, BmmNext, Start, GetEvent, CheckDestroyed,
         CheckSize, Filter, HandleDropping, StartDropping, ContinueDropping, HolePushed,
         ConsumeEvent, StreamEnd, bmmVars
    <3>2. qsize' = qsize /\ ev' = ev /\ delivered' = delivered BY <1>1 DEF mainVars
    <3> QED BY <1>0, <3>1, <3>2, OrderKept, Zenon
  <2> QED BY <2>1, <2>2, Zenon
<1>2. CASE IsReady \/ TakeNotify \/ Join \/ Interrupt \/ Stopped \/ UNCHANGED shamonVars
  <2>1. UNCHANGED <<qsize, buf, written, ev, delivered>>
    BY <1>2, Zenon DEF IsReady, MainStep, TakeNotify, NotifyProcessed, Join, Interrupt, Stopped,
       shamonVars, mainVars, vars, bmmVars
  <2> QED BY <1>0, <2>1, OrderKept, Zenon
<1>3. CASE PeekFirst
  <2>1. Len(buf) \in Nat BY BufTypes, Zenon DEF StreamInv
  <2>2. qsize' \in Nat /\ UNCHANGED <<buf, written, ev, delivered>>
    BY <1>0, <1>3, <2>1 DEF PeekFirst, vars, bmmVars
  <2> QED BY <2>2, OrderKept, Zenon
<1>4. CASE TakeHalf \/ TakeOne BY <1>4, OrderTake, Zenon
<1>5. CASE Deliver BY <1>5, OrderDeliver, Zenon
<1> QED BY <1>1, <1>2, <1>3, <1>4, <1>5 DEF ShamonNext, MainNext

(* The loop starts in order. *)
LEMMA LoopInit == ShamonInit => LoopInv
<1> SUFFICES ASSUME ShamonInit PROVE LoopInv OBVIOUS
<1>1. /\ mpc = "ready" /\ qsize = 0 /\ ev = Uninitialised
      /\ delivered = << >> /\ DOMAIN delivered = {} /\ written = << >>
      /\ buf = << >> /\ DOMAIN buf = {}
  BY DEF ShamonInit, Init
<1>2. LeaveInv BY <1>1, Zenon DEF LeaveInv, LeftLoop
<1>3. ev \in Deliverable /\ ev.id = 0
  BY <1>1, StreamAssumption DEF Deliverable, Uninitialised
<1>4. delivered \in Seq(Deliverable) BY <1>1
<1>5. OrderInv BY <1>1, <1>3, <1>4 DEF OrderInv, MonitorSeesOrder
<1> QED BY <1>2, <1>5 DEF LoopInv

(* LoopInv holds in every state of the monitor's main loop, next to the    *)
(* invariant of the stream.                                                *)
THEOREM LoopInvariant == ShamonSpec => [](StreamInv /\ LoopInv)
<1>1. ShamonInit => StreamInv /\ LoopInv BY LoopInit, StreamInit, Zenon DEF ShamonInit
<1>2. StreamInv /\ LoopInv /\ [ShamonNext]_shamonVars => (StreamInv /\ LoopInv)'
  <2> SUFFICES ASSUME StreamInv, LoopInv, [ShamonNext]_shamonVars
               PROVE  StreamInv' /\ LoopInv'
    OBVIOUS
  <2>1. StreamInv' BY LoopStep, StreamStep
  <2> QED BY <2>1, LeaveStep, OrderStep DEF LoopInv
<1> QED BY <1>1, <1>2, PTL DEF ShamonSpec

(* A main loop that ends by itself leaves no event behind, only the hole   *)
(* for events dropped last can be on its way: is_ready asks the shared     *)
(* memory before the arbiter buffer.                                       *)
THEOREM LoopLeavesNoEvent == ShamonSpec => []NoEventLeftBehind
<1>1. StreamInv /\ LoopInv => NoEventLeftBehind
  BY Zenon DEF StreamInv, ControlInv, TypeOK, PlaceInv, HoldsEvent, LoopInv, LeaveInv, LeftLoop,
     NoEventLeftBehind
<1> QED BY <1>1, LoopInvariant, PTL

(* The ids that the monitor gets never go back, though holes and halves of *)
(* the buffer are among what it gets.                                      *)
THEOREM LoopDeliversInOrder == ShamonSpec => []MonitorSeesOrder
<1>1. LoopInv => MonitorSeesOrder BY DEF LoopInv, OrderInv
<1> QED BY <1>1, LoopInvariant, PTL
=============================================================================
