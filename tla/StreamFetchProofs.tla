------------------------- MODULE StreamFetchProofs -------------------------
(***************************************************************************)
(* What the steps of a stream do to the control, to the elements that were *)
(* written and to the buffer: three of the four parts of StreamInv, for    *)
(* every number of events, all sizes of the buffers and both fetch         *)
(* functions.                                                              *)
(***************************************************************************)
EXTENDS StreamFetch, Integers, TLAPS

(* One more element behind a sequence. *)
LEMMA AppendFacts ==
    ASSUME NEW S, NEW s \in Seq(S), NEW x \in S
    PROVE  /\ Append(s, x) \in Seq(S) /\ Append(s, x) # << >>
           /\ Len(Append(s, x)) = Len(s) + 1
           /\ \A i \in 1 .. Len(s) : Append(s, x)[i] = s[i]
           /\ Append(s, x)[Len(s) + 1] = x
OBVIOUS

(* What is left of a sequence without its first element. *)
LEMMA TailFacts ==
    ASSUME NEW S, NEW s \in Seq(S), s # << >>
    PROVE  /\ Head(s) \in S /\ Tail(s) \in Seq(S) /\ Len(Tail(s)) = Len(s) - 1
           /\ \A i \in 1 .. Len(Tail(s)) : Tail(s)[i] = s[i + 1]
OBVIOUS

(* What is left of a sequence without its first m elements. *)
LEMMA DropFacts ==
    ASSUME NEW S, NEW s \in Seq(S), NEW m \in 1 .. Len(s),
           NEW t, t = SubSeq(s, m + 1, Len(s))
    PROVE  /\ t \in Seq(S) /\ Len(t) = Len(s) - m
           /\ \A i \in 1 .. Len(t) : t[i] = s[m + i]
OBVIOUS

(* Places behind the m-th of the last b elements of a sequence of n. *)
LEMMA Behind ==
    ASSUME NEW n \in Nat, NEW b \in Nat, b <= n, NEW m \in 1 .. b, NEW i \in 1 .. (b - m)
    PROVE  /\ m + i \in 1 .. b /\ n - (b - m) + i = n - b + (m + i)
           /\ n - b + (m + i) \in 1 .. n /\ n - b + m < n - b + (m + i)
           /\ n - b + 1 < n - b + (m + i)
OBVIOUS

(* The invariant of the control holds initially. *)
LEMMA ControlInit == Init => ControlInv
<1> SUFFICES ASSUME Init PROVE ControlInv OBVIOUS
<1> USE StreamAssumption DEF Init
<1>1. /\ Len(shm) = 0 /\ shm \in Seq(Ids) /\ DOMAIN shm = {}
      /\ Len(buf) = 0 /\ buf \in Seq(Elements) /\ written \in Seq(Elements)
  OBVIOUS
<1>2. TypeOK
  <2>1. destroyed \in BOOLEAN /\ counted \in BOOLEAN BY Zenon
  <2>2. /\ sent \in 0 .. MaxEvents /\ last_event_id \in 0 .. MaxEvents
        /\ dropped_num \in 0 .. MaxEvents /\ drop_begin_id \in 0 .. MaxEvents
        /\ hole_n \in 0 .. MaxEvents /\ last_id \in 0 .. MaxEvents
        /\ last_processed \in 0 .. MaxEvents /\ last_ev_id \in Ids \cup {1}
        /\ Len(shm) <= ShmSize /\ Len(buf) <= BufCapacity /\ count_streams \in {0, 1}
    BY <1>1
  <2>3. filtered \subseteq Ids /\ dropped \subseteq Ids /\ notified \subseteq Ids
    OBVIOUS
  <2> QED BY <1>1, <2>1, <2>2, <2>3 DEF TypeOK
<1>3. ShmInv BY <1>1 DEF ShmInv
<1>4. PlaceInv
  <2>1. ~HoldsEvent /\ ~AtEnd /\ bpc = "start" BY DEF HoldsEvent, AtEnd
  <2>2. Consumed = 0
    <3>1. sent = 0 /\ Len(shm) = 0 BY <1>1
    <3> HIDE DEF Init
    <3> QED BY <3>1 DEF Consumed
  <2>3. count_streams = IF bpc \in {"start", "done"} THEN 0 ELSE 1 BY <2>1
  <2> QED BY Zenon, <2>1, <2>2, <2>3 DEF PlaceInv
<1>5. DropInv /\ RoomInv /\ ExitInv
  BY DEF DropInv, RoomInv, ExitInv, IsFetched
<1> QED BY <1>2, <1>3, <1>4, <1>5 DEF ControlInv

(* The events in the shared memory when one is added to them. *)
LEMMA ShmAppend ==
    ASSUME TypeOK, ShmInv, SourcePush
    PROVE  /\ shm' \in Seq(Ids) /\ Len(shm') = Len(shm) + 1 /\ shm' # << >>
           /\ ShmInv' /\ Consumed' = Consumed
<1>1. sent \in Nat /\ sent + 1 \in Ids /\ shm \in Seq(Ids) /\ Len(shm) \in Nat
  BY StreamAssumption DEF SourcePush, TypeOK, Ids
<1>2. sent' = sent + 1 /\ shm' = Append(shm, sent + 1) BY DEF SourcePush
<1>3. /\ shm' \in Seq(Ids) /\ Len(shm') = Len(shm) + 1 /\ shm' # << >>
      /\ \A i \in 1 .. Len(shm) : shm'[i] = shm[i]
      /\ shm'[Len(shm) + 1] = sent + 1
      /\ DOMAIN shm' = 1 .. (Len(shm) + 1) /\ DOMAIN shm = 1 .. Len(shm)
  BY <1>1, <1>2, AppendFacts
<1>4. Consumed' = Consumed BY <1>1, <1>2, <1>3 DEF Consumed
<1>5. Len(shm') <= sent' BY <1>1, <1>2, <1>3 DEF ShmInv
<1>6. ASSUME NEW i \in DOMAIN shm' PROVE shm'[i] = Consumed + i
  <2>1. CASE i \in 1 .. Len(shm) BY <1>3, <2>1 DEF ShmInv
  <2>2. CASE i = Len(shm) + 1 BY <1>1, <1>3, <2>2 DEF Consumed
  <2> QED BY <1>1, <1>3, <2>1, <2>2
<1> QED BY <1>3, <1>4, <1>5, <1>6 DEF ShmInv

(* What the source does leaves the control as it is: an event goes behind *)
(* those that were sent before it.                                        *)
LEMMA ControlSource ==
    ASSUME ControlInv, SourcePush \/ SourceDestroy
    PROVE  ControlInv' /\ Taken' = Taken
<1> USE StreamAssumption DEF ControlInv
<1>1. CASE SourcePush
  <2>1. TypeOK'
    BY <1>1 DEF SourcePush, TypeOK, bmmVars, arbiterVars, Ids
  <2>2. ShmInv' /\ Consumed' = Consumed /\ shm' # << >> BY <1>1, ShmAppend
  <2>3. ~AtEnd /\ bpc # "size" /\ bpc' = bpc BY <1>1 DEF SourcePush, PlaceInv, bmmVars
  <2>4. PlaceInv'
    BY <1>1, <2>2, <2>3 DEF SourcePush, bmmVars, PlaceInv, HoldsEvent, AtEnd
  <2>5. Taken' = Taken
    BY <1>1, <2>2 DEF SourcePush, bmmVars, Taken
  <2>6. DropInv' /\ RoomInv' /\ ExitInv'
    BY <1>1, <2>5 DEF SourcePush, bmmVars, arbiterVars, DropInv, RoomInv, ExitInv,
       IsFetched, FreeSpace, FilterInFetch
  <2> QED BY <2>1, <2>2, <2>4, <2>5, <2>6
<1>2. CASE SourceDestroy
  BY <1>2 DEF SourceDestroy, TypeOK, ShmInv, PlaceInv, DropInv, RoomInv, ExitInv,
     Consumed, Taken, HoldsEvent, AtEnd, IsFetched, FreeSpace, FilterInFetch, bmmVars, arbiterVars
<1> QED BY <1>1, <1>2

(* The steps of the buffer manager that only read and go on. *)
LEMMA ControlMoves ==
    ASSUME ControlInv, Start \/ CheckDestroyed \/ CheckSize \/ HandleDropping \/ StreamEnd
    PROVE  ControlInv' /\ Taken' = Taken
<1> USE StreamAssumption DEF ControlInv, TypeOK, ShmInv, PlaceInv, DropInv, RoomInv, ExitInv,
     Consumed, Taken, HoldsEvent, AtEnd, IsFetched, FreeSpace, FilterInFetch, sourceVars,
     arbiterVars, Goto
<1>1. CASE Start BY <1>1 DEF Start
<1>2. CASE CheckDestroyed BY <1>2 DEF CheckDestroyed
<1>3. CASE CheckSize BY <1>3 DEF CheckSize
<1>4. CASE HandleDropping BY <1>4 DEF HandleDropping, Fetched
<1>5. CASE StreamEnd BY <1>5 DEF StreamEnd
<1> QED BY <1>1, <1>2, <1>3, <1>4, <1>5, ZenonT(40)

(* The first event of the shared memory, and the rest when it is consumed. *)
LEMMA ShmHead ==
    ASSUME TypeOK, ShmInv, shm # << >>
    PROVE  /\ Head(shm) = Consumed + 1 /\ Consumed \in Nat /\ Consumed < sent
           /\ Head(shm) \in Ids
           /\ Tail(shm) \in Seq(Ids) /\ Len(Tail(shm)) = Len(shm) - 1
           /\ \A i \in DOMAIN Tail(shm) : Tail(shm)[i] = Consumed + 1 + i
<1>1. sent \in Nat /\ shm \in Seq(Ids) /\ Len(shm) \in Nat /\ Len(shm) >= 1
  BY StreamAssumption DEF TypeOK
<1>2. Consumed \in Nat /\ Consumed < sent BY <1>1 DEF Consumed, ShmInv
<1>3. /\ Head(shm) \in Ids /\ Head(shm) = shm[1]
      /\ Tail(shm) \in Seq(Ids) /\ Len(Tail(shm)) = Len(shm) - 1
      /\ DOMAIN Tail(shm) = 1 .. (Len(shm) - 1) /\ DOMAIN shm = 1 .. Len(shm)
      /\ \A i \in 1 .. (Len(shm) - 1) : Tail(shm)[i] = shm[i + 1]
  BY <1>1, TailFacts
<1>4. Head(shm) = Consumed + 1 BY <1>1, <1>3 DEF ShmInv
<1>5. ASSUME NEW i \in DOMAIN Tail(shm) PROVE Tail(shm)[i] = Consumed + 1 + i
  <2>1. i \in 1 .. (Len(shm) - 1) /\ i + 1 \in DOMAIN shm BY <1>1, <1>3, <1>5
  <2>2. shm[i + 1] = Consumed + (i + 1) BY <2>1, Zenon DEF ShmInv
  <2> QED BY <1>2, <1>3, <2>1, <2>2
<1> QED BY <1>2, <1>3, <1>4, <1>5

(* shm_stream_fetch sees the event after the last one it consumed. *)
LEMMA ControlGetEvent ==
    ASSUME ControlInv, GetEvent
    PROVE  ControlInv' /\ Taken' = Taken
<1> USE StreamAssumption DEF ControlInv, GetEvent, sourceVars, arbiterVars, Goto
<1>1. Consumed' = Consumed /\ Taken' = Taken BY DEF Consumed, Taken, FilterInFetch
<1>2. shm # << >> => Head(shm) = Consumed + 1 /\ Consumed + 1 \in Ids /\ Consumed \in Nat
  BY ShmHead
<1>3. TypeOK'
  BY <1>2 DEF TypeOK, PlaceInv, HoldsEvent, FilterInFetch, Ids
<1>4. ShmInv' /\ PlaceInv'
  BY <1>1, <1>2 DEF ShmInv, PlaceInv, HoldsEvent, AtEnd, FilterInFetch
<1>5. DropInv' /\ RoomInv' /\ ExitInv'
  BY <1>1, <1>2 DEF DropInv, RoomInv, ExitInv, IsFetched, FreeSpace, FilterInFetch, PlaceInv,
     HoldsEvent
<1> QED BY <1>1, <1>3, <1>4, <1>5

(* An event that is filtered is taken, one that is kept is not yet. *)
LEMMA ControlFilter ==
    ASSUME ControlInv, NEW keep \in BOOLEAN, Filter(keep)
    PROVE  /\ ControlInv' /\ Consumed' = Consumed
           /\ Taken' = IF keep THEN Taken ELSE Taken + 1
<1> USE StreamAssumption DEF ControlInv, Filter, sourceVars, arbiterVars, Goto
<1>1. Consumed' = Consumed BY DEF Consumed
<1>2. Head(shm) = Consumed + 1 /\ Consumed + 1 \in Ids /\ Consumed \in Nat
  BY ShmHead DEF PlaceInv, HoldsEvent
<1>3. Taken' = IF keep THEN Taken ELSE Taken + 1 BY <1>1, <1>2 DEF Taken, FilterInFetch
<1>4. TypeOK'
  BY <1>2 DEF TypeOK, FilterInFetch
<1>5. ShmInv' /\ PlaceInv'
  BY <1>1, <1>2 DEF ShmInv, PlaceInv, HoldsEvent, AtEnd, FilterInFetch
<1>6. DropInv' /\ RoomInv' /\ ExitInv'
  BY <1>2, <1>3 DEF DropInv, RoomInv, ExitInv, IsFetched, FreeSpace, FilterInFetch, TypeOK,
     Taken, PlaceInv
<1> QED BY <1>1, <1>3, <1>4, <1>5, <1>6

(* An event that is dropped is taken and counted. *)
LEMMA ControlDrop ==
    ASSUME ControlInv, StartDropping \/ ContinueDropping
    PROVE  ControlInv' /\ Consumed' = Consumed /\ Taken' = Taken + 1
<1> USE StreamAssumption DEF ControlInv
<1>1. /\ bpc \in {"begin", "continue"} /\ bpc' = "skip"
      /\ dropped_num' = dropped_num + 1 /\ dropped' = dropped \cup {Head(shm)}
      /\ UNCHANGED <<sent, destroyed, fetch, shm, last_ev_id, last_event_id, count_streams,
                     written, filtered, buf, cpc, last_id, last_processed, counted>>
  BY DEF StartDropping, ContinueDropping, sourceVars, arbiterVars, Goto
<1>2. Head(shm) = Consumed + 1 /\ Consumed + 1 \in Ids /\ Consumed \in Nat
  BY <1>1, ShmHead DEF PlaceInv, HoldsEvent
<1>3. Consumed' = Consumed BY <1>1 DEF Consumed
<1>4. Taken = Consumed /\ Taken' = Taken + 1 BY <1>1, <1>2, <1>3 DEF Taken
<1>5. /\ hole_n' = dropped_num' /\ drop_begin_id' \in 1 .. MaxEvents
      /\ drop_begin_id' + dropped_num' <= Taken + 2
      /\ ~FilterInFetch => drop_begin_id' + dropped_num' = Taken + 2
      /\ notified' \subseteq Ids
  <2>1. CASE StartDropping
    <3>1. dropped_num = 0 BY <2>1 DEF StartDropping, DropInv
    <3> QED BY <1>2, <1>4, <2>1, <3>1 DEF StartDropping, TypeOK, Ids
  <2>2. CASE ContinueDropping
    <3>1. dropped_num > 0 /\ hole_n = dropped_num /\ drop_begin_id >= 1
      BY <2>2 DEF ContinueDropping, DropInv
    <3>2. notified' \subseteq notified \cup (drop_begin_id .. Consumed)
      BY <1>2, <2>2 DEF ContinueDropping
    <3>3. notified' \subseteq Ids BY <1>2, <3>1, <3>2 DEF TypeOK, Ids
    <3>4. /\ drop_begin_id' = drop_begin_id /\ hole_n' = hole_n + 1
          /\ drop_begin_id + dropped_num <= Taken + 1
          /\ ~FilterInFetch => drop_begin_id + dropped_num = Taken + 1
          /\ drop_begin_id \in 0 .. MaxEvents /\ dropped_num \in 0 .. MaxEvents
      BY <2>2, <3>1 DEF ContinueDropping, TypeOK, DropInv
    <3> QED BY <1>1, <1>2, <1>4, <3>1, <3>3, <3>4
  <2> QED BY <2>1, <2>2
<1>6. TypeOK'
  <2>1. dropped_num' \in 0 .. MaxEvents
    <3>1. dropped_num' \in Nat BY <1>1 DEF TypeOK
    <3> DEFINE d == dropped_num'
               b == drop_begin_id'
    <3>2. b \in Nat /\ b >= 1 /\ b + d <= Consumed + 2 /\ d \in Nat BY <1>4, <1>5, <3>1
    <3>3. Consumed \in Nat /\ Consumed + 1 <= MaxEvents BY <1>2 DEF Ids
    <3> HIDE DEF d, b
    <3>4. d \in 0 .. MaxEvents BY <3>2, <3>3
    <3> QED BY <3>4 DEF d
  <2>2. dropped' \subseteq Ids BY <1>1, <1>2 DEF TypeOK
  <2> QED BY <1>1, <1>5, <2>1, <2>2 DEF TypeOK
<1>7. ShmInv' /\ PlaceInv'
  BY <1>1, <1>2, <1>3 DEF ShmInv, PlaceInv, HoldsEvent, AtEnd
<1>8. RoomInv' /\ ExitInv'
  BY <1>1 DEF RoomInv, ExitInv, IsFetched
<1>9. DropInv'
  <2>1. last_ev_id' = last_event_id' BY <1>1, <1>7 DEF PlaceInv, HoldsEvent
  <2>2. FilterInFetch' = FilterInFetch BY <1>1 DEF FilterInFetch
  <2>3. (Taken + 1) + 1 = Taken + 2 BY <1>2, <1>4
  <2>4. drop_begin_id' >= 1 BY <1>5
  <2> QED BY <1>1, <1>4, <1>5, <2>1, <2>2, <2>3, <2>4 DEF DropInv, IsFetched
<1> QED BY <1>3, <1>4, <1>6, <1>7, <1>8, <1>9

(* Something is appended to the arbiter buffer. *)
LEMMA ControlPush ==
    ASSUME ControlInv, PushHole \/ WriteEvent
    PROVE  \E x \in Elements :
             /\ buf' = Append(buf, x) /\ written' = Append(written, x)
             /\ buf' \in Seq(Elements) /\ written' \in Seq(Elements)
             /\ Len(buf') = Len(buf) + 1 /\ Len(buf') <= BufCapacity
             /\ PushHole => x = Hole(last_ev_id - 1, hole_n) /\ FreeSpace' > 0
             /\ WriteEvent => x = Event(Consumed + 1)
<1> USE StreamAssumption DEF ControlInv
<1>1. CASE PushHole
  <2> DEFINE x == Hole(last_ev_id - 1, hole_n)
  <2>1. x \in Elements BY DEF Elements, Hole, TypeOK, Ids
  <2>2. FreeSpace > DropThreshold BY <1>1 DEF PushHole, RoomInv
  <2>3. Len(buf) \in Nat /\ buf \in Seq(Elements) /\ written \in Seq(Elements) BY DEF TypeOK
  <2>4. FreeSpace > 0 BY <2>2, <2>3 DEF FreeSpace
  <2>5. buf' = Append(buf, x) /\ written' = Append(written, x) /\ ~WriteEvent
    BY <1>1, <2>4 DEF PushHole, WriteEvent
  <2> HIDE DEF x
  <2>6. /\ buf' \in Seq(Elements) /\ written' \in Seq(Elements) /\ Len(buf') = Len(buf) + 1
    BY <2>1, <2>3, <2>5
  <2>7. Len(buf') <= BufCapacity /\ FreeSpace' > 0 BY <2>2, <2>3, <2>6 DEF FreeSpace
  <2> QED BY <2>1, <2>5, <2>6, <2>7 DEF x
<1>2. CASE WriteEvent
  <2> DEFINE x == Event(Consumed + 1)
  <2>1. Head(shm) = Consumed + 1 /\ Consumed + 1 \in Ids
    BY <1>2, ShmHead DEF WriteEvent, PlaceInv, HoldsEvent
  <2>2. x \in Elements BY <2>1 DEF Elements, Event, TypeOK, Ids
  <2>3. Len(buf) \in Nat /\ buf \in Seq(Elements) /\ written \in Seq(Elements) BY DEF TypeOK
  <2>4. buf' = Append(buf, x) /\ written' = Append(written, x) /\ FreeSpace > 0 /\ ~PushHole
    BY <1>2, <2>1 DEF PushHole, WriteEvent
  <2> HIDE DEF x
  <2>5. /\ buf' \in Seq(Elements) /\ written' \in Seq(Elements) /\ Len(buf') = Len(buf) + 1
    BY <2>2, <2>3, <2>4
  <2>6. Len(buf') <= BufCapacity BY <2>3, <2>4, <2>5 DEF FreeSpace
  <2> QED BY <2>2, <2>4, <2>5, <2>6 DEF x
<1> QED BY <1>1, <1>2

(* The hole that is pushed takes the room that was seen, and no event. *)
LEMMA ControlPushHole ==
    ASSUME ControlInv, PushHole
    PROVE  ControlInv' /\ Consumed' = Consumed /\ Taken' = Taken
<1> USE StreamAssumption DEF ControlInv, PushHole, sourceVars, arbiterVars, Goto
<1>1. Consumed' = Consumed /\ Taken' = Taken BY Zenon DEF Consumed, Taken
<1>2. buf' \in Seq(Elements) /\ written' \in Seq(Elements) /\ Len(buf') <= BufCapacity
      /\ FreeSpace' > 0
  BY ControlPush
<1>3. TypeOK' BY <1>2 DEF TypeOK
<1>4. ShmInv' /\ PlaceInv'
  BY <1>1 DEF ShmInv, PlaceInv, HoldsEvent, AtEnd
<1>5. DropInv' /\ RoomInv' /\ ExitInv'
  BY <1>1, <1>2 DEF DropInv, RoomInv, ExitInv, IsFetched, FilterInFetch
<1> QED BY <1>1, <1>3, <1>4, <1>5

(* The event that is written takes the room that was seen and is taken. *)
LEMMA ControlWriteEvent ==
    ASSUME ControlInv, WriteEvent
    PROVE  ControlInv' /\ Consumed' = Consumed /\ Taken' = Taken + 1
<1> USE StreamAssumption DEF ControlInv, WriteEvent, sourceVars, arbiterVars, Goto
<1>1. Consumed' = Consumed /\ Consumed \in Nat BY ShmHead DEF Consumed, PlaceInv, HoldsEvent
<1>2. buf' \in Seq(Elements) /\ written' \in Seq(Elements) /\ Len(buf') <= BufCapacity
  BY ControlPush, Zenon
<1>3. TypeOK' BY <1>2 DEF TypeOK
<1>4. Taken' = Taken + 1 BY <1>1 DEF Taken
<1>5. ShmInv' /\ PlaceInv'
  BY <1>1 DEF ShmInv, PlaceInv, HoldsEvent, AtEnd
<1>6. DropInv' /\ RoomInv' /\ ExitInv'
  BY <1>1 DEF DropInv, RoomInv, ExitInv, IsFetched, FilterInFetch
<1> QED BY <1>1, <1>3, <1>4, <1>5, <1>6

(* Once the hole is in the buffer the counters start anew. *)
LEMMA ControlHolePushed ==
    ASSUME ControlInv, HolePushed
    PROVE  ControlInv' /\ Consumed' = Consumed /\ Taken' = Taken
<1> USE StreamAssumption DEF ControlInv, HolePushed, sourceVars, arbiterVars, Goto
<1>1. Consumed' = Consumed /\ Taken' = Taken BY DEF Consumed, Taken, Fetched, FilterInFetch
<1>2. notified' \subseteq Ids
  BY DEF TypeOK, DropInv, Ids
<1>3. TypeOK' BY <1>2 DEF TypeOK, Fetched, FilterInFetch
<1>4. ShmInv' /\ PlaceInv'
  BY <1>1 DEF ShmInv, PlaceInv, HoldsEvent, AtEnd, Fetched, FilterInFetch
<1>5. DropInv' /\ RoomInv' /\ ExitInv'
  BY DEF DropInv, RoomInv, ExitInv, IsFetched, FilterInFetch, Fetched, FreeSpace
<1> QED BY <1>1, <1>3, <1>4, <1>5

(* The event at the head of the shared memory is consumed after it is taken. *)
LEMMA ControlConsume ==
    ASSUME ControlInv, ConsumeEvent
    PROVE  ControlInv' /\ Consumed' = Consumed + 1 /\ Taken' = Taken
<1> USE StreamAssumption DEF ControlInv, ConsumeEvent, sourceVars, arbiterVars, Goto
<1>1. /\ Consumed \in Nat /\ Consumed + 1 \in Ids /\ shm # << >>
      /\ shm' \in Seq(Ids) /\ Len(shm') = Len(shm) - 1
      /\ \A i \in DOMAIN shm' : shm'[i] = Consumed + 1 + i
  BY ShmHead DEF PlaceInv, HoldsEvent
<1>2. Consumed' = Consumed + 1
  <2>1. sent \in Nat /\ Len(shm) \in Nat /\ sent' = sent BY DEF TypeOK
  <2> QED BY <1>1, <2>1 DEF Consumed
<1>3. Taken' = Taken BY <1>2 DEF Taken
<1>4. Len(shm') <= ShmSize /\ Len(shm') <= sent' BY <1>1 DEF TypeOK, ShmInv
<1>5. TypeOK' BY <1>1, <1>4 DEF TypeOK
<1>6. ShmInv' BY <1>1, <1>2, <1>4 DEF ShmInv
<1>7. PlaceInv' BY <1>2 DEF PlaceInv, HoldsEvent, AtEnd
<1>8. DropInv' /\ RoomInv' /\ ExitInv'
  BY <1>3 DEF DropInv, RoomInv, ExitInv, IsFetched, FilterInFetch
<1> QED BY <1>2, <1>3, <1>5, <1>6, <1>7, <1>8

(* The buffer without its first m elements. *)
LEMMA BufWithout ==
    ASSUME buf \in Seq(Elements), NEW m \in 1 .. Len(buf), buf' = SubSeq(buf, m + 1, Len(buf))
    PROVE  /\ buf' \in Seq(Elements) /\ Len(buf') = Len(buf) - m
           /\ \A i \in 1 .. Len(buf') : buf'[i] = buf[m + i]
BY DropFacts

(* The arbiter drops at most what is in the buffer, from the front, and *)
(* remembers the id of the last element it dropped.                     *)
LEMMA ControlArbiterDrop ==
    ASSUME ControlInv, NEW k \in 1 .. BufCapacity, Drop(k)
    PROVE  /\ ControlInv' /\ Taken' = Taken /\ buf' \in Seq(Elements)
           /\ \E m \in 1 .. Len(buf) :
                /\ last_id' = buf[m].id /\ Len(buf') = Len(buf) - m
                /\ \A i \in 1 .. Len(buf') : buf'[i] = buf[m + i]
<1> USE StreamAssumption DEF ControlInv, sourceVars, bmmVars
<1> DEFINE m == IF k <= Len(buf) THEN k ELSE Len(buf)
<1>1. buf \in Seq(Elements) /\ Len(buf) \in Nat /\ Len(buf) >= 1 /\ Len(buf) <= BufCapacity
  BY DEF TypeOK, Drop
<1>2. m \in 1 .. Len(buf) BY <1>1
<1>3. last_id' = buf[m].id /\ buf' = SubSeq(buf, m + 1, Len(buf)) /\ cpc = "idle" /\ cpc' = "notify"
  BY DEF Drop
<1> HIDE DEF m
<1>4. /\ buf' \in Seq(Elements) /\ Len(buf') = Len(buf) - m
      /\ \A i \in 1 .. Len(buf') : buf'[i] = buf[m + i]
  BY <1>1, <1>2, <1>3, BufWithout, Zenon
<1>5. last_id' \in 0 .. MaxEvents
  <2>1. buf[m] \in Elements BY <1>1, <1>2
  <2> QED BY <1>3, <2>1 DEF Elements
<1>6. TypeOK'
  <2>1. Len(buf') <= BufCapacity BY <1>1, <1>2, <1>4
  <2> QED BY <1>3, <1>4, <1>5, <2>1, ZenonT(20) DEF TypeOK, Drop
<1>7. Taken' = Taken /\ Consumed' = Consumed BY DEF Drop, Taken, Consumed
<1>8. ShmInv' /\ PlaceInv' BY <1>7 DEF Drop, ShmInv, PlaceInv, HoldsEvent, AtEnd
<1>9. DropInv' /\ ExitInv' BY <1>3, <1>7 DEF Drop, DropInv, ExitInv, IsFetched, FilterInFetch
<1>10. RoomInv'
  <2> DEFINE a == Len(buf)
             b == Len(buf')
  <2>0. a \in Nat /\ b = a - m /\ m \in 1 .. a BY <1>1, <1>2, <1>4
  <2> HIDE DEF a, b
  <2>1. BufCapacity - b > BufCapacity - a /\ BufCapacity - b \in Int /\ BufCapacity - a \in Int
    BY <2>0
  <2>2. FreeSpace \in Int /\ FreeSpace' \in Int /\ FreeSpace' > FreeSpace
    BY <2>1 DEF FreeSpace, a, b
  <2> QED BY <2>1, <2>2 DEF Drop, RoomInv, IsFetched, FilterInFetch
<1> QED BY <1>2, <1>3, <1>4, <1>6, <1>7, <1>8, <1>9, <1>10, Zenon

(* The steps of the arbiter that change nothing but where it is. *)
LEMMA ControlArbiterMoves ==
    ASSUME ControlInv, ExitInv',
           cpc' \in {"idle", "notify", "done1", "done2", "done3", "done4", "isdone",
                     "exit1", "exit2", "exit3", "exit4", "exited"},
           last_processed' \in 0 .. MaxEvents, counted' \in BOOLEAN,
           UNCHANGED <<sourceVars, shm, bmmVars, buf, last_id>>
    PROVE  ControlInv' /\ Taken' = Taken
<1> USE DEF sourceVars, bmmVars
<1>1. TypeOK' BY Zenon DEF ControlInv, TypeOK
<1>2. ShmInv' /\ PlaceInv' /\ Taken' = Taken
  BY DEF ControlInv, ShmInv, PlaceInv, Taken, Consumed, HoldsEvent, AtEnd
<1>3. DropInv' /\ RoomInv'
  BY <1>2 DEF ControlInv, DropInv, RoomInv, IsFetched, FreeSpace, FilterInFetch
<1> QED BY <1>1, <1>2, <1>3, Zenon DEF ControlInv

(* The arbiter's other steps: the notification and the questions for the end. *)
LEMMA ControlArbiter ==
    ASSUME ControlInv, NotifyProcessed \/ AskDone \/ AreStreamsDone \/ IsDone
    PROVE  ControlInv' /\ Taken' = Taken
<1>1. counted \in BOOLEAN /\ last_id \in 0 .. MaxEvents /\ last_processed \in 0 .. MaxEvents
  BY DEF ControlInv, TypeOK
<1>2. CASE NotifyProcessed \/ AskDone
  <2>1. ExitInv' BY <1>2 DEF NotifyProcessed, AskDone, ExitInv
  <2> QED BY <1>1, <1>2, <2>1, ControlArbiterMoves DEF NotifyProcessed, AskDone
<1>3. CASE AreStreamsDone
  <2>1. bpc \in {"start", "done"} BY <1>3 DEF AreStreamsDone, ControlInv, PlaceInv
  <2>2. cpc' = "exit1" /\ bpc' = bpc /\ counted' = (bpc # "start")
    BY <1>3 DEF AreStreamsDone, bmmVars
  <2>3. ExitInv' BY <2>1, <2>2, Zenon DEF ExitInv
  <2>4. counted' \in BOOLEAN BY <2>2, Zenon
  <2> QED BY <1>1, <1>3, <2>2, <2>3, <2>4, ControlArbiterMoves DEF AreStreamsDone
<1>4. CASE IsDone
  <2>1. /\ UNCHANGED <<sourceVars, shm, bmmVars, buf, last_id>>
        /\ last_processed' = last_processed /\ counted' = counted
        /\ cpc' \in {"idle", "done2", "done3", "done4", "isdone",
                     "exit2", "exit3", "exit4", "exited"}
        /\ cpc' = "exit2" => cpc = "exit1" /\ buf = << >>
        /\ cpc' = "exit3" => cpc = "exit2"
        /\ cpc' = "exit4" => cpc = "exit3"
        /\ cpc' = "exited" => cpc = "exit4"
    BY <1>4 DEF IsDone, DoneStep
  <2>2. ExitInv' BY <2>1, Zenon DEF ControlInv, ExitInv, bmmVars
  <2> QED BY <1>1, <2>1, <2>2, ControlArbiterMoves, Zenon
<1> QED BY <1>2, <1>3, <1>4

(* What the buffer manager can do while it holds no event. *)
LEMMA StepWithoutEvent ==
    ASSUME ~HoldsEvent, BmmNext
    PROVE  \/ Start \/ GetEvent \/ CheckDestroyed \/ CheckSize
           \/ PushHole \/ HolePushed \/ StreamEnd
BY DEF BmmNext, HoldsEvent, Filter, HandleDropping, StartDropping, ContinueDropping, WriteEvent,
   ConsumeEvent

-----------------------------------------------------------------------------
(* What is written. *)

(* An event that is written counts as forwarded, a hole does not. *)
LEMMA ForwardedAppend ==
    ASSUME written \in Seq(Elements), NEW x \in Elements, written' = Append(written, x)
    PROVE  Forwarded' = IF x.kind = "event" THEN Forwarded \cup {x.id} ELSE Forwarded
<1> DEFINE n == Len(written)
<1>1. /\ n \in Nat /\ DOMAIN written = 1 .. n /\ DOMAIN written' = 1 .. (n + 1)
      /\ written'[n + 1] = x /\ \A i \in 1 .. n : written'[i] = written[i]
  BY AppendFacts
<1> HIDE DEF n
<1>2. \A i : i \in 1 .. (n + 1) <=> i \in 1 .. n \/ i = n + 1 BY <1>1
<1>3. \A y : y \in Forwarded <=> \E i \in 1 .. n : written[i].kind = "event" /\ y = written[i].id
  BY <1>1 DEF Forwarded
<1>4. \A y : y \in Forwarded' <=>
              \E i \in 1 .. (n + 1) : written'[i].kind = "event" /\ y = written'[i].id
  BY <1>1 DEF Forwarded
<1>5. \A y : y \in Forwarded' <=> y \in Forwarded \/ (x.kind = "event" /\ y = x.id)
  BY <1>1, <1>2, <1>3, <1>4
<1> QED BY <1>5, Zenon

(* The counters of the events are natural numbers. *)
LEMMA TakenType ==
    ASSUME ControlInv
    PROVE  /\ Consumed \in Nat /\ Taken \in Nat /\ Consumed <= Taken
           /\ bpc \notin {"skip", "consume"} => Taken = Consumed
<1>1. sent \in Nat /\ Len(shm) \in Nat /\ Len(shm) <= sent
  BY StreamAssumption DEF ControlInv, TypeOK, ShmInv
<1>2. Consumed \in Nat BY <1>1 DEF Consumed
<1> QED BY <1>2 DEF Taken

(* So are the ids of what was written. *)
LEMMA WrittenTypes ==
    ASSUME ControlInv
    PROVE  /\ written \in Seq(Elements) /\ Len(written) \in Nat
           /\ DOMAIN written = 1 .. Len(written)
           /\ \A i \in DOMAIN written : written[i].id \in Nat
<1>1. written \in Seq(Elements) BY DEF ControlInv, TypeOK
<1>2. \A x \in Elements : x.id \in Nat BY StreamAssumption DEF Elements
<1>3. \A i \in DOMAIN written : written[i] \in Elements BY <1>1
<1> QED BY <1>1, <1>2, <1>3

(* The types of the buffer and of what the arbiter remembers. *)
LEMMA BufTypes ==
    ASSUME ControlInv
    PROVE  /\ buf \in Seq(Elements) /\ Len(buf) \in Nat /\ DOMAIN buf = 1 .. Len(buf)
           /\ last_id \in Nat /\ last_processed \in Nat
<1>1. /\ buf \in Seq(Elements)
      /\ last_id \in 0 .. MaxEvents /\ last_processed \in 0 .. MaxEvents
  BY DEF ControlInv, TypeOK
<1> QED BY <1>1, StreamAssumption

(* WrittenInv in a step that writes nothing and drops nothing. *)
LEMMA WrittenKept ==
    ASSUME ControlInv, WrittenInv, Taken' \in {Taken, Taken + 1},
           Consumed' \in {Consumed, Consumed + 1},
           UNCHANGED <<written, notified, dropped_num, drop_begin_id>>,
           UNCHANGED <<bpc, last_ev_id>> \/ (~HoleIsPushed /\ ~HoleIsPushed')
    PROVE  WrittenInv'
<1>1. Consumed \in Nat /\ Taken \in Nat BY TakenType, Zenon
<1>2. SortedById' BY Zenon DEF WrittenInv, SortedById
<1>3. \A i \in DOMAIN written : written[i].id \in Nat BY WrittenTypes
<1>4. (HoleIsPushed' <=> HoleIsPushed) /\ (HoleIsPushed => last_ev_id' = last_ev_id)
  BY Zenon DEF HoleIsPushed
<1>5. ASSUME NEW i \in DOMAIN written
      PROVE  /\ written[i].id <= Taken'
             /\ dropped_num > 0 /\ (written[i].kind = "event" \/ ~HoleIsPushed')
                   => written[i].id < drop_begin_id
             /\ written[i].kind = "event" => written[i].id \notin notified
  <2>1. written[i].id <= Taken BY DEF WrittenInv
  <2>2. written[i].id <= Taken' BY <1>1, <1>3, <2>1
  <2> QED BY <1>4, <2>2 DEF WrittenInv
<1>6. notified \subseteq 1 .. Consumed' BY <1>1 DEF WrittenInv
<1> QED BY <1>2, <1>4, <1>5, <1>6 DEF WrittenInv

(* BufInv in a step that does not change the buffer. *)
LEMMA BufKept ==
    ASSUME ControlInv, BufInv, Taken' \in {Taken, Taken + 1},
           UNCHANGED <<buf, written, last_id, last_processed>>
    PROVE  BufInv'
<1>1. Taken \in Nat /\ last_id \in Nat /\ last_processed \in Nat
  BY TakenType, StreamAssumption DEF ControlInv, TypeOK
<1>2. last_id <= Taken' /\ last_processed <= Taken' BY <1>1 DEF BufInv
<1> QED BY <1>2, Zenon DEF BufInv

(* The steps that decide nothing about an event leave the three alone. *)
LEMMA QuietStep ==
    ASSUME ControlInv, WrittenInv, BufInv, AccountInv,
           Taken' = Taken, Consumed' \in {Consumed, Consumed + 1},
           UNCHANGED <<buf, written, filtered, dropped, notified, dropped_num,
                       drop_begin_id, last_id, last_processed>>,
           UNCHANGED <<bpc, last_ev_id>> \/ (~HoleIsPushed /\ ~HoleIsPushed')
    PROVE  WrittenInv' /\ BufInv' /\ AccountInv'
<1>1. WrittenInv' BY WrittenKept
<1>2. BufInv' BY BufKept
<1>3. HoleIsPushed' <=> HoleIsPushed BY Zenon DEF HoleIsPushed
<1>4. AccountInv' BY <1>3, Zenon DEF AccountInv, Forwarded
<1> QED BY <1>1, <1>2, <1>4

(* A drop begins with, or goes on with, the event after those taken. *)
LEMMA WrittenDrop ==
    ASSUME ControlInv, WrittenInv, StartDropping \/ ContinueDropping
    PROVE  WrittenInv'
<1>1. /\ Consumed \in Nat /\ Taken = Consumed /\ Head(shm) = Consumed + 1
      /\ Taken' = Consumed + 1 /\ Consumed' = Consumed
      /\ written' = written /\ ~HoleIsPushed' /\ ~HoleIsPushed
  <2>1. bpc \in {"begin", "continue"} /\ bpc' = "skip" /\ written' = written
    BY DEF StartDropping, ContinueDropping, Goto
  <2>2. shm # << >> BY <2>1 DEF ControlInv, PlaceInv, HoldsEvent
  <2> QED BY <2>1, <2>2, TakenType, ShmHead, ControlDrop DEF ControlInv, HoleIsPushed
<1>2. \A i \in DOMAIN written : written[i].id \in Nat BY WrittenTypes
<1>3. SortedById' BY <1>1 DEF WrittenInv, SortedById
<1>4. \A i \in DOMAIN written : written[i].id <= Consumed BY <1>1 DEF WrittenInv
<1>5. \A i \in DOMAIN written : written[i].id < drop_begin_id'
  <2>1. CASE StartDropping BY <1>1, <1>2, <1>4, <2>1 DEF StartDropping
  <2>2. CASE ContinueDropping
    <3>1. dropped_num > 0 BY <2>2 DEF ContinueDropping, ControlInv, DropInv
    <3> QED BY <1>1, <2>2, <3>1, Zenon DEF ContinueDropping, WrittenInv
  <2> QED BY <2>1, <2>2, Zenon
<1>6. /\ notified' \subseteq notified \cup (drop_begin_id' .. Consumed)
      /\ drop_begin_id' \in Nat /\ drop_begin_id' >= 1
  <2>1. CASE StartDropping BY <1>1, <2>1 DEF StartDropping
  <2>2. CASE ContinueDropping
    <3>1. dropped_num > 0 /\ drop_begin_id >= 1 /\ drop_begin_id \in Nat
      BY <2>2, StreamAssumption DEF ContinueDropping, ControlInv, DropInv, TypeOK
    <3> QED BY <1>1, <2>2, <3>1 DEF ContinueDropping
  <2> QED BY <2>1, <2>2
<1>7. ASSUME NEW i \in DOMAIN written, written[i].kind = "event"
      PROVE  written[i].id \notin notified'
  <2>1. written[i].id \notin notified BY <1>7 DEF WrittenInv
  <2>2. written[i].id \notin drop_begin_id' .. Consumed BY <1>1, <1>2, <1>5, <1>6
  <2> QED BY <1>6, <2>1, <2>2
<1>8. \A i \in DOMAIN written : written[i].id <= Consumed + 1 BY <1>1, <1>2, <1>4
<1>9. notified' \subseteq 1 .. Consumed BY <1>1, <1>6 DEF WrittenInv
<1> QED BY <1>1, <1>3, <1>5, <1>7, <1>8, <1>9 DEF WrittenInv

(* The source is told of the drop. *)
LEMMA WrittenHolePushed ==
    ASSUME ControlInv, WrittenInv, HolePushed
    PROVE  WrittenInv'
<1>1. Consumed \in Nat /\ Taken' = Taken /\ Consumed' = Consumed
  BY TakenType, ControlHolePushed
<1>2. /\ bpc \in {"holed", "endholed"} /\ HoleIsPushed /\ ~HoleIsPushed'
      /\ written' = written /\ dropped_num' = 0
      /\ notified' = notified \cup (drop_begin_id .. (last_ev_id - 1))
  BY Zenon DEF HolePushed, HoleIsPushed, Goto, Fetched, FilterInFetch
<1>3. dropped_num > 0 /\ drop_begin_id >= 1 /\ drop_begin_id \in Nat
  BY <1>2, StreamAssumption DEF ControlInv, DropInv, TypeOK
<1>4. last_ev_id \in Nat /\ last_ev_id - 1 <= Consumed
  BY <1>1, <1>2, <1>3 DEF ControlInv, PlaceInv, DropInv, HoldsEvent
<1>5. \A i \in DOMAIN written : written[i].id \in Nat BY WrittenTypes, Zenon
<1>6. SortedById' BY <1>2, Zenon DEF WrittenInv, SortedById
<1>7. ASSUME NEW i \in DOMAIN written, written[i].kind = "event"
      PROVE  written[i].id \notin notified'
  <2>1. written[i].id \notin notified /\ written[i].id < drop_begin_id
    BY <1>3, <1>7 DEF WrittenInv
  <2> QED BY <1>2, <1>3, <1>4, <1>5, <2>1
<1>8. notified' \subseteq 1 .. Consumed BY <1>1, <1>2, <1>3, <1>4 DEF WrittenInv
<1> QED BY <1>1, <1>2, <1>6, <1>7, <1>8 DEF WrittenInv

(* An element whose id is not below those before it keeps the order. *)
LEMMA SortedAppend ==
    ASSUME ControlInv, SortedById, NEW x \in Elements, written' = Append(written, x),
           \A i \in DOMAIN written :
              written[i].id <= x.id /\ (x.kind = "event" => written[i].id < x.id)
    PROVE  SortedById'
<1> DEFINE n == Len(written)
<1>1. written \in Seq(Elements) /\ n \in Nat /\ DOMAIN written = 1 .. n BY WrittenTypes, Zenon
<1>2. /\ DOMAIN written' = 1 .. (n + 1)
      /\ written'[n + 1] = x /\ \A i \in 1 .. n : written'[i] = written[i]
  BY <1>1, AppendFacts
<1> HIDE DEF n
<1>3. SUFFICES ASSUME NEW i \in 1 .. (n + 1), NEW j \in 1 .. (n + 1), i < j
               PROVE  /\ written'[i].id <= written'[j].id
                      /\ written'[j].kind = "event" => written'[i].id < written'[j].id
  BY <1>2, Zenon DEF SortedById
<1>4. i \in 1 .. n BY <1>1, <1>3
<1>5. CASE j = n + 1 BY <1>1, <1>2, <1>4, <1>5, Zenon
<1>6. CASE j \in 1 .. n BY <1>1, <1>2, <1>3, <1>4, <1>6, Zenon DEF SortedById
<1> QED BY <1>1, <1>5, <1>6

(* The hole comes with an id that is not below those before the drop. *)
LEMMA WrittenPushHole ==
    ASSUME ControlInv, WrittenInv, PushHole
    PROVE  WrittenInv'
<1> DEFINE n == Len(written)
<1>1. PICK x \in Elements : /\ written' = Append(written, x)
                            /\ x = Hole(last_ev_id - 1, hole_n)
  BY ControlPush, Zenon
<1>2. /\ Consumed \in Nat /\ Taken = Consumed /\ Taken' = Taken /\ Consumed' = Consumed
      /\ bpc \in {"hole", "endhole"} /\ ~HoleIsPushed
      /\ UNCHANGED <<last_ev_id, dropped_num, drop_begin_id, notified>>
  BY TakenType, ControlPushHole, Zenon DEF PushHole, HoleIsPushed
<1>3. dropped_num > 0 /\ dropped_num \in Nat /\ drop_begin_id \in Nat /\ last_ev_id \in Nat
  BY <1>2, StreamAssumption DEF ControlInv, DropInv, TypeOK, Ids
<1>4. /\ drop_begin_id + dropped_num <= Consumed + 1
      /\ last_ev_id = Consumed \/ last_ev_id = Consumed + 1
  BY <1>2, <1>3 DEF ControlInv, DropInv, PlaceInv, HoldsEvent
<1>5. /\ written \in Seq(Elements) /\ n \in Nat /\ DOMAIN written = 1 .. n
      /\ \A i \in 1 .. n : written[i].id \in Nat
  BY WrittenTypes
<1>6. x.id = last_ev_id - 1 /\ x.kind = "hole" BY <1>1, Zenon DEF Hole
<1>7. \A i \in 1 .. n : written[i].id < drop_begin_id BY <1>2, <1>3, <1>5, Zenon DEF WrittenInv
<1>8. \A i \in 1 .. n : written[i].id <= x.id BY <1>2, <1>3, <1>4, <1>5, <1>6, <1>7
<1>9. SortedById' BY <1>1, <1>5, <1>6, <1>8, SortedAppend DEF WrittenInv
<1>10. /\ DOMAIN written' = 1 .. (n + 1) /\ Len(written') = n + 1 /\ written' # << >>
       /\ written'[n + 1] = x /\ \A i \in 1 .. n : written'[i] = written[i]
  BY <1>1, <1>5, AppendFacts
<1> HIDE DEF n
<1>11. x.id <= Consumed BY <1>2, <1>3, <1>4, <1>6
<1>12. ASSUME NEW i \in 1 .. (n + 1)
       PROVE  /\ written'[i].id <= Consumed
              /\ written'[i].kind = "event" =>
                    written'[i].id < drop_begin_id /\ written'[i].id \notin notified
  <2>1. CASE i = n + 1 BY <1>6, <1>10, <1>11, <2>1, Zenon
  <2>2. CASE i \in 1 .. n BY <1>2, <1>5, <1>7, <1>10, <2>2 DEF WrittenInv
  <2> QED BY <1>5, <2>1, <2>2
<1>13. HoleIsPushed' BY Zenon DEF PushHole, Goto, HoleIsPushed
<1> QED BY <1>2, <1>6, <1>9, <1>10, <1>12, <1>13 DEF WrittenInv

(* The event that is written comes after all events taken before. *)
LEMMA WrittenWriteEvent ==
    ASSUME ControlInv, WrittenInv, WriteEvent
    PROVE  WrittenInv'
<1> DEFINE n == Len(written)
<1>1. PICK x \in Elements : written' = Append(written, x) /\ x = Event(Consumed + 1)
  BY ControlPush, Zenon
<1>2. /\ Consumed \in Nat /\ Taken = Consumed /\ Taken' = Consumed + 1 /\ Consumed' = Consumed
      /\ dropped_num' = 0 /\ ~HoleIsPushed' /\ notified' = notified
  BY TakenType, ControlWriteEvent
     DEF WriteEvent, HoleIsPushed, ControlInv, DropInv, IsFetched, Goto
<1>3. /\ written \in Seq(Elements) /\ n \in Nat /\ DOMAIN written = 1 .. n
      /\ \A i \in 1 .. n : written[i].id \in Nat
  BY WrittenTypes
<1>4. x.id = Consumed + 1 /\ x.kind = "event" BY <1>1, Zenon DEF Event
<1>5. \A i \in 1 .. n : written[i].id <= Consumed BY <1>2, <1>3 DEF WrittenInv
<1>6. \A i \in 1 .. n : written[i].id <= x.id /\ written[i].id < x.id
  BY <1>2, <1>3, <1>4, <1>5
<1>7. SortedById' BY <1>1, <1>3, <1>6, SortedAppend, Zenon DEF WrittenInv
<1>8. /\ DOMAIN written' = 1 .. (n + 1) /\ written'[n + 1] = x
      /\ \A i \in 1 .. n : written'[i] = written[i]
  BY <1>1, <1>3, AppendFacts
<1> HIDE DEF n
<1>9. x.id \notin notified BY <1>2, <1>4 DEF WrittenInv
<1>10. ASSUME NEW i \in 1 .. (n + 1)
       PROVE  /\ written'[i].id <= Consumed + 1
              /\ written'[i].kind = "event" => written'[i].id \notin notified
  <2>1. CASE i = n + 1 BY <1>2, <1>4, <1>8, <1>9, <2>1
  <2>2. CASE i \in 1 .. n
    <3>1. written[i].id <= Consumed + 1 BY <1>2, <1>3, <1>5, <2>2
    <3> QED BY <1>3, <1>8, <2>2, <3>1, Zenon DEF WrittenInv
  <2> QED BY <1>3, <2>1, <2>2
<1> QED BY <1>2, <1>7, <1>8, <1>10 DEF WrittenInv

-----------------------------------------------------------------------------
(* What is in the arbiter buffer. *)

(* A push adds the same element to the buffer and to what was written. *)
LEMMA BufPush ==
    ASSUME ControlInv, BufInv, PushHole \/ WriteEvent
    PROVE  BufInv'
<1> DEFINE n == Len(written)
           b == Len(buf)
<1>1. PICK x \in Elements : /\ buf' = Append(buf, x) /\ written' = Append(written, x)
                            /\ x.kind = "event" => x = Event(Consumed + 1)
  BY ControlPush DEF Hole
<1>2. /\ Consumed \in Nat /\ Taken = Consumed /\ Taken' \in {Taken, Taken + 1}
      /\ UNCHANGED <<last_id, last_processed>>
  BY TakenType, ControlWriteEvent, ControlPushHole, Zenon DEF PushHole, WriteEvent, arbiterVars
<1>3. /\ last_id \in Nat /\ last_processed \in Nat
      /\ buf \in Seq(Elements) /\ b \in Nat /\ DOMAIN buf = 1 .. b
      /\ written \in Seq(Elements) /\ n \in Nat
  BY BufTypes, WrittenTypes, Zenon
<1>4. /\ DOMAIN buf' = 1 .. (b + 1) /\ Len(buf') = b + 1 /\ buf'[b + 1] = x
      /\ \A i \in 1 .. b : buf'[i] = buf[i]
      /\ Len(written') = n + 1 /\ written'[n + 1] = x
      /\ \A i \in 1 .. n : written'[i] = written[i]
  <2>1. /\ buf' \in Seq(Elements) /\ Len(buf') = b + 1 /\ buf'[b + 1] = x
        /\ \A i \in 1 .. b : buf'[i] = buf[i]
    BY <1>1, <1>3, AppendFacts
  <2>2. /\ Len(written') = n + 1 /\ written'[n + 1] = x
        /\ \A i \in 1 .. n : written'[i] = written[i]
    BY <1>1, <1>3, AppendFacts
  <2>3. DOMAIN buf' = 1 .. (b + 1) BY <1>3, <2>1
  <2> QED BY <2>1, <2>2, <2>3, Zenon
<1>5. b <= n /\ \A i \in 1 .. b : buf[i] = written[n - b + i] BY <1>3, Zenon DEF BufInv
<1>6. /\ last_id <= Consumed /\ last_processed <= Consumed
      /\ \A i \in 1 .. b : buf[i].kind = "event" =>
             buf[i].id > last_id /\ buf[i].id > last_processed
  BY <1>2, <1>3, Zenon DEF BufInv
<1> HIDE DEF n, b
<1>7. ASSUME NEW i \in 1 .. (b + 1)
      PROVE  /\ buf'[i] = written'[(n + 1) - (b + 1) + i]
             /\ buf'[i].kind = "event" => buf'[i].id > last_id /\ buf'[i].id > last_processed
  <2>1. CASE i = b + 1
    <3>1. (n + 1) - (b + 1) + i = n + 1 BY <1>3, <2>1
    <3>2. x.kind = "event" => x.id = Consumed + 1 BY <1>1 DEF Event
    <3> QED BY <1>2, <1>3, <1>4, <1>6, <2>1, <3>1, <3>2
  <2>2. CASE i \in 1 .. b
    <3>1. (n + 1) - (b + 1) + i = n - b + i /\ n - b + i \in 1 .. n BY <1>3, <1>5, <2>2
    <3> QED BY <1>4, <1>5, <1>6, <2>2, <3>1, Zenon
  <2> QED BY <1>3, <2>1, <2>2
<1>8. last_id <= Taken' /\ last_processed <= Taken' BY <1>2, <1>3, <1>6
<1>9. b + 1 <= n + 1 BY <1>3, <1>5
<1> QED BY <1>2, <1>4, <1>7, <1>8, <1>9 DEF BufInv

(* The arbiter takes elements from the front: those left are newer. *)
LEMMA BufArbiterDrop ==
    ASSUME ControlInv, WrittenInv, BufInv, NEW k \in 1 .. BufCapacity, Drop(k)
    PROVE  BufInv'
<1> DEFINE n == Len(written)
           b == Len(buf)
<1>1. PICK m \in 1 .. b : /\ last_id' = buf[m].id /\ Len(buf') = b - m
                          /\ \A i \in 1 .. Len(buf') : buf'[i] = buf[m + i]
  BY ControlArbiterDrop
<1>2. Taken' = Taken /\ written' = written /\ last_processed' = last_processed
  BY ControlArbiterDrop, Zenon DEF Drop, bmmVars
<1>3. b \in Nat /\ DOMAIN buf = 1 .. b /\ n \in Nat /\ DOMAIN written = 1 .. n
  BY BufTypes, WrittenTypes, Zenon
<1>4. buf' \in Seq(Elements) BY ControlArbiterDrop, Zenon
<1>5. DOMAIN buf' = 1 .. (b - m) BY <1>1, <1>4
<1>6. b <= n /\ \A i \in 1 .. b : buf[i] = written[n - b + i] BY <1>3 DEF BufInv
<1>7. \A i \in 1 .. b : buf[i].kind = "event" => buf[i].id > last_processed
  BY <1>3, Zenon DEF BufInv
<1> HIDE DEF n, b
<1>8. buf[m] = written[n - b + m] /\ n - b + m \in 1 .. n BY <1>3, <1>6
<1>9. buf[m].id <= Taken BY <1>3, <1>8, Zenon DEF WrittenInv
<1>10. ASSUME NEW i \in 1 .. (b - m)
       PROVE  /\ buf'[i] = written[n - (b - m) + i]
              /\ buf'[i].kind = "event" => buf'[i].id > buf[m].id /\ buf'[i].id > last_processed
  <2>1. /\ m + i \in 1 .. b /\ n - (b - m) + i = n - b + (m + i)
        /\ n - b + (m + i) \in 1 .. n /\ n - b + m < n - b + (m + i)
    BY <1>3, <1>6, Behind, Zenon
  <2>2. buf'[i] = buf[m + i] BY <1>1, Zenon
  <2>3. buf[m + i] = written[n - b + (m + i)] BY <1>6, <2>1, Zenon
  <2>4. buf[m + i].kind = "event" => buf[m].id < buf[m + i].id
    BY <1>3, <1>8, <2>1, <2>3, Zenon DEF WrittenInv, SortedById
  <2>5. buf[m].id \in Nat /\ buf[m + i].id \in Nat
    BY <1>3, <1>8, <2>1, <2>3, WrittenTypes, Zenon
  <2> QED BY <1>7, <2>1, <2>2, <2>3, <2>4, <2>5, Zenon
<1>11. b - m <= n BY <1>3, <1>6
<1> QED BY <1>1, <1>2, <1>5, <1>9, <1>10, <1>11, Zenon DEF BufInv, n

(* The source learns of the last one that was taken. *)
LEMMA BufNotify ==
    ASSUME ControlInv, BufInv, NotifyProcessed
    PROVE  BufInv'
<1>1. Taken' = Taken BY ControlArbiter
<1> QED BY <1>1, Zenon DEF BufInv, NotifyProcessed, bmmVars

=============================================================================
