-------------------------- MODULE AuxBuffersProofs --------------------------
(***************************************************************************)
(* AuxInv is inductive, for all sizes of the buffers, every number of      *)
(* slots for dropped ranges and every number of events.  As long as no     *)
(* slot is used twice, the string of an event is not overwritten before    *)
(* the monitor side is done with the event.                                *)
(***************************************************************************)
EXTENDS AuxBuffers, SequenceTheorems, TLAPS

(* The constants are numbers. *)
LEMMA AuxNumbers ==
    /\ MaxEvents \in Nat /\ ShmSize \in Nat /\ ShmSize >= 1 /\ BufCapacity \in Nat
    /\ AuxSize \in Nat /\ AuxSize >= 1 /\ RangesNum \in Nat /\ RangesNum >= 1
    /\ Infinity \in Nat /\ Infinity > MaxEvents
BY AuxAssumption DEF Infinity

(* The types of an element, and of the sequences. *)
LEMMA StringTypes ==
    ASSUME NEW e \in Strings PROVE e.id \in Nat /\ e.buf \in Nat /\ e.off \in Nat
BY AuxNumbers DEF Strings

(* The events in the two buffers. *)
LEMMA SeqTypes ==
    ASSUME AuxTypeOK
    PROVE  /\ shm \in Seq(Strings) /\ Len(shm) \in Nat /\ DOMAIN shm = 1 .. Len(shm)
           /\ buf \in Seq(Strings) /\ Len(buf) \in Nat /\ DOMAIN buf = 1 .. Len(buf)
           /\ \A i \in 1 .. Len(shm) : shm[i] \in Strings
           /\ \A i \in 1 .. Len(buf) : buf[i] \in Strings
BY DEF AuxTypeOK

(* The auxiliary buffers. *)
LEMMA BufferTypes ==
    ASSUME AuxTypeOK
    PROVE  /\ Len(aux) \in Nat /\ Len(age) \in Nat
           /\ \A i \in 1 .. Len(aux) : aux[i] \in AuxRecords
           /\ \A i \in 1 .. Len(aux) : /\ aux[i].first \in Nat /\ aux[i].last \in Nat
                                       /\ aux[i].head \in Nat
<1>1. /\ Len(aux) \in Nat /\ Len(age) \in Nat /\ \A i \in 1 .. Len(aux) : aux[i] \in AuxRecords
  BY DEF AuxTypeOK
<1>2. \A r \in AuxRecords : r.first \in Nat /\ r.last \in Nat /\ r.head \in Nat
  BY AuxNumbers DEF AuxRecords
<1> QED BY <1>1, <1>2

(* The counts of the events. *)
LEMMA GoneType ==
    ASSUME AuxTypeOK, SourceInv, IdInv
    PROVE  /\ Pushed \in 0 .. MaxEvents /\ Gone \in 0 .. MaxEvents /\ Len(shm) \in Nat
           /\ Gone <= Pushed /\ Pushed = Gone + Len(shm)
<1>1. evid \in 0 .. MaxEvents /\ shm \in Seq(Strings) /\ Len(shm) <= Pushed
      /\ (spc # "idle" => evid >= 1)
  BY Zenon DEF AuxTypeOK, SourceInv, IdInv
<1>2. Len(shm) \in Nat BY <1>1
<1>3. Pushed \in 0 .. MaxEvents BY <1>1, AuxNumbers DEF Pushed
<1> QED BY <1>1, <1>2, <1>3, AuxNumbers DEF Gone

(* Initially all buffers are empty. *)
LEMMA AuxInitInv == AuxInit => AuxInv
<1> SUFFICES ASSUME AuxInit PROVE AuxInv OBVIOUS
<1>1. /\ aux \in Seq(AuxRecords) /\ age \in Seq(Nat) /\ shm \in Seq(Strings) /\ buf \in Seq(Strings)
      /\ Len(aux) = 0 /\ Len(age) = 0 /\ Len(shm) = 0 /\ Len(buf) = 0
  BY DEF AuxInit
<1>2. ranges \in [1 .. RangesNum -> Ranges] /\ \A s \in 1 .. RangesNum : ranges[s] = Empty
  BY AuxNumbers DEF AuxInit, Ranges, Empty
<1>3. lock \in BOOLEAN /\ periodic \in BOOLEAN BY Zenon DEF AuxInit
<1>4. AuxTypeOK BY <1>1, <1>2, <1>3, AuxNumbers DEF AuxInit, AuxTypeOK
<1>5. Pushed = 0 /\ Gone = 0
  <2>1. spc = "idle" /\ evid = 0 /\ Len(shm) = 0 BY <1>1 DEF AuxInit
  <2> HIDE DEF AuxInit
  <2>2. Pushed = 0 BY <2>1, Zenon DEF Pushed
  <2>3. Gone = 0 - 0 BY <2>1, <2>2, Zenon DEF Gone
  <2> QED BY <2>2, <2>3
<1>6. SourceInv /\ AgeInv BY <1>1 DEF AuxInit, SourceInv, AgeInv
<1>7. IdInv BY <1>1, <1>5 DEF AuxInit, IdInv
<1>8. ranges_next \in 1 .. RangesNum /\ ranges[ranges_next].begin = 0 /\ ranges[ranges_next].end = 0
  BY <1>2, <1>4 DEF AuxTypeOK, Empty
<1>9. DropInv BY <1>5, <1>8 DEF AuxInit, DropInv
<1>10. SlotInv BY <1>2 DEF AuxInit, SlotInv, Empty
<1>11. ReadInv BY DEF AuxInit, ReadInv
<1>12. StringInv BY <1>1 DEF AuxInit, StringInv, Live, Range
<1> QED BY <1>4, <1>6, <1>7, <1>9, <1>10, <1>11, <1>12, Zenon DEF AuxInv

-----------------------------------------------------------------------------
(* The steps of the source. *)

(* The ids and the ranges as long as the source pushes nothing. *)
LEMMA IdsKept ==
    ASSUME IdInv, DropInv, Pushed' = Pushed, UNCHANGED <<shm, bmmVars, buf, arbiterVars>>
    PROVE  IdInv' /\ DropInv'
<1>1. Gone' = Gone BY DEF Gone
<1>2. IdInv' BY <1>1 DEF IdInv, bmmVars, arbiterVars
<1>3. DropInv' BY <1>1 DEF DropInv, bmmVars
<1> QED BY <1>2, <1>3

(* A live event that has a string is neither processed nor dropped. *)
LEMMA LiveIds ==
    ASSUME AuxTypeOK, SourceInv, IdInv, DropInv, NEW e \in Live, e.buf # 0
    PROVE  e.id \in Nat /\ e.id > last_processed /\ e.id \notin dropped /\ e.id <= Pushed
<1>1. /\ Gone \in Nat /\ last_id \in Nat /\ last_processed \in Nat
      /\ last_processed <= last_id /\ last_id <= Gone /\ Gone <= Pushed
      /\ Pushed \in Nat /\ Pushed = Gone + Len(shm)
  BY GoneType, AuxNumbers DEF AuxTypeOK, IdInv
<1>2. /\ DOMAIN shm = 1 .. Len(shm) /\ DOMAIN buf = 1 .. Len(buf) /\ Len(shm) \in Nat
      /\ \A i \in 1 .. Len(buf) : buf[i].id \in Nat
  BY SeqTypes, StringTypes, Zenon
<1>3. CASE \E i \in DOMAIN shm : e = shm[i]
  <2>1. PICK i \in 1 .. Len(shm) : e = shm[i] BY <1>2, <1>3
  <2>2. e.id = Gone + i BY <2>1 DEF IdInv
  <2>3. e.id \in Nat /\ e.id > Gone /\ e.id <= Pushed BY <1>1, <1>2, <2>1, <2>2
  <2>4. e.id \notin 1 .. Gone BY <1>1, <2>3
  <2> QED BY <1>1, <2>3, <2>4 DEF DropInv
<1>4. CASE \E i \in DOMAIN buf : e = buf[i]
  <2>1. PICK i \in 1 .. Len(buf) : e = buf[i] BY <1>2, <1>4
  <2>2. e.id \in Nat /\ last_id < e.id /\ e.id \notin dropped /\ e.id <= Gone
    BY <1>2, <2>1 DEF IdInv
  <2> QED BY <1>1, <2>2
<1> QED BY <1>3, <1>4 DEF Live, Range

(* The elements of two sequences and one element behind them. *)
LEMMA Joined ==
    ASSUME NEW a \in Seq(Nat), NEW b \in Seq(Nat)
    PROVE  /\ a \o b \in Seq(Nat) /\ Len(a \o b) = Len(a) + Len(b)
           /\ \A i \in 1 .. Len(a) : (a \o b)[i] = a[i]
           /\ \A i \in 1 .. Len(b) : (a \o b)[Len(a) + i] = b[i]
<1>1. /\ a \o b \in Seq(Nat) /\ Len(a \o b) = Len(a) + Len(b)
      /\ \A i \in 1 .. Len(a) + Len(b) : (a \o b)[i] = IF i <= Len(a) THEN a[i] ELSE b[i - Len(a)]
  BY ConcatProperties
<1> DEFINE c == a \o b
           p == Len(a)
           q == Len(b)
<1>2. p \in Nat /\ q \in Nat OBVIOUS
<1>3. \A i \in 1 .. p + q : c[i] = IF i <= p THEN a[i] ELSE b[i - p] BY <1>1
<1> HIDE DEF c, p, q
<1>4. \A i \in 1 .. p : c[i] = a[i]
  <2>1. \A i \in 1 .. p : i \in 1 .. p + q /\ i <= p BY <1>2
  <2> QED BY <1>3, <2>1
<1>5. \A i \in 1 .. q : c[p + i] = b[i]
  <2>1. \A i \in 1 .. q : p + i \in 1 .. p + q /\ ~(p + i <= p) /\ (p + i) - p = i BY <1>2
  <2> QED BY <1>3, <2>1
<1> QED BY <1>1, <1>4, <1>5 DEF c, p, q

(* What follows the element k of a sequence. *)
LEMMA Following ==
    ASSUME NEW s \in Seq(Nat), NEW k \in 1 .. Len(s)
    PROVE  /\ SubSeq(s, k + 1, Len(s)) \in Seq(Nat)
           /\ Len(SubSeq(s, k + 1, Len(s))) = Len(s) - k
           /\ \A i \in 1 .. (Len(s) - k) : SubSeq(s, k + 1, Len(s))[i] = s[k + i]
<1> DEFINE m == k + 1
           n == Len(s)
<1>1. m \in Int /\ n \in Int /\ n - m + 1 = n - k /\ n - k \in Nat
  OBVIOUS
<1>2. \A i \in m .. n : s[i] \in Nat
  OBVIOUS
<1> HIDE DEF m, n
<1>3. /\ SubSeq(s, m, n) \in Seq(Nat)
      /\ Len(SubSeq(s, m, n)) = IF m <= n THEN n - m + 1 ELSE 0
      /\ \A i \in 1 .. n - m + 1 : SubSeq(s, m, n)[i] = s[m + i - 1]
  BY <1>1, <1>2, SubSeqProperties
<1> DEFINE t == SubSeq(s, m, n)
<1> HIDE DEF t
<1>4. /\ t \in Seq(Nat) /\ Len(t) = IF m <= n THEN n - m + 1 ELSE 0
      /\ \A i \in 1 .. n - k : t[i] = s[m + i - 1]
  BY <1>1, <1>3, Zenon DEF t
<1>5. \A i \in 1 .. n - k : m + i - 1 = k + i
  BY <1>1 DEF m
<1>6. \A i \in 1 .. n - k : t[i] = s[k + i]
  BY <1>4, <1>5, Zenon
<1>7. Len(t) = n - k
  BY <1>1, <1>4 DEF m
<1> QED BY <1>4, <1>6, <1>7, Zenon DEF t, m, n

(* The list of which the element k is moved to the end. *)
LEMMA Rotated ==
    ASSUME NEW s \in Seq(Nat), NEW k \in 1 .. Len(s)
    PROVE  LET t == SubSeq(s, 1, k - 1) \o SubSeq(s, k + 1, Len(s)) \o <<s[k]>>
           IN  /\ t \in Seq(Nat) /\ Len(t) = Len(s) /\ t[Len(s)] = s[k]
               /\ \A i \in 1 .. (k - 1) : t[i] = s[i]
               /\ \A i \in k .. (Len(s) - 1) : t[i] = s[i + 1]
<1> DEFINE a == SubSeq(s, 1, k - 1)
           b == SubSeq(s, k + 1, Len(s))
           m == Len(s)
           d == <<s[k]>>
           c == a \o b
           t == c \o d
<1>1. m \in Nat /\ a \in Seq(Nat) /\ Len(a) = k - 1 /\ \A i \in 1 .. (k - 1) : a[i] = s[i]
  <2>1. m \in Nat /\ k \in 1 .. m /\ k - 1 \in 0 .. m OBVIOUS
  <2>2. a \in Seq(Nat) /\ Len(a) = k - 1
    <3>1. \A i \in 1 .. (k - 1) : s[i] \in Nat OBVIOUS
    <3> QED BY <2>1, <3>1
  <2>3. \A i \in 1 .. (k - 1) : a[i] = s[i] BY <2>1
  <2> QED BY <2>1, <2>2, <2>3, Zenon
<1>2. /\ b \in Seq(Nat) /\ Len(b) = m - k /\ \A i \in 1 .. (m - k) : b[i] = s[k + i]
  BY Following, Zenon
<1>3. d \in Seq(Nat) /\ Len(d) = 1 /\ d[1] = s[k] OBVIOUS
<1>4. k \in 1 .. m OBVIOUS
<1> HIDE DEF a, b, m, d
<1>5. /\ c \in Seq(Nat) /\ Len(c) = Len(a) + Len(b)
      /\ \A i \in 1 .. Len(a) : c[i] = a[i]
      /\ \A i \in 1 .. Len(b) : c[Len(a) + i] = b[i]
  BY <1>1, <1>2, Joined, Zenon
<1> HIDE DEF c
<1>6. /\ t \in Seq(Nat) /\ Len(t) = Len(c) + Len(d)
      /\ \A i \in 1 .. Len(c) : t[i] = c[i]
      /\ \A i \in 1 .. Len(d) : t[Len(c) + i] = d[i]
  BY <1>3, <1>5, Joined, Zenon
<1> HIDE DEF t
<1>7. Len(c) = m - 1 /\ Len(t) = m BY <1>1, <1>2, <1>3, <1>4, <1>5, <1>6
<1>8. t[m] = s[k]
  <2>1. 1 \in 1 .. Len(d) /\ Len(c) + 1 = m BY <1>1, <1>3, <1>7
  <2> QED BY <1>3, <1>6, <2>1
<1>9. ASSUME NEW i \in 1 .. (k - 1) PROVE t[i] = s[i]
  <2>1. i \in 1 .. Len(a) /\ i \in 1 .. Len(c) BY <1>1, <1>4, <1>7
  <2> QED BY <1>1, <1>5, <1>6, <2>1
<1>10. ASSUME NEW i \in k .. (m - 1) PROVE t[i] = s[i + 1]
  <2> DEFINE j == i - (k - 1)
  <2>1. /\ j \in 1 .. Len(b) /\ Len(a) + j = i /\ k + j = i + 1 /\ j \in 1 .. (m - k)
        /\ i \in 1 .. Len(c)
    BY <1>1, <1>2, <1>4, <1>7
  <2> HIDE DEF j
  <2>2. c[i] = b[j] BY <1>5, <2>1, Zenon
  <2>3. b[j] = s[i + 1] BY <1>2, <2>1, Zenon
  <2> QED BY <1>6, <2>1, <2>2, <2>3
<1> QED BY <1>6, <1>7, <1>8, <1>9, <1>10, Zenon DEF a, b, m, d, c, t

(* If the list has every number once it still has. *)
ListsOnce(s, n) ==
    /\ \A i \in 1 .. Len(s) : s[i] \in 1 .. n
    /\ \A i, j \in 1 .. Len(s) : i # j => s[i] # s[j]

MoveToEnd(s, k) == SubSeq(s, 1, k - 1) \o SubSeq(s, k + 1, Len(s)) \o <<s[k]>>

(* Moving an element to the end keeps a list of all buffers one. *)
LEMMA MovedToEnd ==
    ASSUME NEW n \in Nat, NEW s \in Seq(Nat), NEW k \in 1 .. Len(s), ListsOnce(s, n)
    PROVE  /\ MoveToEnd(s, k) \in Seq(Nat) /\ Len(MoveToEnd(s, k)) = Len(s)
           /\ MoveToEnd(s, k)[Len(s)] = s[k] /\ ListsOnce(MoveToEnd(s, k), n)
<1> DEFINE m == Len(s)
           t == MoveToEnd(s, k)
           p(i) == IF i = m THEN k ELSE IF i < k THEN i ELSE i + 1
<1>1. m \in Nat /\ k \in 1 .. m OBVIOUS
<1>r. /\ t \in Seq(Nat) /\ Len(t) = Len(s) /\ t[Len(s)] = s[k]
      /\ \A i \in 1 .. (k - 1) : t[i] = s[i]
      /\ \A i \in k .. (Len(s) - 1) : t[i] = s[i + 1]
  BY Rotated, Zenon DEF MoveToEnd
<1> HIDE DEF m, t
<1>2. ASSUME NEW i \in 1 .. m PROVE p(i) \in 1 .. m /\ t[i] = s[p(i)]
  <2>1. CASE i = m BY <1>r, <1>1, <2>1 DEF m
  <2>2. CASE i # m /\ i < k
    <3>1. i \in 1 .. (k - 1) BY <1>1, <2>2
    <3> QED BY <1>r, <1>1, <2>2, <3>1
  <2>3. CASE i # m /\ ~(i < k)
    <3>1. i \in k .. (m - 1) BY <1>1, <2>3
    <3> QED BY <1>r, <1>1, <2>3, <3>1 DEF m
  <2> QED BY <2>1, <2>2, <2>3
<1>3. \A i, j \in 1 .. m : i # j => p(i) # p(j) BY <1>1
<1> HIDE DEF p
<1>4. Len(t) = m /\ Len(s) = m BY <1>r DEF m
<1>5. \A i \in 1 .. m : t[i] \in 1 .. n
  <2>1. \A i \in 1 .. m : s[i] \in 1 .. n BY <1>4 DEF ListsOnce
  <2> QED BY <1>2, <2>1, Zenon
<1>6. \A i, j \in 1 .. m : i # j => t[i] # t[j]
  <2>1. \A i, j \in 1 .. m : i # j => s[i] # s[j] BY <1>4 DEF ListsOnce
  <2> SUFFICES ASSUME NEW i \in 1 .. m, NEW j \in 1 .. m, i # j PROVE t[i] # t[j] OBVIOUS
  <2>2. p(i) \in 1 .. m /\ p(j) \in 1 .. m /\ t[i] = s[p(i)] /\ t[j] = s[p(j)] BY <1>2
  <2>3. p(i) # p(j) BY <1>3
  <2> QED BY <2>1, <2>2, <2>3, Zenon
<1> QED BY <1>r, <1>4, <1>5, <1>6, Zenon DEF m, t, ListsOnce

(* The parts of the invariant that a step leaves alone. *)
LEMMA SlotKept ==
    ASSUME UNCHANGED bmmVars
    PROVE  (SlotsFresh' => SlotsFresh) /\ (SlotInv => SlotInv')
BY DEF bmmVars, SlotsFresh, SlotInv

(* Strings are kept while nobody touches them. *)
LEMMA StringsKept ==
    ASSUME StringInv, UNCHANGED <<aux, shm, buf>>
    PROVE  StringInv'
BY DEF StringInv, Live, Kept

(* A step of the source that looks at the buffers and at the ranges. *)
LEMMA LookKeepsInv ==
    ASSUME AuxInv, UNCHANGED <<aux, age, cur, shm, bmmVars, buf, arbiterVars>>,
           evid' \in 1 .. MaxEvents, spc' # "idle", Len(shm) < ShmSize,
           evid' = IF spc = "idle" THEN evid + 1 ELSE evid,
           scan' \in Nat \ {0}, rng' \in Nat \ {0}, rbegin' \in 0 .. MaxEvents, lock' \in BOOLEAN,
           spc' \in {"idle", "scan", "lock", "end0", "begin", "end", "push"},
           spc' \in {"lock", "end0", "begin", "end"} => scan' \in 1 .. Len(age),
           spc' \in {"begin", "end"} => rng' <= RangesNum,
           spc' = "push" => CurrentHasRoom,
           SlotsFresh => ReadInv'
    PROVE  AuxInv'
<1>i. /\ AuxTypeOK /\ SourceInv /\ AgeInv /\ IdInv /\ DropInv
      /\ SlotsFresh => SlotInv /\ ReadInv /\ StringInv
  BY Zenon DEF AuxInv
<1>1. evid \in Nat /\ evid' \in 0 .. MaxEvents /\ evid <= evid' /\ evid' >= 1
  BY <1>i, AuxNumbers DEF AuxTypeOK
<1>2. Pushed' = Pushed
  <2>1. CASE spc = "idle"
    <3>1. evid' = evid + 1 BY <2>1
    <3>2. Pushed = evid BY <2>1 DEF Pushed
    <3>3. Pushed' = evid' - 1 BY DEF Pushed
    <3> QED BY <1>1, <3>1, <3>2, <3>3
  <2>2. CASE spc # "idle" BY <2>2 DEF Pushed
  <2> QED BY <2>1, <2>2
<1>3. IdInv' /\ DropInv' BY <1>i, <1>2, IdsKept, Zenon
<1>4. AuxTypeOK' BY <1>i, <1>1, Zenon DEF AuxTypeOK, bmmVars, arbiterVars
<1>5. AgeInv' BY <1>i, Zenon DEF AgeInv
<1>6. \A i \in 1 .. Len(aux) : aux[i].first <= evid'
  <2>1. \A i \in 1 .. Len(aux) : aux[i].first \in Nat /\ aux[i].first <= evid
    BY <1>i, BufferTypes, Zenon DEF SourceInv
  <2> QED BY <1>1, <2>1
<1>7. CurrentHasRoom' = CurrentHasRoom BY Zenon DEF CurrentHasRoom
<1>8. SourceInv' BY <1>1, <1>6, <1>7, Zenon DEF SourceInv
<1> QED BY <1>i, <1>3, <1>4, <1>5, <1>8, SlotKept, StringsKept, Zenon DEF AuxInv

(* The types that the steps of the source need. *)
LEMMA SourceTypes ==
    ASSUME AuxInv
    PROVE  /\ AuxTypeOK /\ SourceInv /\ AgeInv /\ IdInv /\ DropInv
           /\ SlotsFresh => SlotInv /\ ReadInv /\ StringInv
           /\ evid \in 0 .. MaxEvents
           /\ (spc # "idle" => evid \in 1 .. MaxEvents /\ Len(shm) < ShmSize)
           /\ scan \in Nat \ {0} /\ rng \in Nat \ {0} /\ rbegin \in 0 .. MaxEvents
           /\ lock \in BOOLEAN /\ Len(age) \in Nat /\ Len(shm) \in Nat
           /\ spc \in {"lock", "end0", "begin", "end"} => scan \in 1 .. Len(age)
<1>1. /\ AuxTypeOK /\ SourceInv /\ AgeInv /\ IdInv /\ DropInv
      /\ SlotsFresh => SlotInv /\ ReadInv /\ StringInv
  BY Zenon DEF AuxInv
<1>2. lock \in BOOLEAN BY <1>1, Zenon DEF AuxTypeOK
<1>3. /\ evid \in 0 .. MaxEvents /\ scan \in Nat \ {0} /\ rng \in Nat \ {0}
      /\ rbegin \in 0 .. MaxEvents
      /\ Len(age) \in Nat /\ Len(shm) \in Nat
  BY <1>1 DEF AuxTypeOK
<1>4. spc # "idle" => evid \in 1 .. MaxEvents /\ Len(shm) < ShmSize
  BY <1>1, <1>3, AuxNumbers DEF SourceInv
<1> QED BY <1>1, <1>2, <1>3, <1>4, Zenon DEF SourceInv

(* start_push. *)
LEMMA StartPushKeeps == ASSUME AuxInv, StartPush PROVE AuxInv'
<1>1. /\ evid < MaxEvents /\ evid' = evid + 1 /\ spc = "idle" /\ Len(shm) < ShmSize
      /\ UNCHANGED <<aux, age, cur, rng, rbegin, shm, bmmVars, buf, arbiterVars, lock>>
      /\ spc' \in {"push", "scan"} /\ (spc' = "push" => CurrentHasRoom)
      /\ scan' = scan \/ scan' = 1
  BY Zenon DEF StartPush
<1>2. evid' \in 1 .. MaxEvents BY <1>1, SourceTypes, AuxNumbers
<1>3. scan' \in Nat \ {0} BY <1>1, SourceTypes
<1>4. ReadInv' BY <1>1 DEF ReadInv
<1>5. /\ spc' # "idle" /\ spc' \notin {"lock", "end0", "begin", "end"}
      /\ spc' \notin {"begin", "end"}
      /\ spc' \in {"idle", "scan", "lock", "end0", "begin", "end", "push"}
  BY <1>1
<1> QED BY <1>1, <1>2, <1>3, <1>4, <1>5, SourceTypes, LookKeepsInv, Zenon

(* The first look at a buffer in the loop of writer_get_aux_buffer. *)
LEMMA LookAtBufferKeeps ==
    ASSUME AuxInv, spc = "scan", scan <= Len(age), spc' = "lock", rng' = 1,
           UNCHANGED <<evid, aux, age, cur, scan, rbegin, shm, bmmVars, buf, arbiterVars, lock>>
    PROVE  AuxInv'
<1>1. scan \in 1 .. Len(age) BY SourceTypes
<1>2. ReadInv' BY DEF ReadInv
<1>3. /\ spc' # "idle" /\ spc' \notin {"begin", "end"} /\ spc # "idle" /\ 1 \in Nat \ {0}
      /\ spc' # "push"
      /\ spc' \in {"idle", "scan", "lock", "end0", "begin", "end", "push"}
  OBVIOUS
<1> QED BY <1>1, <1>2, <1>3, SourceTypes, LookKeepsInv, Zenon

(* drop_ranges_lock in ab_was_dropped. *)
LEMMA LockRangesKeeps == ASSUME AuxInv, LockRanges PROVE AuxInv'
<1>1. /\ spc = "lock" /\ spc' = "end0" /\ lock' = TRUE
      /\ UNCHANGED <<evid, aux, age, cur, scan, rng, rbegin, shm, bmmVars, buf, arbiterVars>>
  BY Zenon DEF LockRanges, Lock
<1>2. ReadInv' BY <1>1 DEF ReadInv
<1>3. /\ spc' # "idle" /\ spc' \notin {"begin", "end"} /\ spc # "idle" /\ spc' # "push"
      /\ spc \in {"lock", "end0", "begin", "end"}
      /\ spc' \in {"idle", "scan", "lock", "end0", "begin", "end", "push"}
  BY <1>1
<1>4. lock' \in BOOLEAN BY <1>1, Zenon
<1> QED BY <1>1, <1>2, <1>3, <1>4, SourceTypes, LookKeepsInv, Zenon

(* ab_was_dropped returns false. *)
LEMMA NotDroppedKeeps == ASSUME AuxInv, NotDropped PROVE AuxInv'
<1>1. /\ spc = "end0" /\ spc' = "scan" /\ lock' = FALSE /\ scan' = scan + 1
      /\ UNCHANGED <<evid, aux, age, cur, rng, rbegin, shm, bmmVars, buf, arbiterVars>>
  BY Zenon DEF NotDropped, Unlock
<1>2. ReadInv' BY <1>1 DEF ReadInv
<1>3. /\ spc' # "idle" /\ spc' \notin {"lock", "end0", "begin", "end"}
      /\ spc' \notin {"begin", "end"}
      /\ spc # "idle" /\ spc' # "push"
      /\ spc' \in {"idle", "scan", "lock", "end0", "begin", "end", "push"}
  BY <1>1
<1>4. lock' \in BOOLEAN BY <1>1, Zenon
<1>5. scan' \in Nat \ {0} BY <1>1, SourceTypes
<1> QED BY <1>1, <1>2, <1>3, <1>4, <1>5, SourceTypes, LookKeepsInv, Zenon

(* The first two reads of a range in ab_was_dropped. *)
LEMMA ReadRangeKeeps == ASSUME AuxInv, ReadRange PROVE AuxInv'
<1> DEFINE r == ranges[rng]
           f == aux[age[scan]].first
<1>1. /\ rng <= RangesNum
      /\ \/ /\ spc = "end0" /\ rbegin' = rbegin
            /\ \/ r.end = 0 /\ rng' = rng + 1 /\ spc' = "end0"
               \/ r.end # 0 /\ rng' = rng /\ spc' = "begin"
         \/ /\ spc = "begin" /\ rbegin' = r.begin
            /\ \/ r.begin <= f /\ spc' = "end" /\ rng' = rng
               \/ spc' = "end0" /\ rng' = rng + 1
      /\ UNCHANGED <<evid, aux, age, cur, scan, shm, bmmVars, buf, arbiterVars, lock>>
  <2>1. /\ rng <= RangesNum
        /\ UNCHANGED <<evid, aux, age, cur, scan, shm, bmmVars, buf, arbiterVars, lock>>
    BY Zenon DEF ReadRange
  <2>2. \/ /\ spc = "end0" /\ rbegin' = rbegin
           /\ IF r.end = 0 THEN rng' = rng + 1 /\ spc' = spc ELSE spc' = "begin" /\ rng' = rng
        \/ /\ spc = "begin" /\ rbegin' = r.begin
           /\ IF r.begin <= f THEN spc' = "end" /\ rng' = rng ELSE spc' = "end0" /\ rng' = rng + 1
    BY Zenon DEF ReadRange
  <2> HIDE DEF r, f
  <2>3. \/ /\ spc = "end0" /\ rbegin' = rbegin
           /\ \/ r.end = 0 /\ rng' = rng + 1 /\ spc' = "end0"
              \/ r.end # 0 /\ rng' = rng /\ spc' = "begin"
        \/ /\ spc = "begin" /\ rbegin' = r.begin
           /\ \/ r.begin <= f /\ spc' = "end" /\ rng' = rng
              \/ spc' = "end0" /\ rng' = rng + 1
    BY <2>2
  <2> QED BY <2>1, <2>3, Zenon
<1>2. rng \in 1 .. RangesNum /\ ranges \in [1 .. RangesNum -> Ranges]
  <2>1. AuxTypeOK /\ rng \in Nat \ {0} BY SourceTypes, Zenon
  <2>2. rng \in 1 .. RangesNum BY <1>1, <2>1, AuxNumbers
  <2> QED BY <2>1, <2>2, Zenon DEF AuxTypeOK
<1>3. r.begin \in 0 .. MaxEvents BY <1>2 DEF Ranges
<1>4. ranges' = ranges BY <1>1 DEF bmmVars
<1>5. SlotsFresh => ReadInv'
  <2> SUFFICES ASSUME SlotsFresh PROVE ReadInv' OBVIOUS
  <2>1. spc = "begin" => r.end # 0 BY SourceTypes DEF ReadInv
  <2>2. spc' \in {"begin", "end"} => ranges'[rng'].end # 0 BY <1>1, <1>4, <2>1
  <2>3. spc' = "end" => rbegin' = ranges'[rng'].begin /\ rbegin' <= aux'[age'[scan']].first
    BY <1>1, <1>4
  <2> QED BY <2>2, <2>3, Zenon DEF ReadInv
<1> HIDE DEF r, f
<1>6. rng' \in Nat \ {0} /\ rbegin' \in 0 .. MaxEvents BY <1>1, <1>3, SourceTypes
<1>7. /\ spc' # "idle" /\ spc # "idle" /\ spc' # "push"
      /\ spc \in {"lock", "end0", "begin", "end"}
      /\ spc' \in {"begin", "end"} => rng' <= RangesNum
      /\ spc' \in {"idle", "scan", "lock", "end0", "begin", "end", "push"}
  BY <1>1
<1> QED BY <1>1, <1>5, <1>6, <1>7, SourceTypes, LookKeepsInv, Zenon

(* The third read, of a range that does not cover the buffer. *)
LEMMA NotThisRangeKeeps ==
    ASSUME AuxInv, spc = "end", spc' = "end0", rng' = rng + 1,
           UNCHANGED <<evid, aux, age, cur, scan, rbegin, shm, bmmVars, buf, arbiterVars, lock>>
    PROVE  AuxInv'
<1>1. rng' \in Nat \ {0} BY SourceTypes
<1>2. ReadInv' BY DEF ReadInv
<1>3. /\ spc' # "idle" /\ spc' \notin {"begin", "end"} /\ spc # "idle" /\ spc' # "push"
      /\ spc \in {"lock", "end0", "begin", "end"}
      /\ spc' \in {"idle", "scan", "lock", "end0", "begin", "end", "push"}
  OBVIOUS
<1> QED BY <1>1, <1>2, <1>3, SourceTypes, LookKeepsInv, Zenon

(* A step of the source that takes another buffer. *)
LEMMA TakeKeepsInv ==
    ASSUME AuxInv, spc # "idle", spc' = "push",
           UNCHANGED <<evid, scan, rng, rbegin, shm, bmmVars, buf, arbiterVars>>, lock' \in BOOLEAN,
           aux' \in Seq(AuxRecords), age' \in Seq(Nat), cur' \in 1 .. Len(aux'),
           aux'[cur'].head = 0, \A i \in 1 .. Len(aux') : aux'[i].first <= evid,
           AgeInv', SlotsFresh => StringInv'
    PROVE  AuxInv'
<1>i. /\ AuxTypeOK /\ SourceInv /\ AgeInv /\ IdInv /\ DropInv
      /\ SlotsFresh => SlotInv /\ ReadInv /\ StringInv
  BY Zenon DEF AuxInv
<1>1. Pushed' = Pushed BY DEF Pushed
<1>2. IdInv' /\ DropInv' BY <1>i, <1>1, IdsKept, Zenon
<1>3. /\ spc' \in {"idle", "scan", "lock", "end0", "begin", "end", "push"}
      /\ spc' \notin {"lock", "end0", "begin", "end"} /\ spc' \notin {"begin", "end"}
      /\ spc' # "end"
  OBVIOUS
<1>4. cur' \in 0 .. Len(aux') /\ cur' # 0
  <2>1. Len(aux') \in Nat OBVIOUS
  <2> QED BY <2>1
<1>5. AuxTypeOK' BY <1>i, <1>3, <1>4, Zenon DEF AuxTypeOK, bmmVars, arbiterVars
<1>6. 0 < AuxSize BY AuxNumbers
<1>7. CurrentHasRoom' BY <1>4, <1>6, Zenon DEF CurrentHasRoom
<1>8. SourceInv' BY <1>i, <1>3, <1>7, Zenon DEF SourceInv
<1>9. ReadInv' BY <1>3, Zenon DEF ReadInv
<1> QED BY <1>i, <1>2, <1>5, <1>8, <1>9, SlotKept, Zenon DEF AuxInv

(* A buffer that is reset, and one more buffer. *)
Reset(s, b) == [s EXCEPT ![b].head = 0, ![b].first = 0, ![b].last = Infinity]

(* A reset buffer holds nothing, and the others stay. *)
LEMMA ResetBuffer ==
    ASSUME NEW s \in Seq(AuxRecords), NEW b \in 1 .. Len(s)
    PROVE  /\ Reset(s, b) \in Seq(AuxRecords) /\ Len(Reset(s, b)) = Len(s)
           /\ Reset(s, b)[b].head = 0 /\ Reset(s, b)[b].first = 0
           /\ \A i \in 1 .. Len(s) : i # b => Reset(s, b)[i] = s[i]
<1> DEFINE r == [s[b] EXCEPT !.head = 0, !.first = 0, !.last = Infinity]
           t == [s EXCEPT ![b] = r]
<1>1. s[b] \in AuxRecords OBVIOUS
<1>2. 0 \in 0 .. AuxSize /\ 0 \in 0 .. MaxEvents /\ Infinity \in 1 .. Infinity BY AuxNumbers
<1>3. r \in AuxRecords /\ r.head = 0 /\ r.first = 0 BY <1>1, <1>2, Zenon DEF AuxRecords
<1>4. Reset(s, b) = t BY <1>1, Zenon DEF AuxRecords, Reset
<1> HIDE DEF r
<1>5. t \in Seq(AuxRecords) /\ Len(t) = Len(s) /\ t[b] = r BY <1>3
<1>6. \A i \in 1 .. Len(s) : i # b => t[i] = s[i] OBVIOUS
<1> QED BY <1>3, <1>4, <1>5, <1>6, Zenon

(* So does a new one (new_aux_buffer). *)
LEMMA AnotherBuffer ==
    ASSUME NEW s \in Seq(AuxRecords)
    PROVE  LET t == Append(s, [head |-> 0, first |-> 0, last |-> Infinity,
                               data |-> [i \in 1 .. AuxSize |-> 0]])
           IN  /\ t \in Seq(AuxRecords) /\ Len(t) = Len(s) + 1 /\ Len(s) \in Nat
               /\ t[Len(s) + 1].head = 0 /\ t[Len(s) + 1].first = 0
               /\ \A i \in 1 .. Len(s) : t[i] = s[i]
<1> DEFINE r == [head |-> 0, first |-> 0, last |-> Infinity, data |-> [i \in 1 .. AuxSize |-> 0]]
<1>1. /\ 0 \in 0 .. AuxSize /\ 0 \in 0 .. MaxEvents /\ Infinity \in 1 .. Infinity
  BY AuxNumbers
<1>2. r \in AuxRecords /\ r.head = 0 /\ r.first = 0 BY <1>1 DEF AuxRecords
<1> HIDE DEF r
<1>3. LET t == Append(s, r)
      IN  /\ t \in Seq(AuxRecords) /\ Len(t) = Len(s) + 1 /\ Len(s) \in Nat
          /\ t[Len(s) + 1] = r /\ \A i \in 1 .. Len(s) : t[i] = s[i]
  BY <1>2
<1> QED BY <1>2, <1>3, Zenon DEF r

(* The strings of the other buffers stay. *)
LEMMA OtherBuffers ==
    ASSUME StringInv, UNCHANGED <<shm, buf>>, Len(aux) \in Nat, Len(aux') \in Nat,
           Len(aux) <= Len(aux'),
           NEW b, \A e \in Live : e.buf # 0 => e.buf # b,
           \A i \in 1 .. Len(aux) : i # b => aux'[i] = aux[i]
    PROVE  StringInv'
<1>1. Live' = Live BY DEF Live
<1>2. ASSUME NEW e \in Live, e.buf # 0 PROVE Kept(e)'
  <2>1. Kept(e) BY Zenon DEF StringInv
  <2>2. e.buf \in 1 .. Len(aux) /\ e.buf # b BY <1>2, <2>1, Zenon DEF Kept
  <2>3. aux'[e.buf] = aux[e.buf] BY <2>2, Zenon
  <2>4. e.buf \in 1 .. Len(aux') BY <2>2
  <2> QED BY <2>1, <2>3, <2>4, Zenon DEF Kept
<1>3. ASSUME NEW e \in Live, e.buf = 0 PROVE Kept(e)' BY <1>3 DEF Kept
<1> QED BY <1>1, <1>2, <1>3, Zenon DEF StringInv

(* No event has its string in a buffer that is new. *)
LEMMA NewAuxKeeps ==
    ASSUME AuxInv, spc # "idle", NewAux, spc' = "push",
           UNCHANGED <<evid, scan, rng, rbegin, shm, bmmVars, buf, arbiterVars, lock>>
    PROVE  AuxInv'
<1> DEFINE n == Len(aux)
<1>i. AuxTypeOK /\ SourceInv /\ AgeInv /\ lock \in BOOLEAN /\ evid \in 0 .. MaxEvents
  BY SourceTypes, Zenon
<1>1. aux \in Seq(AuxRecords) /\ age \in Seq(Nat) /\ n \in Nat /\ Len(age) = n
  BY <1>i DEF AuxTypeOK, AgeInv
<1>2. /\ aux' \in Seq(AuxRecords) /\ Len(aux') = n + 1
      /\ aux'[n + 1].head = 0 /\ aux'[n + 1].first = 0 /\ \A i \in 1 .. n : aux'[i] = aux[i]
  BY <1>1, AnotherBuffer, Zenon DEF NewAux
<1>3. cur' = n + 1 /\ age' = Append(age, n + 1) BY Zenon DEF NewAux
<1>4. \A i \in 1 .. n : age[i] \in 1 .. n BY <1>i, <1>1, Zenon DEF AgeInv
<1>5. \A i, j \in 1 .. n : i # j => age[i] # age[j] BY <1>i, <1>1, Zenon DEF AgeInv
<1>6. \A i \in 1 .. n : aux[i].first <= evid BY <1>i, Zenon DEF SourceInv
<1>9. SlotsFresh => StringInv'
  <2> SUFFICES ASSUME SlotsFresh PROVE StringInv' OBVIOUS
  <2>1. StringInv BY SourceTypes, Zenon
  <2>2. \A e \in Live : e.buf # 0 => e.buf # n + 1
    <3>1. \A e \in Live : e.buf # 0 => e.buf \in 1 .. n BY <2>1, Zenon DEF StringInv, Kept
    <3>2. n + 1 \notin 1 .. n BY <1>1
    <3> QED BY <3>1, <3>2, Zenon
  <2>3. Len(aux) \in Nat /\ Len(aux') \in Nat /\ Len(aux) <= Len(aux') BY <1>1, <1>2
  <2>4. \A i \in 1 .. Len(aux) : i # n + 1 => aux'[i] = aux[i] BY <1>2, Zenon
  <2> QED BY <2>1, <2>2, <2>3, <2>4, OtherBuffers, Zenon
<1> HIDE DEF n
<1>7. /\ age' \in Seq(Nat) /\ Len(age') = n + 1 /\ age'[n + 1] = n + 1
      /\ \A i \in 1 .. n : age'[i] = age[i]
  BY <1>1, <1>3
<1>8. AgeInv'
  <2>1. \A i \in 1 .. n + 1 : i = n + 1 \/ i \in 1 .. n BY <1>1
  <2>2. \A i \in 1 .. n : i \in 1 .. n + 1 /\ i # n + 1 BY <1>1
  <2>3. \A i \in 1 .. n + 1 : age'[i] \in 1 .. n + 1
    <3>1. n + 1 \in 1 .. n + 1 BY <1>1
    <3> QED BY <1>4, <1>7, <2>1, <2>2, <3>1, Zenon
  <2>4. \A i, j \in 1 .. n + 1 : i # j => age'[i] # age'[j]
    <3>1. \A i \in 1 .. n : age'[i] # n + 1 BY <1>4, <1>7, <2>2, Zenon
    <3> QED BY <1>5, <1>7, <2>1, <3>1, Zenon
  <2> QED BY <1>2, <1>3, <1>7, <2>3, <2>4, Zenon DEF AgeInv
<1>10. \A i \in 1 .. Len(aux') : aux'[i].first <= evid
  <2>1. 0 <= evid BY <1>i, AuxNumbers
  <2>2. \A i \in 1 .. n + 1 : i = n + 1 \/ i \in 1 .. n BY <1>1
  <2> QED BY <1>2, <1>6, <2>1, <2>2, Zenon
<1>11. cur' \in 1 .. Len(aux') BY <1>1, <1>2, <1>3
<1>12. aux'[cur'].head = 0 BY <1>2, <1>3, Zenon
<1>13. lock' \in BOOLEAN BY <1>i, Zenon
<1> QED BY <1>2, <1>7, <1>8, <1>9, <1>10, <1>11, <1>12, <1>13, TakeKeepsInv, Zenon

(* A buffer may be reused if no live event has its string in it. *)
LEMMA ReuseAuxKeeps ==
    ASSUME AuxInv, spc # "idle", scan \in 1 .. Len(age), ReuseAux, spc' = "push",
           UNCHANGED <<evid, scan, rng, rbegin, shm, bmmVars, buf, arbiterVars>>, lock' \in BOOLEAN,
           SlotsFresh => \A e \in Live : e.buf # 0 => e.buf # age[scan]
    PROVE  AuxInv'
<1> DEFINE b == age[scan]
           n == Len(aux)
<1>i. AuxTypeOK /\ SourceInv /\ AgeInv /\ evid \in 0 .. MaxEvents BY SourceTypes, Zenon
<1>1. aux \in Seq(AuxRecords) /\ age \in Seq(Nat) /\ n \in Nat /\ Len(age) = n
  BY <1>i, BufferTypes, Zenon DEF AuxTypeOK, AgeInv
<1>2. b \in 1 .. n BY <1>i, <1>1, Zenon DEF AgeInv
<1>3. /\ aux' \in Seq(AuxRecords) /\ Len(aux') = n /\ aux'[b].head = 0 /\ aux'[b].first = 0
      /\ \A i \in 1 .. n : i # b => aux'[i] = aux[i]
  <2>1. aux' = Reset(aux, b) BY DEF ReuseAux, Reset
  <2> HIDE DEF b
  <2>2. /\ Reset(aux, b) \in Seq(AuxRecords) /\ Len(Reset(aux, b)) = n
        /\ Reset(aux, b)[b].head = 0 /\ Reset(aux, b)[b].first = 0
        /\ \A i \in 1 .. n : i # b => Reset(aux, b)[i] = aux[i]
    BY <1>1, <1>2, ResetBuffer, Zenon
  <2> QED BY <2>1, <2>2
<1>4. cur' = b BY Zenon DEF ReuseAux
<1>6. ListsOnce(age, n) BY <1>i, Zenon DEF AgeInv, ListsOnce
<1>7. age' \in Seq(Nat) /\ Len(age') = Len(age) /\ age'[Len(age)] = age[scan] /\ ListsOnce(age', n)
  <2>1. age' = MoveToEnd(age, scan) BY Zenon DEF ReuseAux, MoveToEnd
  <2>2. age \in Seq(Nat) /\ n \in Nat BY <1>1
  <2> HIDE DEF n
  <2>3. /\ MoveToEnd(age, scan) \in Seq(Nat) /\ Len(MoveToEnd(age, scan)) = Len(age)
        /\ MoveToEnd(age, scan)[Len(age)] = age[scan] /\ ListsOnce(MoveToEnd(age, scan), n)
    BY <1>6, <2>2, MovedToEnd, Zenon
  <2> QED BY <2>1, <2>3
<1>8. AgeInv' BY <1>1, <1>3, <1>4, <1>7, Zenon DEF AgeInv, ListsOnce
<1>9. SlotsFresh => StringInv'
  <2> SUFFICES ASSUME SlotsFresh PROVE StringInv' OBVIOUS
  <2>1. StringInv BY SourceTypes, Zenon
  <2>2. Len(aux) \in Nat /\ Len(aux') \in Nat /\ Len(aux) <= Len(aux') BY <1>1, <1>3
  <2>3. \A i \in 1 .. Len(aux) : i # b => aux'[i] = aux[i] BY <1>3, Zenon
  <2>4. \A e \in Live : e.buf # 0 => e.buf # b BY Zenon
  <2> HIDE DEF b, n
  <2> QED BY <2>1, <2>2, <2>3, <2>4, OtherBuffers, Zenon
<1>10. \A i \in 1 .. Len(aux') : aux'[i].first <= evid
  <2>1. 0 <= evid BY <1>i, AuxNumbers
  <2>2. \A i \in 1 .. n : aux[i].first <= evid BY <1>i, Zenon DEF SourceInv
  <2> QED BY <1>3, <2>1, <2>2, Zenon
<1> HIDE DEF b, n
<1> QED BY <1>2, <1>3, <1>4, <1>7, <1>8, <1>9, <1>10, TakeKeepsInv, Zenon

(* The events with a string in a buffer were processed or dropped. *)
LEMMA ScanAuxKeeps == ASSUME AuxInv, ScanAux PROVE AuxInv'
<1> DEFINE b == age[scan]
<1>i. AuxTypeOK /\ SourceInv /\ AgeInv /\ IdInv /\ DropInv /\ lock \in BOOLEAN
  BY SourceTypes, Zenon
<1>t. scan \in Nat \ {0} /\ Len(age) \in Nat BY SourceTypes, Zenon
<1>0. spc = "scan" /\ UNCHANGED <<evid, scan, rbegin, shm, bmmVars, buf, arbiterVars, lock>>
  BY Zenon DEF ScanAux
<1>s. spc # "idle" BY <1>0
<1>l. lock' \in BOOLEAN BY <1>i, <1>0, Zenon
<1>1. CASE scan > Len(age)
  <2>1. NewAux /\ spc' = "push" /\ UNCHANGED rng BY <1>1, Zenon DEF ScanAux
  <2> QED BY <1>0, <1>s, <2>1, NewAuxKeeps, Zenon
<1>2. CASE ~(scan > Len(age)) /\ aux[b].last <= last_processed
  <2>1. ReuseAux /\ spc' = "push" /\ UNCHANGED rng BY <1>2, Zenon DEF ScanAux
  <2>2. scan \in 1 .. Len(age) BY <1>t, <1>2
  <2>3. b \in 1 .. Len(aux) BY <1>i, <2>2, Zenon DEF AgeInv
  <2>4. aux[b].last \in Nat /\ last_processed \in Nat
    <3>1. last_processed \in Nat BY <1>i, AuxNumbers DEF AuxTypeOK
    <3> QED BY <1>i, <2>3, <3>1, BufferTypes, Zenon
  <2>5. ASSUME SlotsFresh, NEW e \in Live, e.buf # 0, e.buf = b PROVE FALSE
    <3>1. e.id \in Nat /\ e.id > last_processed BY <1>i, <2>5, LiveIds, Zenon
    <3>2. StringInv BY <2>5, SourceTypes, Zenon
    <3>3. e.id <= aux[b].last BY <2>5, <3>2, Zenon DEF StringInv, Kept
    <3> HIDE DEF b
    <3> QED BY <1>2, <2>4, <3>1, <3>3
  <2>6. SlotsFresh => \A e \in Live : e.buf # 0 => e.buf # age[scan] BY <2>5, Zenon
  <2> QED BY <1>0, <1>s, <1>l, <2>1, <2>2, <2>6, ReuseAuxKeeps, Zenon
<1>3. CASE ~(scan > Len(age)) /\ ~(aux[b].last <= last_processed)
  <2>1. spc' = "lock" /\ rng' = 1 /\ UNCHANGED <<aux, age, cur>> BY <1>3, Zenon DEF ScanAux
  <2>2. scan <= Len(age) BY <1>t, <1>3
  <2> QED BY <1>0, <2>1, <2>2, LookAtBufferKeeps, Zenon
<1> QED BY <1>1, <1>2, <1>3, Zenon

(* The third read of a range: the buffer is reused or not. *)
LEMMA ReadRangeEndKeeps == ASSUME AuxInv, ReadRangeEnd PROVE AuxInv'
<1> DEFINE b == age[scan]
           r == ranges[rng]
<1>i. AuxTypeOK /\ SourceInv /\ AgeInv /\ IdInv /\ DropInv BY SourceTypes, Zenon
<1>0. spc = "end" /\ UNCHANGED <<evid, scan, rbegin, shm, bmmVars, buf, arbiterVars>>
  BY Zenon DEF ReadRangeEnd
<1>s. spc # "idle" /\ spc \in {"lock", "end0", "begin", "end"} /\ spc \in {"begin", "end"} BY <1>0
<1>t. rng \in 1 .. RangesNum /\ scan \in 1 .. Len(age)
  <2>1. rng \in Nat \ {0} /\ scan \in 1 .. Len(age) /\ rng <= RangesNum
    BY <1>i, <1>s, SourceTypes, Zenon DEF SourceInv
  <2> QED BY <2>1, AuxNumbers
<1>1. CASE r.end >= aux[b].last
  <2>1. ReuseAux /\ lock' = FALSE /\ spc' = "push" /\ UNCHANGED rng
    BY <1>1, Zenon DEF ReadRangeEnd, Unlock
  <2>3. b \in 1 .. Len(aux) BY <1>i, <1>t, Zenon DEF AgeInv
  <2>4. /\ aux[b].last \in Nat /\ aux[b].first \in Nat BY <1>i, <2>3, BufferTypes, Zenon
  <2>5. r.begin \in Nat /\ r.end \in Nat
    <3>1. r \in Ranges BY <1>i, <1>t, Zenon DEF AuxTypeOK
    <3> HIDE DEF r
    <3> QED BY <3>1, AuxNumbers DEF Ranges
  <2>6. ASSUME SlotsFresh, NEW e \in Live, e.buf # 0, e.buf = b PROVE FALSE
    <3>1. e.id \in Nat /\ e.id \notin dropped BY <1>i, <2>6, LiveIds, Zenon
    <3>2. StringInv /\ ReadInv /\ SlotInv BY <2>6, SourceTypes, Zenon
    <3>3. aux[b].first \in 1 .. e.id /\ e.id <= aux[b].last
      BY <2>6, <3>2, Zenon DEF StringInv, Kept
    <3>4. r.begin <= aux[b].first /\ r.end # 0 BY <1>0, <1>s, <3>2, Zenon DEF ReadInv
    <3>5. r.begin .. r.end \subseteq dropped BY <1>t, <3>2, <3>4, Zenon DEF SlotInv
    <3> HIDE DEF b, r
    <3>6. e.id \in r.begin .. r.end BY <1>1, <2>4, <2>5, <3>1, <3>3, <3>4
    <3> QED BY <3>1, <3>5, <3>6, Zenon
  <2>7. SlotsFresh => \A e \in Live : e.buf # 0 => e.buf # age[scan] BY <2>6, Zenon
  <2>8. lock' \in BOOLEAN BY <2>1, Zenon
  <2> QED BY <1>0, <1>s, <1>t, <2>1, <2>7, <2>8, ReuseAuxKeeps, Zenon
<1>2. CASE ~(r.end >= aux[b].last)
  <2>1. spc' = "end0" /\ rng' = rng + 1 /\ UNCHANGED <<aux, age, cur, lock>>
    BY <1>2, Zenon DEF ReadRangeEnd
  <2> QED BY <1>0, <2>1, NotThisRangeKeeps, Zenon
<1> QED BY <1>1, <1>2, Zenon

(* One more string in the buffer c. *)
WithString(s, c, id) ==
    [s EXCEPT ![c].data[s[c].head + 1] = id, ![c].head = s[c].head + 1,
              ![c].first = IF @ = 0 THEN id ELSE @, ![c].last = id]

(* Copying a string changes one place of one buffer. *)
LEMMA StringWritten ==
    ASSUME NEW s \in Seq(AuxRecords), NEW c \in 1 .. Len(s), NEW id \in 1 .. MaxEvents,
           s[c].head < AuxSize
    PROVE  LET t == WithString(s, c, id)
               off == s[c].head + 1
           IN  /\ t \in Seq(AuxRecords) /\ Len(t) = Len(s)
               /\ \A i \in 1 .. Len(s) : i # c => t[i] = s[i]
               /\ t[c].head = off /\ t[c].last = id /\ t[c].data[off] = id
               /\ s[c].first = 0 => t[c].first = id
               /\ s[c].first # 0 => t[c].first = s[c].first
               /\ \A j \in 1 .. s[c].head : t[c].data[j] = s[c].data[j]
<1> DEFINE o == s[c]
           off == o.head + 1
           d == [o.data EXCEPT ![off] = id]
           f == IF o.first = 0 THEN id ELSE o.first
           r == [head |-> off, first |-> f, last |-> id, data |-> d]
           t == [s EXCEPT ![c] = r]
<1>1. o \in AuxRecords OBVIOUS
<1>2. /\ o.head \in 0 .. AuxSize /\ o.first \in 0 .. MaxEvents
      /\ o.data \in [1 .. AuxSize -> 0 .. MaxEvents]
  BY <1>1, Zenon DEF AuxRecords
<1>3. off \in 1 .. AuxSize /\ id \in 0 .. MaxEvents /\ id \in 1 .. Infinity /\ off \in 0 .. AuxSize
  BY <1>2, AuxNumbers DEF Infinity
<1>4. /\ d \in [1 .. AuxSize -> 0 .. MaxEvents] /\ d[off] = id
      /\ \A j \in 1 .. o.head : d[j] = o.data[j]
  <2>1. \A j \in 1 .. o.head : j # off /\ j \in 1 .. AuxSize BY SMTT(30), <1>2, <1>3, AuxNumbers
  <2> HIDE DEF off, o
  <2> QED BY <1>2, <1>3, <2>1, Zenon
<1>5. f \in 0 .. MaxEvents BY <1>2, <1>3
<1>6. r \in AuxRecords
  <2> HIDE DEF off, d, f, o
  <2> QED BY <1>3, <1>4, <1>5 DEF AuxRecords
<1>7. WithString(s, c, id) = t
  <2> DEFINE o1 == [o EXCEPT !.data = d]
             o2 == [o1 EXCEPT !.head = off]
             o3 == [o2 EXCEPT !.first = f]
             o4 == [o3 EXCEPT !.last = id]
             t1 == [s EXCEPT ![c].data[off] = id]
             t2 == [t1 EXCEPT ![c].head = off]
             t3 == [t2 EXCEPT ![c].first = IF @ = 0 THEN id ELSE @]
             t4 == [t3 EXCEPT ![c].last = id]
  <2>1. WithString(s, c, id) = t4 BY ZenonT(30) DEF WithString
  <2>2. t1 = [s EXCEPT ![c] = o1] OBVIOUS
  <2>3. o1.first = o.first /\ o2.first = o.first BY <1>1 DEF AuxRecords
  <2>4. o4 = r
    <3> HIDE DEF d, off, f, o
    <3>1. o = [head |-> o.head, first |-> o.first, last |-> o.last, data |-> o.data]
      BY <1>1 DEF AuxRecords
    <3>2. o1 = [head |-> o.head, first |-> o.first, last |-> o.last, data |-> d] BY <3>1
    <3> HIDE DEF o1
    <3>3. o2 = [head |-> off, first |-> o.first, last |-> o.last, data |-> d] BY <3>2
    <3> HIDE DEF o2
    <3>4. o3 = [head |-> off, first |-> f, last |-> o.last, data |-> d] BY <3>3
    <3> HIDE DEF o3
    <3> QED BY <3>4
  <2> HIDE DEF t1, o1, d, off
  <2>5. t1[c] = o1 BY <2>2
  <2>6. t2 = [s EXCEPT ![c] = o2] BY <2>2, <2>5, Zenon
  <2> HIDE DEF t2, o2, o
  <2>7. t2[c] = o2 BY <2>6
  <2>8. t3 = [s EXCEPT ![c] = o3] BY <2>3, <2>6, <2>7, Zenon
  <2> HIDE DEF t3, o3, f
  <2>9. t3[c] = o3 BY <2>8
  <2>10. t4 = [s EXCEPT ![c] = o4] BY <2>8, <2>9, Zenon
  <2> HIDE DEF t4, o4, r
  <2> QED BY <2>1, <2>4, <2>10
<1>8. /\ t \in Seq(AuxRecords) /\ Len(t) = Len(s) /\ t[c] = r
      /\ \A i \in 1 .. Len(s) : i # c => t[i] = s[i]
  <2> HIDE DEF r
  <2> QED BY <1>6
<1> HIDE DEF t, d, f
<1> QED BY <1>4, <1>7, <1>8 DEF f

(* A sequence with one element more, and one without its first element. *)
LEMMA Appended ==
    ASSUME NEW s \in Seq(Strings), NEW e \in Strings
    PROVE  /\ Append(s, e) \in Seq(Strings) /\ Len(Append(s, e)) = Len(s) + 1 /\ Len(s) \in Nat
           /\ Append(s, e)[Len(s) + 1] = e /\ Append(s, e) # << >>
           /\ \A i \in 1 .. Len(s) : Append(s, e)[i] = s[i]
           /\ \A i \in 1 .. Len(s) + 1 : i \in 1 .. Len(s) \/ i = Len(s) + 1
           /\ DOMAIN s = 1 .. Len(s) /\ DOMAIN Append(s, e) = 1 .. Len(s) + 1
<1>1. Len(s) \in Nat /\ DOMAIN s = 1 .. Len(s) OBVIOUS
<1>2. Append(s, e) \in Seq(Strings) /\ Len(Append(s, e)) = Len(s) + 1 OBVIOUS
<1>3. Append(s, e)[Len(s) + 1] = e /\ \A i \in 1 .. Len(s) : Append(s, e)[i] = s[i] OBVIOUS
<1>4. \A i \in 1 .. Len(s) + 1 : i \in 1 .. Len(s) \/ i = Len(s) + 1 BY <1>1
<1>5. Append(s, e) # << >> BY <1>1, <1>2
<1> QED BY <1>1, <1>2, <1>3, <1>4, <1>5

(* Removing the first event. *)
LEMMA Shortened ==
    ASSUME NEW s \in Seq(Strings), s # << >>
    PROVE  /\ Head(s) = s[1] /\ Head(s) \in Strings /\ Len(s) \in Nat /\ Len(s) >= 1
           /\ Tail(s) \in Seq(Strings) /\ Len(Tail(s)) = Len(s) - 1
           /\ \A i \in 1 .. (Len(s) - 1) : i + 1 \in 1 .. Len(s) /\ Tail(s)[i] = s[i + 1]
           /\ 1 \in 1 .. Len(s) /\ DOMAIN s = 1 .. Len(s) /\ DOMAIN Tail(s) = 1 .. (Len(s) - 1)
OBVIOUS

(* The events in the two buffers after an element was appended or removed. *)
LEMMA RangeAppended ==
    ASSUME NEW s \in Seq(Strings), NEW e \in Strings
    PROVE  \A x \in Range(Append(s, e)) : x = e \/ x \in Range(s)
<1> DEFINE t == Append(s, e)
<1>1. /\ t[Len(s) + 1] = e /\ \A i \in 1 .. Len(s) : t[i] = s[i]
      /\ \A i \in 1 .. Len(s) + 1 : i \in 1 .. Len(s) \/ i = Len(s) + 1
      /\ DOMAIN s = 1 .. Len(s) /\ DOMAIN t = 1 .. Len(s) + 1
  BY Appended, Zenon
<1> HIDE DEF t
<1>2. ASSUME NEW x \in Range(t) PROVE x = e \/ x \in Range(s)
  <2>1. PICK i \in DOMAIN t : x = t[i] BY DEF Range
  <2> QED BY <1>1, <2>1 DEF Range
<1> QED BY <1>2 DEF t

(* Removing an event adds none. *)
LEMMA RangeShortened ==
    ASSUME NEW s \in Seq(Strings), s # << >>
    PROVE  Range(Tail(s)) \subseteq Range(s) /\ Head(s) \in Range(s)
<1> DEFINE t == Tail(s)
<1>1. /\ \A i \in 1 .. (Len(s) - 1) : i + 1 \in 1 .. Len(s) /\ t[i] = s[i + 1]
      /\ DOMAIN s = 1 .. Len(s) /\ DOMAIN t = 1 .. (Len(s) - 1) /\ Head(s) = s[1]
      /\ 1 \in 1 .. Len(s)
  BY Shortened, Zenon
<1> HIDE DEF t
<1>2. ASSUME NEW x \in Range(t) PROVE x \in Range(s)
  <2>1. PICK i \in DOMAIN t : x = t[i] BY DEF Range
  <2> QED BY <1>1, <2>1 DEF Range
<1>3. Head(s) \in Range(s) BY <1>1 DEF Range
<1> QED BY <1>2, <1>3 DEF t

(* The string that is written keeps the ones before it. *)
LEMMA PushKeepsStrings ==
    ASSUME AuxTypeOK, SourceInv, IdInv, DropInv, StringInv,
           NEW n \in Strings, n.id = evid, n.buf = cur, n.off = aux[cur].head + 1,
           cur \in 1 .. Len(aux), evid \in 1 .. MaxEvents, Pushed = evid - 1,
           aux' = WithString(aux, cur, evid), aux[cur].head < AuxSize, buf' = buf,
           shm' = Append(shm, n)
    PROVE  StringInv'
<1> DEFINE off == n.off
           c == n.buf
           w == WithString(aux, c, evid)
<1>1. /\ Len(w) = Len(aux)
      /\ \A i \in 1 .. Len(aux) : i # c => w[i] = aux[i]
      /\ w[c].head = off /\ w[c].last = evid /\ w[c].data[off] = evid
      /\ aux[c].first = 0 => w[c].first = evid
      /\ aux[c].first # 0 => w[c].first = aux[c].first
      /\ \A j \in 1 .. aux[c].head : w[c].data[j] = aux[c].data[j]
  <2>1. aux \in Seq(AuxRecords) BY DEF AuxTypeOK
  <2>2. c \in 1 .. Len(aux) /\ aux[c].head < AuxSize /\ off = aux[c].head + 1 BY Zenon
  <2> HIDE DEF c, off
  <2>3. /\ Len(w) = Len(aux)
        /\ \A i \in 1 .. Len(aux) : i # c => w[i] = aux[i]
        /\ w[c].head = aux[c].head + 1 /\ w[c].last = evid /\ w[c].data[aux[c].head + 1] = evid
        /\ aux[c].first = 0 => w[c].first = evid
        /\ aux[c].first # 0 => w[c].first = aux[c].first
        /\ \A j \in 1 .. aux[c].head : w[c].data[j] = aux[c].data[j]
    BY <2>1, <2>2, StringWritten
  <2> HIDE DEF w
  <2>4. w[c].head = off BY <2>2, <2>3, Zenon
  <2>5. w[c].data[off] = evid BY <2>2, <2>3, Zenon
  <2> QED BY <2>3, <2>4, <2>5, Zenon
<1>2. c \in 1 .. Len(aux) /\ off = aux[c].head + 1 /\ aux' = w OBVIOUS
<1>3. aux[c].first \in Nat /\ aux[c].first <= evid /\ aux[c].head \in Nat
  BY <1>2, BufferTypes, Zenon DEF SourceInv
<1>4. ASSUME NEW e \in Live' PROVE e = n \/ e \in Live
  <2>1. shm \in Seq(Strings) BY DEF AuxTypeOK
  <2>2. e \in Range(Append(shm, n)) \/ e \in Range(buf) BY DEF Live
  <2> QED BY <2>1, <2>2, RangeAppended, Zenon DEF Live
<1> HIDE DEF w
<1>5. Kept(n)'
  <2>2. off \in 1 .. off BY <1>2, <1>3
  <2>3. w[c].first \in 1 .. evid BY <1>1, <1>3
  <2>4. evid <= evid OBVIOUS
  <2>6. /\ n.buf \in 1 .. Len(w) /\ n.off \in 1 .. w[n.buf].head
        /\ w[n.buf].first \in 1 .. n.id /\ n.id <= w[n.buf].last
        /\ w[n.buf].data[n.off] = n.id
    BY <1>1, <1>2, <2>2, <2>3, <2>4
  <2> QED BY <1>2, <2>6 DEF Kept
<1>6. ASSUME NEW e \in Live PROVE Kept(e)'
  <2>1. CASE e.buf = 0 BY <2>1 DEF Kept
  <2>2. CASE e.buf # 0
    <3>1. /\ e.buf \in 1 .. Len(aux) /\ e.off \in 1 .. aux[e.buf].head
          /\ aux[e.buf].first \in 1 .. e.id /\ e.id <= aux[e.buf].last
          /\ aux[e.buf].data[e.off] = e.id
      BY <2>2, Zenon DEF StringInv, Kept
    <3>2. CASE e.buf # c
      <4>1. aux'[e.buf] = aux[e.buf] /\ Len(aux') = Len(aux) BY <1>1, <1>2, <3>1, <3>2, Zenon
      <4> QED BY <3>1, <4>1, Zenon DEF Kept
    <3>3. CASE e.buf = c
      <4>1. e.id \in Nat /\ e.id <= Pushed BY <2>2, LiveIds, Zenon
      <4>2. e.id <= evid BY <4>1
      <4>3. e.off \in 1 .. off BY <1>2, <1>3, <3>1, <3>3
      <4>4. w[c].first \in 1 .. e.id BY <1>1, <3>1, <3>3, <4>1
      <4>5. w[c].data[e.off] = e.id BY <1>1, <3>1, <3>3, Zenon
      <4>6. /\ e.buf \in 1 .. Len(w) /\ e.off \in 1 .. w[e.buf].head
            /\ w[e.buf].first \in 1 .. e.id /\ e.id <= w[e.buf].last
            /\ w[e.buf].data[e.off] = e.id
        BY <1>1, <1>2, <3>3, <4>2, <4>3, <4>4, <4>5
      <4> QED BY <1>2, <4>6 DEF Kept
    <3> QED BY <3>2, <3>3
  <2> QED BY <2>1, <2>2
<1> QED BY <1>4, <1>5, <1>6, Zenon DEF StringInv

(* The event that is pushed has the next id. *)
LEMMA PushKeepsIds ==
    ASSUME AuxTypeOK, SourceInv, IdInv, DropInv, spc # "idle", spc' = "idle", evid' = evid,
           NEW n \in Strings, n.id = evid, shm' = Append(shm, n),
           UNCHANGED <<bmmVars, buf, arbiterVars>>
    PROVE  IdInv' /\ DropInv'
<1>1. Pushed = evid - 1 /\ Pushed' = evid BY DEF Pushed
<1>2. evid \in Nat BY AuxNumbers DEF AuxTypeOK
<1>3. /\ Pushed \in Nat /\ Gone \in Nat /\ Len(shm) \in Nat /\ Pushed = Gone + Len(shm)
  BY GoneType, AuxNumbers
<1>4. shm \in Seq(Strings) BY DEF AuxTypeOK
<1>5. /\ Len(shm') = Len(shm) + 1 /\ shm'[Len(shm) + 1] = n /\ shm' # << >>
      /\ \A i \in 1 .. Len(shm) : shm'[i] = shm[i]
      /\ \A i \in 1 .. Len(shm) + 1 : i \in 1 .. Len(shm) \/ i = Len(shm) + 1
  BY <1>4, Appended, Zenon
<1>6. Gone' = Gone
  <2>1. Gone' = Pushed' - Len(shm') BY DEF Gone
  <2> QED BY <1>1, <1>2, <1>3, <1>5, <2>1
<1>7. IdInv'
  <2>1. Len(shm') <= Pushed' BY <1>1, <1>2, <1>3, <1>5
  <2>2. \A i \in 1 .. Len(shm) : shm[i].id = Gone + i BY Zenon DEF IdInv
  <2>3. n.id = Gone + (Len(shm) + 1) BY <1>1, <1>2, <1>3
  <2>4. \A i \in 1 .. Len(shm') : shm'[i].id = Gone' + i
    <3> SUFFICES ASSUME NEW i \in 1 .. Len(shm) + 1 PROVE shm'[i].id = Gone + i BY <1>5, <1>6
    <3>1. CASE i \in 1 .. Len(shm) BY <1>5, <2>2, <3>1, Zenon
    <3>2. CASE i = Len(shm) + 1 BY <1>5, <2>3, <3>2, Zenon
    <3> QED BY <1>5, <3>1, <3>2, Zenon
  <2> QED BY <1>6, <2>1, <2>4, Zenon DEF IdInv, bmmVars, arbiterVars
<1>8. DropInv' BY <1>5, <1>6, Zenon DEF DropInv, bmmVars
<1> QED BY <1>7, <1>8

(* partial_push_str copies the string and finish_push publishes it. *)
LEMMA PushStringKeeps == ASSUME AuxInv, PushString PROVE AuxInv'
<1> DEFINE off == aux[cur].head + 1
           n == [id |-> evid, buf |-> cur, off |-> off]
<1>i. /\ AuxTypeOK /\ SourceInv /\ AgeInv /\ IdInv /\ DropInv
      /\ SlotsFresh => SlotInv /\ ReadInv /\ StringInv
  BY Zenon DEF AuxInv
<1>1. /\ spc = "push" /\ spc' = "idle"
      /\ UNCHANGED <<evid, age, cur, scan, rng, rbegin, bmmVars, buf, arbiterVars, lock>>
      /\ shm' = Append(shm, n)
  BY Zenon DEF PushString
<1>2. aux' = WithString(aux, cur, evid) BY DEF PushString, WithString
<1>3. spc # "idle" BY <1>1
<1>4. evid \in 1 .. MaxEvents /\ Len(shm) < ShmSize BY <1>3, SourceTypes, Zenon
<1>5. cur # 0 /\ aux[cur].head < AuxSize BY <1>i, <1>1, Zenon DEF SourceInv, CurrentHasRoom
<1>6. cur \in 1 .. Len(aux) /\ cur \in Nat /\ Len(aux) \in Nat /\ Len(shm) \in Nat
  BY <1>i, <1>5 DEF AuxTypeOK
<1>7. aux[cur].head \in Nat BY <1>i, <1>6, BufferTypes, Zenon
<1>8. n \in Strings /\ n.id = evid /\ n.buf = cur /\ n.off = off
  <2>1. off \in Nat BY <1>7
  <2> HIDE DEF off
  <2> QED BY <1>4, <1>6, <2>1, AuxNumbers DEF Strings
<1>9. aux \in Seq(AuxRecords) /\ shm \in Seq(Strings) BY <1>i, Zenon DEF AuxTypeOK
<1> DEFINE w == WithString(aux, cur, evid)
<1>10. /\ w \in Seq(AuxRecords) /\ Len(w) = Len(aux)
       /\ \A i \in 1 .. Len(aux) : i # cur => w[i] = aux[i]
       /\ aux[cur].first = 0 => w[cur].first = evid
       /\ aux[cur].first # 0 => w[cur].first = aux[cur].first
  BY <1>4, <1>5, <1>6, <1>9, StringWritten
<1> HIDE DEF w, n
<1>11. aux' = w BY <1>2 DEF w
<1>12. /\ shm' \in Seq(Strings) /\ Len(shm') <= ShmSize
  <2>1. shm' \in Seq(Strings) /\ Len(shm') = Len(shm) + 1 BY <1>1, <1>8, <1>9, Appended
  <2> QED BY SMTT(30), <1>4, <1>6, <2>1, AuxNumbers
<1>13. AuxTypeOK'
  <2>1. aux' \in Seq(AuxRecords) /\ Len(aux') = Len(aux) BY <1>10, <1>11
  <2>2. spc' \in {"idle", "scan", "lock", "end0", "begin", "end", "push"} BY <1>1
  <2> QED BY <1>i, <1>1, <1>12, <2>1, <2>2, Zenon DEF AuxTypeOK, bmmVars, arbiterVars
<1>14. SourceInv'
  <2>1. \A i \in 1 .. Len(aux) : aux[i].first <= evid BY <1>i, Zenon DEF SourceInv
  <2>2. evid <= evid BY <1>4
  <2>3. \A i \in 1 .. Len(w) : w[i].first <= evid BY <1>6, <1>10, <2>1, <2>2, Zenon
  <2>4. /\ spc' \notin {"lock", "end0", "begin", "end"} /\ spc' \notin {"begin", "end"}
        /\ spc' # "push"
    BY <1>1
  <2>5. \A i \in 1 .. Len(aux') : aux'[i].first <= evid' BY <1>1, <1>11, <2>3
  <2> QED BY <1>1, <2>4, <2>5, Zenon DEF SourceInv
<1>15. AgeInv'
  <2>1. UNCHANGED <<age, cur>> /\ Len(aux') = Len(aux) BY <1>1, <1>10, <1>11
  <2> QED BY <1>i, <2>1, Zenon DEF AgeInv
<1>16. IdInv' /\ DropInv' BY <1>i, <1>1, <1>3, <1>8, PushKeepsIds, Zenon
<1>17. ReadInv' BY <1>1 DEF ReadInv
<1>18. SlotsFresh => StringInv'
  <2>1. Pushed = evid - 1 BY <1>3, Zenon DEF Pushed
  <2>2. buf' = buf BY <1>1
  <2> QED BY <1>i, <1>1, <1>2, <1>4, <1>5, <1>6, <1>8, <2>1, <2>2, PushKeepsStrings, Zenon
<1>19. UNCHANGED bmmVars BY <1>1
<1> QED BY <1>i, <1>13, <1>14, <1>15, <1>16, <1>17, <1>18, <1>19, SlotKept, Zenon DEF AuxInv

-----------------------------------------------------------------------------
(* The steps of the buffer manager. *)

(* What the steps of the others leave of the source. *)
LEMMA SourceFrame ==
    ASSUME AuxTypeOK, SourceInv, AgeInv, UNCHANGED sourceVars,
           Len(shm') \in Nat, Len(shm') <= Len(shm)
    PROVE  SourceInv' /\ AgeInv' /\ Pushed' = Pushed
<1>1. UNCHANGED <<evid, aux, age, cur, spc, scan, rng, rbegin>> BY DEF sourceVars
<1>2. Len(shm) \in Nat /\ ShmSize \in Nat BY SeqTypes, AuxNumbers, Zenon
<1>3. spc # "idle" => evid >= 1 /\ Len(shm') < ShmSize BY <1>2 DEF SourceInv
<1>4. SourceInv' BY <1>1, <1>3, Zenon DEF SourceInv, CurrentHasRoom
<1>5. AgeInv' BY <1>1, Zenon DEF AgeInv
<1>6. Pushed' = Pushed BY <1>1, Zenon DEF Pushed
<1> QED BY <1>4, <1>5, <1>6, Zenon

(* Strings are kept when no event is added but holes. *)
LEMMA StringsOfLive ==
    ASSUME StringInv, aux' = aux, \A e \in Live' : e \in Live \/ e.buf = 0
    PROVE  StringInv'
<1> SUFFICES ASSUME NEW e \in Live' PROVE Kept(e)' BY Zenon DEF StringInv
<1>1. CASE e \in Live BY <1>1, Zenon DEF StringInv, Kept
<1>2. CASE e.buf = 0 BY <1>2, Zenon DEF Kept
<1> QED BY <1>1, <1>2, Zenon

(* What the source has read stays right while the ranges do. *)
LEMMA ReadKept ==
    ASSUME ReadInv, UNCHANGED <<sourceVars, ranges>>
    PROVE  ReadInv'
BY Zenon DEF ReadInv, sourceVars

(* The event that is taken from the shared memory is the next one. *)
LEMMA HeadTaken ==
    ASSUME AuxTypeOK, SourceInv, IdInv, DropInv, shm # << >>
    PROVE  /\ Head(shm) \in Strings /\ Head(shm) \in Live /\ Head(shm).id = Gone + 1
           /\ Gone \in Nat /\ Gone + 1 \in 1 .. MaxEvents
           /\ Tail(shm) \in Seq(Strings) /\ Len(Tail(shm)) = Len(shm) - 1
           /\ Len(Tail(shm)) \in Nat /\ Len(Tail(shm)) <= Len(shm) /\ Len(Tail(shm)) <= ShmSize
           /\ Len(Tail(shm)) <= Pushed /\ Pushed - Len(Tail(shm)) = Gone + 1
           /\ \A i \in 1 .. Len(Tail(shm)) : Tail(shm)[i].id = (Gone + 1) + i
           /\ Range(Tail(shm)) \subseteq Range(shm)
<1>1. shm \in Seq(Strings) /\ Len(shm) <= ShmSize BY Zenon DEF AuxTypeOK
<1>2. /\ Head(shm) = shm[1] /\ Head(shm) \in Strings /\ Len(shm) \in Nat /\ Len(shm) >= 1
      /\ Tail(shm) \in Seq(Strings) /\ Len(Tail(shm)) = Len(shm) - 1 /\ 1 \in 1 .. Len(shm)
      /\ \A i \in 1 .. (Len(shm) - 1) : i + 1 \in 1 .. Len(shm) /\ Tail(shm)[i] = shm[i + 1]
  BY <1>1, Shortened, Zenon
<1>3. Range(Tail(shm)) \subseteq Range(shm) /\ Head(shm) \in Live
  BY <1>1, RangeShortened, Zenon DEF Live
<1>4. /\ Pushed \in 0 .. MaxEvents /\ Gone \in 0 .. MaxEvents /\ Pushed = Gone + Len(shm)
  BY GoneType, Zenon
<1>5. \A i \in 1 .. Len(shm) : shm[i].id = Gone + i BY Zenon DEF IdInv
<1>6. Head(shm).id = Gone + 1 BY <1>2, <1>5, Zenon
<1> DEFINE g == Gone
           m == Len(shm)
           t == Tail(shm)
           p == Pushed
<1>7. /\ g \in Nat /\ m \in Nat /\ m >= 1 /\ p = g + m /\ p \in 0 .. MaxEvents /\ Len(t) = m - 1
      /\ m <= ShmSize
  BY <1>1, <1>2, <1>4, AuxNumbers
<1>8. ASSUME NEW i \in 1 .. Len(t) PROVE t[i].id = (g + 1) + i
  <2>1. i \in 1 .. (m - 1) BY <1>7
  <2>2. t[i].id = g + (i + 1) BY <1>2, <1>5, <2>1, Zenon
  <2> HIDE DEF g, t
  <2> QED BY <1>7, <2>1, <2>2
<1> HIDE DEF g, m, t, p
<1>9. /\ g + 1 \in 1 .. MaxEvents /\ Len(t) \in Nat /\ Len(t) <= m /\ Len(t) <= ShmSize
      /\ Len(t) <= p /\ p - Len(t) = g + 1
  BY <1>7, AuxNumbers
<1> QED BY <1>2, <1>3, <1>6, <1>7, <1>8, <1>9, Zenon DEF g, m, t, p

(* The counts of the events after one was taken. *)
LEMMA TakenKeeps ==
    ASSUME AuxInv, shm # << >>, shm' = Tail(shm), UNCHANGED sourceVars
    PROVE  /\ SourceInv' /\ AgeInv' /\ Gone' = Gone + 1 /\ Gone \in Nat
           /\ Len(shm') <= Pushed' /\ \A i \in 1 .. Len(shm') : shm'[i].id = Gone' + i
           /\ shm' \in Seq(Strings) /\ Len(shm') <= ShmSize
<1>i. AuxTypeOK /\ SourceInv /\ AgeInv /\ IdInv /\ DropInv BY Zenon DEF AuxInv
<1>1. /\ shm' \in Seq(Strings) /\ Len(shm') \in Nat /\ Len(shm') <= Len(shm) /\ Len(shm') <= ShmSize
      /\ Len(shm') <= Pushed /\ Pushed - Len(shm') = Gone + 1 /\ Gone \in Nat
      /\ \A i \in 1 .. Len(shm') : shm'[i].id = (Gone + 1) + i
  BY <1>i, HeadTaken
<1>2. SourceInv' /\ AgeInv' /\ Pushed' = Pushed BY <1>i, <1>1, SourceFrame, Zenon
<1>3. Gone' = Gone + 1
  <2>1. Gone' = Pushed' - Len(shm') BY DEF Gone
  <2> QED BY <1>1, <1>2, <2>1, Zenon
<1>4. Len(shm') <= Pushed' BY <1>1, <1>2, Zenon
<1> QED BY <1>1, <1>2, <1>3, <1>4, Zenon

(* The arbiter's events when one is appended that is not before them. *)
BufIds(b, g, l, d) ==
    /\ \A i \in 1 .. Len(b) :
          /\ l <= b[i].id /\ b[i].id <= g
          /\ b[i].buf # 0 => l < b[i].id /\ b[i].id \notin d
    /\ \A i, j \in 1 .. Len(b) : i < j =>
          b[i].id <= b[j].id /\ (b[j].buf # 0 => b[i].id < b[j].id)

(* Appending a later event keeps the ids in order. *)
LEMMA BufAppended ==
    ASSUME NEW b \in Seq(Strings), NEW e \in Strings, NEW g \in Nat, NEW l \in Nat, NEW d,
           BufIds(b, g, l, d), l <= g, g <= e.id,
           e.buf # 0 => g < e.id /\ e.id \notin d
    PROVE  BufIds(Append(b, e), e.id, l, d)
<1> DEFINE t == Append(b, e)
           m == Len(b)
<1>1. /\ Len(t) = m + 1 /\ m \in Nat /\ t[m + 1] = e /\ \A i \in 1 .. m : t[i] = b[i]
      /\ \A i \in 1 .. m + 1 : i \in 1 .. m \/ i = m + 1
  BY Appended, Zenon
<1>2. e.id \in Nat /\ \A i \in 1 .. m : b[i].id \in Nat
  <2>1. \A i \in 1 .. m : b[i] \in Strings OBVIOUS
  <2> QED BY <2>1, StringTypes, Zenon
<1>3. /\ \A i \in 1 .. m : /\ l <= b[i].id /\ b[i].id <= g
                           /\ b[i].buf # 0 => l < b[i].id /\ b[i].id \notin d
      /\ \A i, j \in 1 .. m : i < j => b[i].id <= b[j].id /\ (b[j].buf # 0 => b[i].id < b[j].id)
  BY Zenon DEF BufIds
<1> HIDE DEF t, m
<1>4. ASSUME NEW i \in 1 .. m + 1
      PROVE  /\ l <= t[i].id /\ t[i].id <= e.id
             /\ t[i].buf # 0 => l < t[i].id /\ t[i].id \notin d
  <2>1. CASE i \in 1 .. m
    <3>1. t[i] = b[i] BY <1>1, <2>1
    <3>2. /\ l <= b[i].id /\ b[i].id <= g /\ b[i].id \in Nat
          /\ b[i].buf # 0 => l < b[i].id /\ b[i].id \notin d
      BY <1>2, <1>3, <2>1, Zenon
    <3>3. b[i].id <= e.id BY <1>2, <3>2
    <3> QED BY <3>1, <3>2, <3>3, Zenon
  <2>2. CASE i = m + 1
    <3>1. t[i] = e BY <1>1, <2>2
    <3>2. l <= e.id /\ e.id <= e.id /\ (e.buf # 0 => l < e.id /\ e.id \notin d) BY <1>2
    <3> QED BY <3>1, <3>2, Zenon
  <2> QED BY <1>1, <2>1, <2>2
<1>5. ASSUME NEW i \in 1 .. m + 1, NEW j \in 1 .. m + 1, i < j
      PROVE  t[i].id <= t[j].id /\ (t[j].buf # 0 => t[i].id < t[j].id)
  <2>1. i \in 1 .. m BY <1>1, <1>5
  <2>2. t[i] = b[i] /\ b[i].id <= g /\ b[i].id \in Nat BY <1>1, <1>2, <1>3, <2>1, Zenon
  <2>3. CASE j \in 1 .. m
    <3>1. t[j] = b[j] BY <1>1, <2>3
    <3> QED BY <1>3, <1>5, <2>1, <2>2, <2>3, <3>1, Zenon
  <2>4. CASE j = m + 1
    <3>1. t[j] = e BY <1>1, <2>4
    <3>2. b[i].id <= e.id /\ (e.buf # 0 => b[i].id < e.id) BY SMTT(30), <1>2, <2>2
    <3> QED BY <2>2, <3>1, <3>2, Zenon
  <2> QED BY <1>1, <2>3, <2>4
<1> QED BY <1>1, <1>4, <1>5, Zenon DEF BufIds, t, m

(* An event that is forwarded. *)
LEMMA ForwardKeeps ==
    ASSUME AuxInv, bpc = "get", shm # << >>, dropped_num = 0, BufCapacity - Len(buf) > 0,
           buf' = Append(buf, Head(shm)), UNCHANGED bmmVars, shm' = Tail(shm),
           UNCHANGED <<sourceVars, arbiterVars, lock>>
    PROVE  AuxInv'
<1> DEFINE e == Head(shm)
           g == Gone
<1>i. /\ AuxTypeOK /\ SourceInv /\ AgeInv /\ IdInv /\ DropInv
      /\ SlotsFresh => SlotInv /\ ReadInv /\ StringInv
  BY Zenon DEF AuxInv
<1>1. /\ SourceInv' /\ AgeInv' /\ Gone' = g + 1 /\ g \in Nat
      /\ Len(shm') <= Pushed' /\ \A i \in 1 .. Len(shm') : shm'[i].id = Gone' + i
      /\ shm' \in Seq(Strings) /\ Len(shm') <= ShmSize
  BY TakenKeeps, Zenon
<1>2. /\ e \in Strings /\ e \in Live /\ e.id = g + 1 /\ Range(shm') \subseteq Range(shm)
  BY <1>i, HeadTaken, Zenon
<1>3. /\ buf \in Seq(Strings) /\ Len(buf) \in Nat /\ last_id \in Nat
  BY <1>i, AuxNumbers DEF AuxTypeOK
<1>4. /\ buf' \in Seq(Strings) /\ Len(buf') = Len(buf) + 1
  <2> HIDE DEF e
  <2> QED BY <1>2, <1>3, Appended DEF e
<1>5. Len(buf') <= BufCapacity BY <1>3, <1>4, AuxNumbers
<1>6. AuxTypeOK'
  BY <1>i, <1>1, <1>4, <1>5, Zenon DEF AuxTypeOK, sourceVars, bmmVars, arbiterVars
<1>7. last_processed <= last_id /\ last_id <= g /\ BufIds(buf, g, last_id, dropped)
  BY <1>i, Zenon DEF IdInv, BufIds
<1>8. g < e.id /\ g <= e.id /\ e.id \notin dropped /\ last_id <= e.id
  <2>1. dropped \subseteq 1 .. g BY <1>i, Zenon DEF DropInv
  <2>2. g < e.id /\ g <= e.id /\ e.id \notin 1 .. g /\ last_id <= e.id BY <1>1, <1>2, <1>3, <1>7
  <2> QED BY <2>1, <2>2, Zenon
<1>9. IdInv'
  <2> HIDE DEF e, g
  <2>1. BufIds(Append(buf, e), e.id, last_id, dropped)
    BY <1>1, <1>2, <1>3, <1>7, <1>8, BufAppended, Zenon
  <2>2. BufIds(buf', Gone', last_id, dropped) BY <1>1, <1>2, <2>1 DEF e
  <2>3. last_id' = last_id /\ last_processed' = last_processed /\ dropped' = dropped
    BY DEF arbiterVars, bmmVars
  <2>4. last_id <= Gone' BY <1>1, <1>2, <1>8
  <2>5. BufIds(buf', Gone', last_id', dropped') BY <2>2, <2>3
  <2> QED BY <1>1, <1>7, <2>3, <2>4, <2>5, Zenon DEF IdInv, BufIds
<1>10. DropInv'
  <2>1. UNCHANGED <<bpc, drop_begin_id, dropped_num, ranges, ranges_next, dropped>> BY DEF bmmVars
  <2>2. ranges[ranges_next] \in Ranges BY <1>i, Zenon DEF AuxTypeOK
  <2>3. ranges[ranges_next].end \in Nat BY <2>2, AuxNumbers DEF Ranges
  <2>4. ranges[ranges_next].begin <= ranges[ranges_next].end /\ ranges[ranges_next].end <= g
    BY <1>i DEF DropInv
  <2>5. ranges[ranges_next].end <= Gone' BY <1>1, <2>3, <2>4
  <2>6. dropped \subseteq 1 .. Gone'
    <3>1. dropped \subseteq 1 .. g BY <1>i, Zenon DEF DropInv
    <3>2. \A i \in 1 .. g : i \in 1 .. Gone' BY <1>1
    <3> QED BY <3>1, <3>2, Zenon
  <2>7. ~(dropped_num > 0) /\ bpc \notin {"setend", "unlock"} /\ bpc # "unlock" OBVIOUS
  <2> QED BY <2>1, <2>4, <2>5, <2>6, <2>7, Zenon DEF DropInv
<1>11. ranges' = ranges BY DEF bmmVars
<1>12. aux' = aux BY DEF sourceVars
<1>13. \A x \in Live' : x \in Live \/ x.buf = 0
  <2> HIDE DEF e
  <2>1. \A x \in Range(buf') : x = e \/ x \in Range(buf) BY <1>2, <1>3, RangeAppended DEF e
  <2> QED BY <1>2, <2>1, Zenon DEF Live
<1> QED BY <1>i, <1>1, <1>6, <1>9, <1>10, <1>11, <1>12, <1>13, SlotKept, ReadKept,
         StringsOfLive, Zenon
    DEF AuxInv

(* An event that is dropped, at once or after the notification. *)
LEMMA DropKeeps ==
    ASSUME AuxInv, bpc \in {"get", "unlock"}, bpc' = "get", shm # << >>,
           dropped_num' \in Nat, dropped_num' > 0,
           drop_begin_id' = IF dropped_num = 0 THEN Head(shm).id ELSE drop_begin_id,
           dropped' = dropped \cup {Head(shm).id}, UNCHANGED <<ranges, ranges_next, buf>>,
           shm' = Tail(shm), UNCHANGED <<sourceVars, arbiterVars>>,
           lock' \in BOOLEAN, periodic' \in BOOLEAN
    PROVE  AuxInv'
<1> DEFINE e == Head(shm)
           g == Gone
<1>i. /\ AuxTypeOK /\ SourceInv /\ AgeInv /\ IdInv /\ DropInv
      /\ SlotsFresh => SlotInv /\ ReadInv /\ StringInv
  BY Zenon DEF AuxInv
<1>1. /\ SourceInv' /\ AgeInv' /\ Gone' = g + 1 /\ g \in Nat
      /\ Len(shm') <= Pushed' /\ \A i \in 1 .. Len(shm') : shm'[i].id = Gone' + i
      /\ shm' \in Seq(Strings) /\ Len(shm') <= ShmSize
  BY TakenKeeps, Zenon
<1>2. /\ e.id = g + 1 /\ g + 1 \in 1 .. MaxEvents /\ Range(shm') \subseteq Range(shm)
  BY <1>i, HeadTaken, Zenon
<1>3. /\ buf \in Seq(Strings) /\ last_id \in Nat /\ dropped_num \in Nat
      /\ drop_begin_id \in 0 .. MaxEvents
      /\ dropped \subseteq 1 .. MaxEvents
  BY <1>i, AuxNumbers DEF AuxTypeOK
<1>4. bpc' \in {"get", "slot", "setbegin", "setend", "unlock"} OBVIOUS
<1>5. drop_begin_id' = IF dropped_num = 0 THEN g + 1 ELSE drop_begin_id BY <1>2
<1>6. dropped' = dropped \cup {g + 1} BY <1>2
<1>7. AuxTypeOK'
  <2>1. drop_begin_id' \in 0 .. MaxEvents BY <1>2, <1>3, <1>5
  <2>2. dropped' \subseteq 1 .. MaxEvents BY <1>2, <1>3, <1>6, Zenon
  <2> QED BY <1>i, <1>1, <1>4, <2>1, <2>2, Zenon DEF AuxTypeOK, sourceVars, arbiterVars
<1>8. IdInv'
  <2>1. \A i \in 1 .. Len(buf) : buf[i].id \in Nat BY <1>i, SeqTypes, StringTypes, Zenon
  <2>2. \A i \in 1 .. Len(buf) : buf[i].id <= g BY <1>i, Zenon DEF IdInv
  <2>3. \A i \in 1 .. Len(buf) : buf[i].id <= Gone' /\ buf[i].id # g + 1
    <3> HIDE DEF g
    <3> QED BY <1>1, <2>1, <2>2
  <2>4. last_id <= Gone'
    <3>1. last_id <= g BY <1>i, Zenon DEF IdInv
    <3> HIDE DEF g
    <3> QED BY <1>1, <1>3, <3>1
  <2>5. UNCHANGED <<last_id, last_processed, buf>> BY DEF arbiterVars
  <2> QED BY <1>i, <1>1, <1>6, <2>3, <2>4, <2>5, Zenon DEF IdInv
<1>9. DropInv'
  <2> DEFINE r == ranges[ranges_next]
  <2>1. r \in Ranges BY <1>i, Zenon DEF AuxTypeOK
  <2>2. r.begin \in Nat /\ r.end \in Nat
    <3> HIDE DEF r
    <3> QED BY <2>1, AuxNumbers DEF Ranges
  <2>3. /\ r.begin <= r.end /\ r.end <= g
        /\ dropped_num > 0 => r.end < drop_begin_id \/ r.begin = drop_begin_id
    <3>1. CASE bpc = "get" BY <1>i, <3>1 DEF DropInv
    <3>2. CASE bpc = "unlock"
      <4>1. r.begin = drop_begin_id /\ r.end = g /\ drop_begin_id <= g BY <1>i, <3>2 DEF DropInv
      <4> HIDE DEF r, g
      <4> QED BY <1>1, <2>2, <4>1
    <3> QED BY <3>1, <3>2
  <2>4. dropped \subseteq 1 .. g BY <1>i, Zenon DEF DropInv
  <2>5. dropped_num > 0 => /\ drop_begin_id >= 1 /\ drop_begin_id <= g
                           /\ drop_begin_id .. g \subseteq dropped
    BY <1>i, Zenon DEF DropInv
  <2>6. r' = r OBVIOUS
  <2> HIDE DEF r, g
  <2>7. dropped' \subseteq 1 .. Gone'
    <3>1. \A x \in 1 .. g : x \in 1 .. Gone' BY <1>1
    <3>2. g + 1 \in 1 .. Gone' BY <1>1
    <3> QED BY <1>6, <2>4, <3>1, <3>2, Zenon
  <2>8. r.end <= Gone' BY <1>1, <2>2, <2>3
  <2>9. /\ drop_begin_id' >= 1 /\ drop_begin_id' <= Gone'
        /\ r.end < drop_begin_id' \/ r.begin = drop_begin_id'
        /\ drop_begin_id' .. Gone' \subseteq dropped'
    <3>1. CASE dropped_num = 0
      <4>1. drop_begin_id' = g + 1 BY <1>5, <3>1
      <4>2. drop_begin_id' .. Gone' \subseteq {g + 1} BY <1>1, <4>1
      <4> QED BY <1>1, <1>6, <2>2, <2>3, <4>1, <4>2
    <3>2. CASE dropped_num # 0
      <4>1. drop_begin_id' = drop_begin_id /\ dropped_num > 0 /\ drop_begin_id \in Nat
        BY <1>3, <1>5, <3>2, AuxNumbers
      <4>2. drop_begin_id .. (g + 1) \subseteq (drop_begin_id .. g) \cup {g + 1} BY <1>1, <4>1
      <4>3. drop_begin_id .. (g + 1) \subseteq dropped' BY <1>6, <2>5, <4>1, <4>2, Zenon
      <4>4. /\ drop_begin_id >= 1 /\ drop_begin_id <= g + 1
            /\ r.end < drop_begin_id \/ r.begin = drop_begin_id
        BY <1>1, <2>3, <2>5, <4>1
      <4> QED BY <1>1, <4>1, <4>3, <4>4, Zenon
    <3> QED BY <3>1, <3>2
  <2>10. bpc' = "get" /\ bpc' \notin {"setend", "unlock"} /\ bpc' # "unlock" OBVIOUS
  <2> QED BY <2>3, <2>6, <2>7, <2>8, <2>9, <2>10, Zenon DEF DropInv, r
<1>10. ranges' = ranges /\ aux' = aux BY DEF sourceVars
<1>11. SlotsFresh' = SlotsFresh /\ (SlotInv => SlotInv')
  <2>1. \A x \in dropped : x \in dropped' BY <1>6
  <2>2. UNCHANGED <<ranges, ranges_next>> /\ bpc # "setbegin" /\ bpc' # "setbegin" OBVIOUS
  <2> QED BY <2>1, <2>2, Zenon DEF SlotsFresh, SlotInv
<1>12. \A x \in Live' : x \in Live \/ x.buf = 0
  <2>1. Range(buf') = Range(buf) OBVIOUS
  <2> QED BY <1>2, <2>1, Zenon DEF Live
<1> QED BY <1>i, <1>1, <1>7, <1>8, <1>9, <1>10, <1>11, <1>12, ReadKept, StringsOfLive, Zenon
    DEF AuxInv

(* The steps that leave the shared memory alone: what they keep. *)
LEMMA ShmKept ==
    ASSUME AuxInv, UNCHANGED <<sourceVars, shm>>
    PROVE  /\ SourceInv' /\ AgeInv' /\ Pushed' = Pushed /\ Gone' = Gone /\ aux' = aux
           /\ AuxTypeOK /\ SourceInv /\ IdInv /\ DropInv /\ Gone \in 0 .. MaxEvents /\ Gone \in Nat
           /\ SlotsFresh => SlotInv /\ ReadInv /\ StringInv
<1>i. /\ AuxTypeOK /\ SourceInv /\ AgeInv /\ IdInv /\ DropInv
      /\ SlotsFresh => SlotInv /\ ReadInv /\ StringInv
  BY Zenon DEF AuxInv
<1>1. Len(shm') \in Nat /\ Len(shm') <= Len(shm)
  <2>1. Len(shm) \in Nat BY <1>i, SeqTypes, Zenon
  <2> QED BY <2>1
<1>2. SourceInv' /\ AgeInv' /\ Pushed' = Pushed BY <1>i, <1>1, SourceFrame, Zenon
<1>3. Gone' = Gone BY <1>2 DEF Gone
<1>4. aux' = aux BY DEF sourceVars
<1>5. Gone \in 0 .. MaxEvents BY <1>i, GoneType, Zenon
<1>6. Gone \in Nat BY <1>5, AuxNumbers
<1> QED BY <1>i, <1>2, <1>3, <1>4, <1>5, <1>6, Zenon

(* The event that stands for the dropped ones. *)
LEMMA PushHoleKeeps == ASSUME AuxInv, PushHole PROVE AuxInv'
<1> DEFINE h == [id |-> Head(shm).id - 1, buf |-> 0, off |-> 0]
           g == Gone
<1>1. /\ bpc = "get" /\ shm # << >> /\ dropped_num > 0 /\ BufCapacity - Len(buf) > 1
      /\ buf' = Append(buf, h) /\ bpc' = "slot" /\ UNCHANGED <<sourceVars, shm>>
      /\ UNCHANGED <<drop_begin_id, dropped_num, periodic, ranges, ranges_next, dropped,
                     arbiterVars, lock>>
  BY Zenon DEF PushHole
<1>2. /\ SourceInv' /\ AgeInv' /\ Pushed' = Pushed /\ Gone' = g /\ aux' = aux
      /\ AuxTypeOK /\ SourceInv /\ IdInv /\ DropInv /\ g \in 0 .. MaxEvents /\ g \in Nat
      /\ SlotsFresh => SlotInv /\ ReadInv /\ StringInv
  BY <1>1, ShmKept, Zenon
<1>3. h \in Strings /\ h.id = g /\ h.buf = 0
  <2>1. Head(shm).id = g + 1 BY <1>1, <1>2, HeadTaken, Zenon
  <2>2. Head(shm).id - 1 = g
    <3> HIDE DEF g
    <3> QED BY <1>2, <2>1
  <2>3. h = [id |-> g, buf |-> 0, off |-> 0] BY <2>2
  <2> HIDE DEF g, h
  <2> QED BY <1>2, <2>3 DEF Strings
<1>4. /\ buf \in Seq(Strings) /\ Len(buf) \in Nat /\ last_id \in Nat
  BY SMTT(30), <1>2, AuxNumbers DEF AuxTypeOK
<1> HIDE DEF h, g
<1>5. buf' \in Seq(Strings) /\ Len(buf') = Len(buf) + 1 BY <1>1, <1>3, <1>4, Appended
<1>6. Len(buf') <= BufCapacity BY <1>1, <1>4, <1>5, AuxNumbers
<1>7. bpc' \in {"get", "slot", "setbegin", "setend", "unlock"} BY <1>1
<1>8. AuxTypeOK' BY <1>1, <1>2, <1>5, <1>6, <1>7, Zenon DEF AuxTypeOK, sourceVars, arbiterVars
<1>9. IdInv'
  <2>1. last_processed <= last_id /\ last_id <= g /\ BufIds(buf, g, last_id, dropped)
    BY <1>2, Zenon DEF IdInv, BufIds, g
  <2>2. g <= h.id /\ ~(h.buf # 0) BY <1>2, <1>3
  <2>3. BufIds(Append(buf, h), h.id, last_id, dropped)
    BY <1>2, <1>3, <1>4, <2>1, <2>2, BufAppended, Zenon
  <2>4. BufIds(buf', Gone', last_id', dropped')
    <3>1. UNCHANGED <<last_id, dropped>> BY <1>1 DEF arbiterVars
    <3> QED BY <1>1, <1>2, <1>3, <2>3, <3>1
  <2>5. UNCHANGED <<shm, last_id, last_processed>> BY <1>1 DEF arbiterVars
  <2> QED BY <1>2, <2>4, <2>5, Zenon DEF IdInv, BufIds, g
<1>10. DropInv'
  <2>1. /\ bpc' \in {"get", "slot"} /\ bpc \in {"get", "slot"}
        /\ bpc' \notin {"setend", "unlock"} /\ bpc' # "unlock"
    BY <1>1
  <2>2. UNCHANGED <<shm, drop_begin_id, dropped_num, ranges, ranges_next, dropped>> BY <1>1
  <2> QED BY <1>1, <1>2, <2>1, <2>2, Zenon DEF DropInv, g
<1>11. SlotsFresh' = SlotsFresh /\ (SlotInv => SlotInv')
  <2>1. bpc # "setbegin" /\ bpc' # "setbegin" BY <1>1
  <2>2. UNCHANGED <<ranges, ranges_next, dropped>> BY <1>1
  <2> QED BY <2>1, <2>2, Zenon DEF SlotsFresh, SlotInv
<1>12. \A x \in Live' : x \in Live \/ x.buf = 0
  <2>1. \A x \in Range(buf') : x = h \/ x \in Range(buf) BY <1>1, <1>3, <1>4, RangeAppended
  <2>2. shm' = shm BY <1>1
  <2> QED BY <1>3, <2>1, <2>2, Zenon DEF Live
<1>13. UNCHANGED <<sourceVars, ranges>> BY <1>1
<1> QED BY <1>2, <1>8, <1>9, <1>10, <1>11, <1>12, <1>13, ReadKept, StringsOfLive, Zenon
    DEF AuxInv

(* The steps that note the range. *)
LEMMA RangeStepKeeps ==
    ASSUME AuxInv, UNCHANGED <<sourceVars, shm, drop_begin_id, dropped, buf, arbiterVars>>,
           bpc' \in {"get", "slot", "setbegin", "setend", "unlock"}, dropped_num' \in Nat,
           ranges' \in [1 .. RangesNum -> Ranges], ranges_next' \in 1 .. RangesNum,
           lock' \in BOOLEAN, periodic' \in BOOLEAN, DropInv',
           SlotsFresh' => SlotsFresh /\ SlotInv' /\ ReadInv'
    PROVE  AuxInv'
<1>1. UNCHANGED <<sourceVars, shm>> /\ buf' = buf /\ dropped' = dropped
      /\ UNCHANGED <<cpc, last_id, last_processed>>
  BY Zenon DEF arbiterVars
<1>2. /\ SourceInv' /\ AgeInv' /\ Pushed' = Pushed /\ Gone' = Gone /\ aux' = aux
      /\ AuxTypeOK /\ IdInv /\ (SlotsFresh => SlotInv /\ ReadInv /\ StringInv)
  BY <1>1, ShmKept, Zenon
<1>3. AuxTypeOK' BY <1>1, <1>2, Zenon DEF AuxTypeOK, sourceVars
<1>4. IdInv' BY <1>1, <1>2, Zenon DEF IdInv
<1>5. StringInv => StringInv'
  <2>1. UNCHANGED <<aux, shm, buf>> BY <1>1, <1>2
  <2> QED BY <2>1, StringsKept, Zenon
<1> QED BY <1>2, <1>3, <1>4, <1>5, Zenon DEF AuxInv

(* The types that these steps need. *)
LEMMA SlotTypes ==
    ASSUME AuxInv
    PROVE  LET r == ranges[ranges_next]
           IN  /\ AuxTypeOK /\ SourceInv /\ IdInv /\ DropInv
               /\ SlotsFresh => SlotInv /\ ReadInv /\ StringInv
               /\ r \in Ranges /\ r.begin \in Nat /\ r.end \in Nat
               /\ ranges \in [1 .. RangesNum -> Ranges] /\ ranges_next \in 1 .. RangesNum
               /\ drop_begin_id \in 0 .. MaxEvents /\ drop_begin_id \in Nat /\ dropped_num \in Nat
               /\ periodic \in BOOLEAN
               /\ Gone \in 0 .. MaxEvents /\ Gone \in Nat /\ lock \in BOOLEAN
<1> DEFINE r == ranges[ranges_next]
<1>i. /\ AuxTypeOK /\ SourceInv /\ IdInv /\ DropInv
      /\ SlotsFresh => SlotInv /\ ReadInv /\ StringInv
  BY Zenon DEF AuxInv
<1>1. /\ ranges \in [1 .. RangesNum -> Ranges] /\ ranges_next \in 1 .. RangesNum
      /\ drop_begin_id \in 0 .. MaxEvents /\ dropped_num \in Nat /\ lock \in BOOLEAN
      /\ periodic \in BOOLEAN
  BY <1>i, Zenon DEF AuxTypeOK
<1>2. r \in Ranges BY <1>1
<1>3. drop_begin_id \in Nat BY <1>1, AuxNumbers
<1>4. Gone \in 0 .. MaxEvents BY <1>i, GoneType, Zenon
<1>5. Gone \in Nat BY <1>4, AuxNumbers
<1> HIDE DEF r
<1>6. r.begin \in Nat /\ r.end \in Nat BY <1>2, AuxNumbers DEF Ranges
<1> QED BY <1>i, <1>1, <1>2, <1>3, <1>4, <1>5, <1>6, Zenon DEF r

(* In the middle of a drop, the range that ends with the last event taken  *)
(* is noted.                                                               *)
LEMMA NotifyDropKeeps == ASSUME AuxInv, NotifyDrop PROVE AuxInv'
<1>t. /\ AuxTypeOK /\ DropInv /\ (SlotsFresh => SlotInv /\ ReadInv /\ StringInv)
      /\ ranges \in [1 .. RangesNum -> Ranges] /\ ranges_next \in 1 .. RangesNum
      /\ dropped_num \in Nat /\ lock \in BOOLEAN
  BY SlotTypes, Zenon
<1>1. /\ bpc = "get" /\ bpc' = "slot" /\ shm # << >> /\ dropped_num > 0
      /\ dropped_num' = dropped_num + 1 /\ periodic' = TRUE
      /\ UNCHANGED <<sourceVars, shm, drop_begin_id, ranges, ranges_next, dropped, buf,
                     arbiterVars, lock>>
  BY Zenon DEF NotifyDrop, TimeToNotify
<1>2. dropped_num' \in Nat /\ dropped_num' > 0 BY <1>t, <1>1
<1>3. DropInv'
  <2>1. /\ bpc \in {"get", "slot"} /\ bpc' \notin {"setend", "unlock"} /\ bpc' # "unlock"
    BY <1>1
  <2>2. Gone' = Gone BY <1>1, ShmKept, Zenon
  <2>3. UNCHANGED <<shm, drop_begin_id, ranges, ranges_next, dropped>> BY <1>1
  <2> QED BY <1>t, <1>1, <1>2, <2>1, <2>2, <2>3, Zenon DEF DropInv
<1>4. SlotsFresh' = SlotsFresh /\ (SlotInv => SlotInv')
  <2>1. bpc # "setbegin" /\ bpc' # "setbegin" BY <1>1
  <2>2. UNCHANGED <<ranges, ranges_next, dropped>> BY <1>1
  <2> QED BY <2>1, <2>2, Zenon DEF SlotsFresh, SlotInv
<1>5. ReadInv => ReadInv'
  <2>1. UNCHANGED <<sourceVars, ranges>> BY <1>1
  <2> QED BY <2>1, ReadKept, Zenon
<1>6. bpc' \in {"get", "slot", "setbegin", "setend", "unlock"} BY <1>1
<1>7. periodic' \in BOOLEAN /\ lock' \in BOOLEAN BY <1>t, <1>1, Zenon
<1>8. ranges' = ranges /\ ranges_next' = ranges_next
      /\ UNCHANGED <<sourceVars, shm, drop_begin_id, dropped, buf, arbiterVars>>
  BY <1>1, Zenon
<1> QED BY <1>t, <1>2, <1>3, <1>4, <1>5, <1>6, <1>7, <1>8, RangeStepKeeps, Zenon

(* The range in the current slot is the first part of this drop, or the    *)
(* drop starts behind it; then the next slot is free unless all were used. *)
LEMMA ChooseSlotKeeps == ASSUME AuxInv, ChooseSlot PROVE AuxInv'
<1> DEFINE r == ranges[ranges_next]
<1>t. /\ AuxTypeOK /\ SourceInv /\ IdInv /\ DropInv
      /\ SlotsFresh => SlotInv /\ ReadInv /\ StringInv
      /\ r.begin \in Nat /\ r.end \in Nat /\ ranges \in [1 .. RangesNum -> Ranges]
      /\ ranges_next \in 1 .. RangesNum /\ drop_begin_id \in Nat /\ dropped_num \in Nat
      /\ periodic \in BOOLEAN
  BY SlotTypes, Zenon
<1>1. /\ bpc = "slot" /\ lock' = TRUE
      /\ UNCHANGED <<sourceVars, shm, drop_begin_id, dropped_num, periodic, ranges, dropped,
                     buf, arbiterVars>>
  BY Zenon DEF ChooseSlot, Lock
<1>2. shm # << >> /\ dropped_num > 0 BY <1>t, <1>1 DEF DropInv
<1>3. r.begin <= r.end /\ (r.end < drop_begin_id \/ r.begin = drop_begin_id)
  BY <1>t, <1>1, <1>2 DEF DropInv
<1>4. SameRange <=> r.begin = drop_begin_id
  <2>1. r.end # r.begin - 1
    <3> HIDE DEF r
    <3> QED BY <1>t, <1>3
  <2> QED BY <2>1, Zenon DEF SameRange
<1>5. \/ SameRange /\ bpc' = "setend" /\ ranges_next' = ranges_next
      \/ bpc' = "setbegin" /\ ranges_next' = NextSlot
  BY Zenon DEF ChooseSlot
<1>6. NextSlot \in 1 .. RangesNum /\ (NextSlot = 1 \/ NextSlot = ranges_next + 1)
  BY <1>t, AuxNumbers DEF NextSlot
<1>7. DropInv'
  <2>1. bpc' \notin {"get", "slot"} /\ bpc' # "unlock" BY <1>5
  <2>2. Gone' = Gone BY <1>1, ShmKept, Zenon
  <2>3. UNCHANGED <<shm, drop_begin_id, dropped_num, ranges, dropped>> BY <1>1
  <2>4. bpc' \in {"setend", "unlock"} => ranges[ranges_next'].begin = drop_begin_id
    BY <1>4, <1>5
  <2> QED BY <1>t, <1>2, <2>1, <2>2, <2>3, <2>4, Zenon DEF DropInv
<1>8. SlotsFresh' = SlotsFresh BY <1>1 DEF SlotsFresh
<1>9. ASSUME SlotsFresh PROVE SlotInv'
  <2>1. SlotInv BY <1>t, <1>9, Zenon
  <2>2. \A s \in 1 .. RangesNum : s > ranges_next => ranges[s] = Empty
    <3>1. bpc # "setbegin" BY <1>1
    <3> QED BY <2>1, <3>1, Zenon DEF SlotInv
  <2>3. ranges[1] = Empty BY <1>9, Zenon DEF SlotsFresh, Empty
  <2>4. ranges[NextSlot] = Empty
    <3>1. NextSlot = 1 \/ NextSlot > ranges_next BY <1>t, <1>6
    <3> QED BY <1>6, <2>2, <2>3, <3>1, Zenon
  <2>5. \A s \in 1 .. RangesNum : s > NextSlot /\ NextSlot # 1 => ranges[s] = Empty
    <3>1. \A s \in 1 .. RangesNum : s > NextSlot /\ NextSlot # 1 => s > ranges_next BY <1>t, <1>6
    <3> QED BY <2>2, <3>1, Zenon
  <2>6. /\ \A s \in 1 .. RangesNum :
              ranges[s].end # 0 => ranges[s].begin .. ranges[s].end \subseteq dropped
    BY <2>1, Zenon DEF SlotInv
  <2>7. UNCHANGED <<ranges, dropped>> BY <1>1
  <2>8. CASE bpc' = "setend" /\ ranges_next' = ranges_next
    <3>1. bpc' # "setbegin" BY <2>8
    <3> QED BY <2>2, <2>6, <2>7, <2>8, <3>1, Zenon DEF SlotInv
  <2>9. CASE bpc' = "setbegin" /\ ranges_next' = NextSlot
    BY <2>4, <2>5, <2>6, <2>7, <2>9, Zenon DEF SlotInv
  <2> QED BY <1>5, <2>8, <2>9, Zenon
<1>10. ReadInv => ReadInv'
  <2>1. UNCHANGED <<sourceVars, ranges>> BY <1>1
  <2> QED BY <2>1, ReadKept, Zenon
<1>11. bpc' \in {"get", "slot", "setbegin", "setend", "unlock"} BY <1>5
<1>12. lock' \in BOOLEAN BY <1>1, Zenon
<1>13. ranges' = ranges /\ dropped_num' = dropped_num /\ periodic' = periodic
       /\ ranges_next' \in 1 .. RangesNum
       /\ UNCHANGED <<sourceVars, shm, drop_begin_id, dropped, buf, arbiterVars>>
  BY <1>t, <1>1, <1>5, <1>6, Zenon
<1> QED BY <1>t, <1>7, <1>8, <1>9, <1>10, <1>11, <1>12, <1>13, RangeStepKeeps, Zenon

(* buffer_notify_dropped writes the begin of a range ... *)
LEMMA SetBeginKeeps == ASSUME AuxInv, SetBegin PROVE AuxInv'
<1> DEFINE n == ranges_next
           r == ranges[n]
<1>t. /\ AuxTypeOK /\ SourceInv /\ IdInv /\ DropInv
      /\ SlotsFresh => SlotInv /\ ReadInv /\ StringInv
      /\ r \in Ranges /\ ranges \in [1 .. RangesNum -> Ranges]
      /\ n \in 1 .. RangesNum /\ drop_begin_id \in 0 .. MaxEvents /\ dropped_num \in Nat
      /\ periodic \in BOOLEAN
      /\ lock \in BOOLEAN
  BY SlotTypes, Zenon
<1>1. /\ bpc = "setbegin" /\ bpc' = "setend"
      /\ UNCHANGED <<sourceVars, shm, drop_begin_id, dropped_num, periodic, ranges_next,
                     dropped, buf, arbiterVars, lock>>
      /\ ranges' = [ranges EXCEPT ![n].begin = drop_begin_id]
  BY Zenon DEF SetBegin
<1>2. /\ \A s \in 1 .. RangesNum : s # n => ranges'[s] = ranges[s]
      /\ ranges' \in [1 .. RangesNum -> Ranges]
      /\ ranges'[n].begin = drop_begin_id /\ ranges'[n].end = r.end
  BY <1>t, <1>1 DEF Ranges
<1>3. shm # << >> /\ dropped_num > 0 /\ drop_begin_id >= 1 BY <1>t, <1>1 DEF DropInv
<1>4. DropInv'
  <2>1. bpc' \notin {"get", "slot"} /\ bpc' # "unlock" BY <1>1
  <2>2. Gone' = Gone BY <1>1, ShmKept, Zenon
  <2>3. UNCHANGED <<shm, drop_begin_id, dropped_num, ranges_next, dropped>> BY <1>1
  <2> QED BY <1>t, <1>2, <1>3, <2>1, <2>2, <2>3, Zenon DEF DropInv
<1>5. ASSUME SlotsFresh' PROVE SlotsFresh /\ SlotInv' /\ ReadInv'
  <2>1. n # 1
    <3>1. ranges'[1].begin = 0 BY <1>5 DEF SlotsFresh
    <3> QED BY <1>2, <1>3, <3>1
  <2>2. 1 \in 1 .. RangesNum BY AuxNumbers
  <2>3. ranges'[1] = ranges[1] BY <1>2, <2>1, <2>2, Zenon
  <2>4. SlotsFresh BY <1>5, <2>3, Zenon DEF SlotsFresh
  <2>5. SlotInv /\ ReadInv BY <1>t, <2>4, Zenon
  <2>6. r = Empty BY <1>1, <2>5, Zenon DEF SlotInv
  <2>7. r.end = 0 BY <2>6 DEF Empty
  <2>8. \A s \in 1 .. RangesNum :
           ranges[s].end # 0 => ranges[s].begin .. ranges[s].end \subseteq dropped
    BY <2>5, Zenon DEF SlotInv
  <2>9. \A s \in 1 .. RangesNum : s > n => s # n /\ ranges[s] = Empty
    <3>1. \A s \in 1 .. RangesNum : s > n => s # n BY <1>t
    <3> QED BY <2>1, <2>5, <3>1, Zenon DEF SlotInv
  <2>10. SlotInv'
    <3>1. \A s \in 1 .. RangesNum :
             ranges'[s].end # 0 => ranges'[s].begin .. ranges'[s].end \subseteq dropped'
      BY <1>1, <1>2, <2>7, <2>8
    <3>2. \A s \in 1 .. RangesNum : s > n => ranges'[s] = Empty BY <1>2, <2>9, Zenon
    <3>3. bpc' # "setbegin" /\ ranges_next' = n BY <1>1
    <3> QED BY <1>2, <2>7, <3>1, <3>2, <3>3, Zenon DEF SlotInv
  <2>11. ReadInv'
    <3>1. UNCHANGED <<aux, age, spc, scan, rng, rbegin>> BY <1>1 DEF sourceVars
    <3>2. spc \in {"begin", "end"} => rng \in 1 .. RangesNum /\ rng # n
      <4>1. rng \in Nat \ {0} BY <1>t, Zenon DEF AuxTypeOK
      <4>2. spc \in {"begin", "end"} => rng <= RangesNum BY <1>t, Zenon DEF SourceInv
      <4>3. spc \in {"begin", "end"} => rng # n BY <2>5, <2>7, Zenon DEF ReadInv
      <4> QED BY <4>1, <4>2, <4>3, AuxNumbers
    <3>3. spc \in {"begin", "end"} => ranges'[rng] = ranges[rng] BY <1>2, <3>2, Zenon
    <3>4. spc = "end" => spc \in {"begin", "end"} OBVIOUS
    <3> QED BY <2>5, <3>1, <3>3, <3>4, Zenon DEF ReadInv
  <2> QED BY <2>4, <2>10, <2>11, Zenon
<1>6. bpc' \in {"get", "slot", "setbegin", "setend", "unlock"} BY <1>1
<1>7. lock' \in BOOLEAN BY <1>t, <1>1, Zenon
<1>8. ranges_next' \in 1 .. RangesNum /\ dropped_num' \in Nat /\ periodic' \in BOOLEAN
  BY <1>t, <1>1, Zenon
<1>9. UNCHANGED <<sourceVars, shm, drop_begin_id, dropped, buf, arbiterVars>> BY <1>1, Zenon
<1> QED BY <1>2, <1>4, <1>5, <1>6, <1>7, <1>8, <1>9, RangeStepKeeps, Zenon

(* ... its end ... *)
LEMMA SetEndKeeps == ASSUME AuxInv, SetEnd PROVE AuxInv'
<1> DEFINE n == ranges_next
           r == ranges[n]
           g == Gone
<1>t. /\ AuxTypeOK /\ SourceInv /\ IdInv /\ DropInv
      /\ SlotsFresh => SlotInv /\ ReadInv /\ StringInv
      /\ r \in Ranges /\ ranges \in [1 .. RangesNum -> Ranges]
      /\ n \in 1 .. RangesNum /\ drop_begin_id \in Nat /\ dropped_num \in Nat
      /\ periodic \in BOOLEAN /\ lock \in BOOLEAN
      /\ g \in 0 .. MaxEvents /\ g \in Nat
  BY SlotTypes, Zenon
<1>1. /\ bpc = "setend" /\ bpc' = "unlock"
      /\ UNCHANGED <<sourceVars, shm, drop_begin_id, dropped_num, periodic, ranges_next,
                     dropped, buf, arbiterVars, lock>>
      /\ ranges' = [ranges EXCEPT ![n].end = Head(shm).id - 1]
  BY Zenon DEF SetEnd
<1>2. /\ shm # << >> /\ dropped_num > 0 /\ drop_begin_id >= 1 /\ drop_begin_id <= g
      /\ drop_begin_id .. g \subseteq dropped /\ r.begin = drop_begin_id
  BY <1>t, <1>1 DEF DropInv
<1>3. Head(shm).id - 1 = g
  <2>1. Head(shm).id = g + 1 BY <1>t, <1>2, HeadTaken, Zenon
  <2> HIDE DEF g
  <2> QED BY <1>t, <2>1
<1>4. ranges' = [ranges EXCEPT ![n].end = g] BY <1>1, <1>3, Zenon
<1>5. /\ \A s \in 1 .. RangesNum : s # n => ranges'[s] = ranges[s]
      /\ ranges' \in [1 .. RangesNum -> Ranges]
      /\ ranges'[n].begin = drop_begin_id /\ ranges'[n].end = g
  <2> HIDE DEF g
  <2> QED BY <1>t, <1>2, <1>4 DEF Ranges
<1>6. DropInv'
  <2>1. bpc' \notin {"get", "slot"} BY <1>1
  <2>2. Gone' = g BY <1>1, ShmKept, Zenon
  <2>3. UNCHANGED <<shm, drop_begin_id, dropped_num, ranges_next, dropped>> BY <1>1
  <2> QED BY <1>t, <1>2, <1>5, <2>1, <2>2, <2>3, Zenon DEF DropInv
<1>7. ASSUME SlotsFresh' PROVE SlotsFresh /\ SlotInv' /\ ReadInv'
  <2>1. n # 1
    <3>1. ranges'[1].begin = 0 BY <1>7 DEF SlotsFresh
    <3> QED BY <1>t, <1>2, <1>5, <3>1
  <2>2. 1 \in 1 .. RangesNum BY AuxNumbers
  <2>3. ranges'[1] = ranges[1] BY <1>5, <2>1, <2>2, Zenon
  <2>4. SlotsFresh BY <1>7, <2>3, Zenon DEF SlotsFresh
  <2>5. SlotInv /\ ReadInv BY <1>t, <2>4, Zenon
  <2>7. \A s \in 1 .. RangesNum :
           ranges[s].end # 0 => ranges[s].begin .. ranges[s].end \subseteq dropped
    BY <2>5, Zenon DEF SlotInv
  <2>8. \A s \in 1 .. RangesNum : s > n => s # n /\ ranges[s] = Empty
    <3>1. \A s \in 1 .. RangesNum : s > n => s # n BY <1>t
    <3> QED BY <2>1, <2>5, <3>1, Zenon DEF SlotInv
  <2>9. SlotInv'
    <3>1. \A s \in 1 .. RangesNum :
             ranges'[s].end # 0 => ranges'[s].begin .. ranges'[s].end \subseteq dropped
      BY <1>2, <1>5, <2>7, Zenon
    <3>2. \A s \in 1 .. RangesNum : s > n => ranges'[s] = Empty BY <1>5, <2>8, Zenon
    <3>3. bpc' # "setbegin" /\ bpc' # "setend" /\ ranges_next' = n /\ dropped' = dropped BY <1>1
    <3> QED BY <3>1, <3>2, <3>3, Zenon DEF SlotInv
  <2>10. ReadInv'
    <3>1. UNCHANGED <<aux, age, spc, scan, rng, rbegin>> BY <1>1 DEF sourceVars
    <3>2. spc \in {"begin", "end"} => rng \in 1 .. RangesNum
      <4>1. rng \in Nat \ {0} BY <1>t, Zenon DEF AuxTypeOK
      <4>2. spc \in {"begin", "end"} => rng <= RangesNum BY <1>t, Zenon DEF SourceInv
      <4> QED BY <4>1, <4>2, AuxNumbers
    <3>3. g # 0 BY <1>t, <1>2
    <3>4. \A s \in 1 .. RangesNum : /\ ranges'[s].begin = ranges[s].begin
                                    /\ ranges[s].end # 0 => ranges'[s].end # 0
      BY <1>2, <1>5, <3>3, Zenon
    <3>5. spc = "end" => spc \in {"begin", "end"} OBVIOUS
    <3> QED BY <2>5, <3>1, <3>2, <3>4, <3>5, Zenon DEF ReadInv
  <2> QED BY <2>4, <2>9, <2>10, Zenon
<1>8. bpc' \in {"get", "slot", "setbegin", "setend", "unlock"} BY <1>1
<1>9. lock' \in BOOLEAN BY <1>t, <1>1, Zenon
<1>10. ranges_next' \in 1 .. RangesNum /\ dropped_num' \in Nat /\ periodic' \in BOOLEAN
  BY <1>t, <1>1, Zenon
<1>11. UNCHANGED <<sourceVars, shm, drop_begin_id, dropped, buf, arbiterVars>> BY <1>1, Zenon
<1> QED BY <1>5, <1>6, <1>7, <1>8, <1>9, <1>10, <1>11, RangeStepKeeps, Zenon

(* ... and unlocks.  The drop is over, ... *)
LEMMA UnlockAfterDropKeeps ==
    ASSUME AuxInv, UnlockRanges, dropped_num' = 0, UNCHANGED <<shm, dropped>>
    PROVE  AuxInv'
<1> DEFINE r == ranges[ranges_next]
<1>t. /\ AuxTypeOK /\ DropInv /\ (SlotsFresh => SlotInv /\ ReadInv /\ StringInv)
      /\ ranges \in [1 .. RangesNum -> Ranges] /\ ranges_next \in 1 .. RangesNum
      /\ Gone \in Nat
  BY SlotTypes, Zenon
<1>1. /\ bpc = "unlock" /\ bpc' = "get" /\ lock' = FALSE /\ periodic' = FALSE
      /\ dropped_num' = 0 /\ UNCHANGED <<sourceVars, shm, drop_begin_id, ranges, ranges_next, dropped,
                     buf, arbiterVars>>
  BY Zenon DEF UnlockRanges, Unlock
<1>2. r.begin = drop_begin_id /\ r.end = Gone /\ drop_begin_id <= Gone BY <1>t, <1>1 DEF DropInv
<1>3. DropInv'
  <2>1. bpc' = "get" /\ bpc' \notin {"setend", "unlock"} /\ bpc' # "unlock" /\ ~(dropped_num' > 0)
    BY <1>1
  <2>2. Gone' = Gone BY <1>1, ShmKept, Zenon
  <2>3. r.begin <= r.end /\ r.end <= Gone
    <3> HIDE DEF r
    <3> QED BY <1>t, <1>2
  <2>4. UNCHANGED <<ranges, ranges_next, dropped>> BY <1>1
  <2> QED BY <1>t, <2>1, <2>2, <2>3, <2>4, Zenon DEF DropInv
<1>4. SlotsFresh' = SlotsFresh /\ (SlotInv => SlotInv')
  <2>1. bpc # "setbegin" /\ bpc' # "setbegin" BY <1>1
  <2>2. UNCHANGED <<ranges, ranges_next, dropped>> BY <1>1
  <2> QED BY <2>1, <2>2, Zenon DEF SlotsFresh, SlotInv
<1>5. ReadInv => ReadInv'
  <2>1. UNCHANGED <<sourceVars, ranges>> BY <1>1
  <2> QED BY <2>1, ReadKept, Zenon
<1>6. bpc' \in {"get", "slot", "setbegin", "setend", "unlock"} /\ dropped_num' \in Nat BY <1>1
<1>7. lock' \in BOOLEAN /\ periodic' \in BOOLEAN BY <1>1, Zenon
<1>8. ranges' = ranges /\ ranges_next' = ranges_next
      /\ UNCHANGED <<sourceVars, shm, drop_begin_id, dropped, buf, arbiterVars>>
  BY <1>1, Zenon
<1> QED BY <1>t, <1>3, <1>4, <1>5, <1>6, <1>7, <1>8, RangeStepKeeps, Zenon

(* ... or goes on with the event that is taken now. *)
LEMMA UnlockRangesKeeps == ASSUME AuxInv, UnlockRanges PROVE AuxInv'
<1>t. AuxTypeOK /\ DropInv /\ dropped_num \in Nat BY SlotTypes, Zenon
<1>1. /\ bpc = "unlock" /\ bpc' = "get" /\ lock' = FALSE /\ periodic' = FALSE
      /\ UNCHANGED <<sourceVars, drop_begin_id, ranges, ranges_next, buf, arbiterVars>>
      /\ \/ dropped_num' = 0 /\ UNCHANGED <<shm, dropped>>
         \/ /\ shm' = Tail(shm) /\ dropped' = dropped \cup {Head(shm).id}
            /\ UNCHANGED dropped_num
  BY Zenon DEF UnlockRanges, Unlock
<1>2. CASE dropped_num' = 0 /\ UNCHANGED <<shm, dropped>> BY <1>2, UnlockAfterDropKeeps, Zenon
<1>3. CASE /\ shm' = Tail(shm) /\ dropped' = dropped \cup {Head(shm).id}
           /\ UNCHANGED dropped_num
  <2>1. shm # << >> /\ dropped_num > 0 BY <1>t, <1>1 DEF DropInv
  <2>2. dropped_num' \in Nat /\ dropped_num' > 0 /\ dropped_num # 0 BY <1>t, <1>3, <2>1
  <2>3. bpc \in {"get", "unlock"} BY <1>1
  <2>4. lock' \in BOOLEAN /\ periodic' \in BOOLEAN BY <1>1, Zenon
  <2>5. drop_begin_id' = IF dropped_num = 0 THEN Head(shm).id ELSE drop_begin_id
    BY <1>1, <2>2, Zenon
  <2>6. UNCHANGED <<ranges, ranges_next, buf>> /\ UNCHANGED <<sourceVars, arbiterVars>>
    BY <1>1, Zenon
  <2> QED BY <1>1, <1>3, <2>1, <2>2, <2>3, <2>4, <2>5, <2>6, DropKeeps, Zenon
<1> QED BY <1>1, <1>2, <1>3, Zenon

(* The buffer manager forwards or drops an event. *)
LEMMA HandleEventKeeps == ASSUME AuxInv, HandleEvent PROVE AuxInv'
<1>1. /\ bpc = "get" /\ shm # << >> /\ shm' = Tail(shm)
      /\ UNCHANGED <<sourceVars, arbiterVars, lock>>
      /\ \/ /\ dropped_num = 0 /\ BufCapacity - Len(buf) > 0
            /\ buf' = Append(buf, Head(shm)) /\ UNCHANGED bmmVars
         \/ /\ dropped_num' = dropped_num + 1
            /\ drop_begin_id' = IF dropped_num = 0 THEN Head(shm).id ELSE drop_begin_id
            /\ dropped' = dropped \cup {Head(shm).id}
            /\ UNCHANGED <<bpc, periodic, ranges, ranges_next, buf>>
  BY Zenon DEF HandleEvent
<1>2. dropped_num \in Nat /\ lock \in BOOLEAN /\ periodic \in BOOLEAN BY SlotTypes, Zenon
<1>3. dropped_num + 1 \in Nat /\ dropped_num + 1 > 0 BY <1>2
<1>4. bpc \in {"get", "unlock"} BY <1>1
<1> QED BY <1>1, <1>2, <1>3, <1>4, ForwardKeeps, DropKeeps, Zenon

-----------------------------------------------------------------------------
(* The steps of the arbiter. *)
LEMMA BufShortened ==
    ASSUME NEW b \in Seq(Strings), b # << >>, NEW g, NEW l, NEW d, BufIds(b, g, l, d)
    PROVE  /\ l <= Head(b).id /\ Head(b).id <= g /\ Head(b) \in Strings
           /\ BufIds(Tail(b), g, Head(b).id, d)
<1> DEFINE t == Tail(b)
           m == Len(b)
           h == b[1].id
<1>1. /\ Head(b) = b[1] /\ Head(b) \in Strings /\ 1 \in 1 .. m /\ m \in Nat /\ Len(t) = m - 1
      /\ \A i \in 1 .. (m - 1) : i + 1 \in 1 .. m /\ t[i] = b[i + 1]
  BY Shortened, Zenon
<1>2. /\ \A i \in 1 .. m : /\ l <= b[i].id /\ b[i].id <= g
                           /\ b[i].buf # 0 => l < b[i].id /\ b[i].id \notin d
      /\ \A i, j \in 1 .. m : i < j => b[i].id <= b[j].id /\ (b[j].buf # 0 => b[i].id < b[j].id)
  BY Zenon DEF BufIds
<1> HIDE DEF t, m, h
<1>3. \A i \in 1 .. (m - 1) : 1 < i + 1 BY <1>1
<1>4. \A i, j \in 1 .. (m - 1) : i < j => i + 1 < j + 1 BY <1>1
<1>5. \A i \in 1 .. (m - 1) : /\ h <= t[i].id /\ t[i].id <= g
                              /\ t[i].buf # 0 => h < t[i].id /\ t[i].id \notin d
  BY <1>1, <1>2, <1>3, Zenon DEF h
<1>6. \A i, j \in 1 .. (m - 1) : i < j => t[i].id <= t[j].id /\ (t[j].buf # 0 => t[i].id < t[j].id)
  BY <1>1, <1>2, <1>4, Zenon
<1>7. BufIds(t, g, h, d)
  <2>1. \A i \in 1 .. Len(t) : i \in 1 .. (m - 1) BY <1>1
  <2>2. \A i \in 1 .. Len(t) : /\ h <= t[i].id /\ t[i].id <= g
                               /\ t[i].buf # 0 => h < t[i].id /\ t[i].id \notin d
    BY <1>5, <2>1, Zenon
  <2>3. \A i, j \in 1 .. Len(t) : i < j => t[i].id <= t[j].id /\ (t[j].buf # 0 => t[i].id < t[j].id)
    BY <1>6, <2>1, Zenon
  <2> QED BY <2>2, <2>3 DEF BufIds
<1> QED BY <1>1, <1>2, <1>7, Zenon DEF t, h

(* shm_arbiter_buffer_drop takes an element from the buffer ... *)
LEMMA DropFirstKeeps == ASSUME AuxInv, DropFirst PROVE AuxInv'
<1>1. /\ buf # << >> /\ last_id' = Head(buf).id /\ buf' = Tail(buf) /\ cpc' = "notify"
      /\ UNCHANGED <<sourceVars, shm>> /\ UNCHANGED <<bmmVars, last_processed, lock>>
  BY Zenon DEF DropFirst
<1>2. /\ SourceInv' /\ AgeInv' /\ Pushed' = Pushed /\ Gone' = Gone /\ aux' = aux
      /\ AuxTypeOK /\ SourceInv /\ IdInv /\ DropInv /\ Gone \in Nat
      /\ SlotsFresh => SlotInv /\ ReadInv /\ StringInv
  BY <1>1, ShmKept, Zenon
<1>3. /\ buf \in Seq(Strings) /\ Len(buf) <= BufCapacity /\ last_id \in Nat
      /\ last_processed \in Nat
  BY <1>2, AuxNumbers DEF AuxTypeOK
<1>4. last_processed <= last_id /\ BufIds(buf, Gone, last_id, dropped)
  BY <1>2, Zenon DEF IdInv, BufIds
<1>5. /\ last_id <= Head(buf).id /\ Head(buf).id <= Gone /\ Head(buf) \in Strings
      /\ BufIds(Tail(buf), Gone, Head(buf).id, dropped)
  BY <1>1, <1>3, <1>4, BufShortened, Zenon
<1>6. Head(buf).id \in 0 .. MaxEvents /\ Head(buf).id \in Nat BY <1>5, AuxNumbers DEF Strings
<1>7. IdInv'
  <2>1. last_processed <= Head(buf).id BY SMTT(30), <1>3, <1>4, <1>5, <1>6
  <2>2. BufIds(buf', Gone', last_id', dropped')
    <3>1. dropped' = dropped BY <1>1 DEF bmmVars
    <3> QED BY <1>1, <1>2, <1>5, <3>1
  <2>3. last_processed' <= last_id' /\ last_id' <= Gone' BY <1>1, <1>2, <1>5, <2>1
  <2>4. UNCHANGED shm BY <1>1
  <2> QED BY <1>2, <2>2, <2>3, <2>4, Zenon DEF IdInv, BufIds
<1>8. AuxTypeOK'
  <2>1. buf' \in Seq(Strings) /\ Len(buf') = Len(buf) - 1 /\ Len(buf) \in Nat
    BY <1>1, <1>3, Shortened, Zenon
  <2>2. Len(buf') <= BufCapacity BY <1>3, <2>1, AuxNumbers
  <2>3. cpc' \in {"idle", "notify"} /\ last_id' \in 0 .. MaxEvents BY <1>1, <1>6
  <2> QED BY <1>1, <1>2, <2>1, <2>2, <2>3, Zenon DEF AuxTypeOK, sourceVars, bmmVars
<1>9. DropInv'
  <2>1. UNCHANGED <<shm, bpc, drop_begin_id, dropped_num, ranges, ranges_next, dropped>>
    BY <1>1 DEF bmmVars
  <2> QED BY <1>2, <2>1, Zenon DEF DropInv
<1>10. \A x \in Live' : x \in Live \/ x.buf = 0
  <2>1. Range(buf') \subseteq Range(buf) BY <1>1, <1>3, RangeShortened, Zenon
  <2>2. shm' = shm BY <1>1
  <2> QED BY <2>1, <2>2, Zenon DEF Live
<1>11. UNCHANGED <<sourceVars, ranges>> /\ UNCHANGED bmmVars BY <1>1, Zenon DEF bmmVars
<1> QED BY <1>2, <1>7, <1>8, <1>9, <1>10, <1>11, SlotKept, ReadKept, StringsOfLive, Zenon DEF AuxInv

(* ... and reports its id. *)
LEMMA NotifyProcessedKeeps == ASSUME AuxInv, NotifyProcessed PROVE AuxInv'
<1>1. /\ last_processed' = last_id /\ cpc' = "idle"
      /\ UNCHANGED <<sourceVars, shm>> /\ UNCHANGED <<bmmVars, buf, last_id, lock>>
  BY Zenon DEF NotifyProcessed
<1>2. /\ SourceInv' /\ AgeInv' /\ Pushed' = Pushed /\ Gone' = Gone /\ aux' = aux
      /\ AuxTypeOK /\ SourceInv /\ IdInv /\ DropInv /\ Gone \in Nat
      /\ SlotsFresh => SlotInv /\ ReadInv /\ StringInv
  BY <1>1, ShmKept, Zenon
<1>3. UNCHANGED <<shm, bpc, drop_begin_id, dropped_num, periodic, ranges, ranges_next, dropped,
                  buf, last_id, aux>>
      /\ UNCHANGED <<sourceVars, ranges>> /\ UNCHANGED bmmVars /\ UNCHANGED <<aux, shm, buf>>
  BY <1>1, <1>2, Zenon DEF bmmVars
<1>4. cpc' \in {"idle", "notify"} BY <1>1
<1>5. AuxTypeOK' BY <1>1, <1>2, <1>3, <1>4, Zenon DEF AuxTypeOK, sourceVars
<1>6. last_id <= last_id
  <2>1. last_id \in Nat BY <1>2, AuxNumbers DEF AuxTypeOK
  <2> QED BY <2>1
<1>7. IdInv' BY <1>1, <1>2, <1>3, <1>6, Zenon DEF IdInv
<1>8. DropInv' BY <1>2, <1>3, Zenon DEF DropInv
<1> QED BY <1>2, <1>3, <1>5, <1>7, <1>8, SlotKept, ReadKept, StringsKept, Zenon DEF AuxInv

-----------------------------------------------------------------------------
(* Steps that change nothing. *)
LEMMA AuxStutterKeeps == ASSUME AuxInv, UNCHANGED auxVars PROVE AuxInv'
<1>1. UNCHANGED <<sourceVars, shm>> /\ UNCHANGED <<bmmVars, buf, arbiterVars, lock>> BY DEF auxVars
<1>2. /\ UNCHANGED <<evid, aux, age, cur, spc, scan, rng, rbegin, shm, buf, lock>>
      /\ UNCHANGED <<bpc, drop_begin_id, dropped_num, periodic, ranges, ranges_next, dropped>>
      /\ UNCHANGED <<cpc, last_id, last_processed>>
  BY <1>1, Zenon DEF sourceVars, bmmVars, arbiterVars
<1>3. /\ SourceInv' /\ AgeInv' /\ Pushed' = Pushed /\ Gone' = Gone
      /\ AuxTypeOK /\ IdInv /\ DropInv /\ (SlotsFresh => SlotInv /\ ReadInv /\ StringInv)
  BY <1>1, ShmKept, Zenon
<1>4. AuxTypeOK' BY <1>2, <1>3, Zenon DEF AuxTypeOK
<1>5. IdInv' BY <1>2, <1>3, Zenon DEF IdInv
<1>6. DropInv' BY <1>2, <1>3, Zenon DEF DropInv
<1>7. UNCHANGED <<sourceVars, ranges>> /\ UNCHANGED bmmVars /\ UNCHANGED <<aux, shm, buf>>
  BY <1>1, <1>2, Zenon
<1> QED BY <1>3, <1>4, <1>5, <1>6, <1>7, SlotKept, ReadKept, StringsKept, Zenon DEF AuxInv

(* AuxInv is an inductive invariant of the source, the buffer manager and  *)
(* the arbiter.                                                            *)
THEOREM AuxInvariant == AuxSpec => []AuxInv
<1>1. AuxInit => AuxInv BY AuxInitInv
<1>2. AuxInv /\ [AuxNext]_auxVars => AuxInv'
  <2> SUFFICES ASSUME AuxInv, [AuxNext]_auxVars PROVE AuxInv' OBVIOUS
  <2>1. CASE SourceNext
    BY <2>1, StartPushKeeps, ScanAuxKeeps, LockRangesKeeps, NotDroppedKeeps, ReadRangeKeeps,
       ReadRangeEndKeeps, PushStringKeeps, Zenon DEF SourceNext
  <2>2. CASE BmmNext
    BY <2>2, HandleEventKeeps, NotifyDropKeeps, PushHoleKeeps, ChooseSlotKeeps, SetBeginKeeps,
       SetEndKeeps, UnlockRangesKeeps, Zenon DEF BmmNext
  <2>3. CASE AuxArbiterNext
    BY <2>3, DropFirstKeeps, NotifyProcessedKeeps, Zenon DEF AuxArbiterNext
  <2>4. CASE AllProcessed BY <2>4, AuxStutterKeeps, Zenon DEF AllProcessed
  <2>5. CASE UNCHANGED auxVars BY <2>5, AuxStutterKeeps, Zenon
  <2> QED BY <2>1, <2>2, <2>3, <2>4, <2>5, Zenon DEF AuxNext
<1> QED BY <1>1, <1>2, PTL DEF AuxSpec

(* Reusing auxiliary buffers never overwrites the string of an event that  *)
(* the monitor side still has, as long as no slot of dropped_ranges is     *)
(* used twice.                                                             *)
THEOREM StringsStayIntact == AuxSpec => []StringsIntact
<1>1. AuxInv => StringsIntact BY Zenon DEF AuxInv, StringsIntact, StringInv, Kept
<1> QED BY <1>1, AuxInvariant, PTL

(* aux_buffers_age lists every buffer once, the current one last. *)
THEOREM AgeListsBuffers == AuxSpec => []AgeOrder
<1>1. AuxInv => AgeOrder
  <2> SUFFICES ASSUME AuxInv PROVE AgeOrder OBVIOUS
  <2>1. AuxTypeOK /\ AgeInv BY Zenon DEF AuxInv
  <2>2. age \in Seq(Nat) BY <2>1, Zenon DEF AuxTypeOK
  <2>3. DOMAIN age = 1 .. Len(age) BY <2>2
  <2> QED BY <2>1, <2>3, Zenon DEF AgeOrder, AgeInv
<1> QED BY <1>1, AuxInvariant, PTL

(* A range that the source takes for one of dropped events is one, under   *)
(* the same condition, although the lock does not keep the buffer manager  *)
(* from writing ranges meanwhile.                                          *)
THEOREM RangesAreOfDropped == AuxSpec => []RangeIsOfDropped
<1>1. AuxInv => RangeIsOfDropped
  <2> SUFFICES ASSUME AuxInv, SlotsFresh, spc = "end"
               PROVE  rbegin .. ranges[rng].end \subseteq dropped
    BY Zenon DEF RangeIsOfDropped
  <2>1. AuxTypeOK /\ SourceInv /\ SlotInv /\ ReadInv BY Zenon DEF AuxInv
  <2>2. spc \in {"begin", "end"} OBVIOUS
  <2>3. rng \in Nat \ {0} /\ rng <= RangesNum BY <2>1, <2>2, Zenon DEF AuxTypeOK, SourceInv
  <2>4. rng \in 1 .. RangesNum BY <2>3, AuxNumbers
  <2>5. ranges[rng].end # 0 /\ rbegin = ranges[rng].begin BY <2>1, <2>2, Zenon DEF ReadInv
  <2> QED BY <2>1, <2>4, <2>5, Zenon DEF SlotInv
<1> QED BY <1>1, AuxInvariant, PTL
=============================================================================
