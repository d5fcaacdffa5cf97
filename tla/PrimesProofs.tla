---------------------------- MODULE PrimesProofs ----------------------------
(***************************************************************************)
(* PrimesInv is inductive, for every number of primes, every size of the   *)
(* buffers, and every limit of the intmap above one.                       *)
(***************************************************************************)
EXTENDS Primes, FiniteSetTheorems, SequenceTheorems, TLAPS

(* A sequence with an element appended. *)
LEMMA OneMore ==
    ASSUME NEW S, NEW q \in Seq(S), NEW x \in S
    PROVE  /\ Append(q, x) \in Seq(S) /\ Len(Append(q, x)) = Len(q) + 1
           /\ Append(q, x) # << >> /\ Len(q) \in Nat
OBVIOUS

(* The other stream. *)
LEMMA OtherStream ==
    ASSUME NEW s \in Streams
    PROVE  /\ Other(s) \in Streams /\ Other(s) # s /\ Other(Other(s)) = s
           /\ \A t \in Streams : t = s \/ t = Other(s)
BY DEF Streams, Other

(* What is taken away from a finite set is missing in its size. *)
LEMMA CardinalityMinus ==
    ASSUME NEW S, IsFiniteSet(S), NEW T, T \subseteq S
    PROVE  /\ IsFiniteSet(S \ T)
           /\ Cardinality(S \ T) = Cardinality(S) - Cardinality(T)
           /\ Cardinality(T) \in Nat
<1>1. IsFiniteSet(T) /\ IsFiniteSet(S \ T) BY FS_Subset
<1>2. Cardinality(T) \in Nat /\ Cardinality(S \ T) \in Nat BY <1>1, FS_CardinalityType
<1>3. Cardinality((S \ T) \cup T)
         = Cardinality(S \ T) + Cardinality(T) - Cardinality((S \ T) \cap T)
  BY <1>1, FS_Union
<1>4. (S \ T) \cup T = S /\ (S \ T) \cap T = {} OBVIOUS
<1>5. Cardinality({}) = 0 BY FS_EmptySet
<1>6. Cardinality(S) = Cardinality(S \ T) + Cardinality(T) - 0 BY <1>3, <1>4, <1>5
<1> DEFINE x == Cardinality(S)
           y == Cardinality(S \ T)
           z == Cardinality(T)
<1>7. x = y + z - 0 /\ y \in Nat /\ z \in Nat BY <1>2, <1>6
<1> HIDE DEF x, y, z
<1>8. y = x - z BY <1>7
<1> QED BY <1>1, <1>2, <1>8 DEF x, y, z

(* An element that continues a buffer may be appended to it. *)
LEMMA ExactAppend ==
    ASSUME NEW a \in Seq(Elements), NEW start \in Nat, NEW end \in Nat,
           NEW x \in Elements, Exact(a, start, end), x.i = end
    PROVE  Exact(Append(a, x), start, end + x.n)
<1> DEFINE b == Append(a, x)
<1>1. /\ b \in Seq(Elements) /\ Len(b) = Len(a) + 1 /\ b[Len(a) + 1] = x
      /\ \A j \in 1 .. Len(a) : b[j] = a[j]
  OBVIOUS
<1>2. Len(a) \in Nat OBVIOUS
<1> HIDE DEF b
<1>3. (IF 1 > Len(b) THEN end + x.n ELSE b[1].i) = start
  BY <1>1, <1>2 DEF Exact
<1>4. ASSUME NEW j \in 1 .. Len(b)
      PROVE  (IF j + 1 > Len(b) THEN end + x.n ELSE b[j + 1].i) = b[j].i + b[j].n
  <2>1. CASE j = Len(a) + 1 BY <1>1, <1>2, <2>1
  <2>2. CASE j = Len(a) BY <1>1, <1>2, <1>4, <2>2 DEF Exact
  <2>3. CASE j < Len(a) BY <1>1, <1>2, <1>4, <2>3 DEF Exact
  <2> QED BY <1>1, <1>2, <1>4, <2>1, <2>2, <2>3
<1> QED BY <1>3, <1>4 DEF Exact, b

(* The first element of a buffer starts where the stream is, and without   *)
(* it the rest starts where it ends.                                       *)
LEMMA ExactTail ==
    ASSUME NEW a \in Seq(Elements), NEW start \in Nat, NEW end \in Nat,
           a # << >>, Exact(a, start, end)
    PROVE  /\ Head(a) \in Elements /\ Head(a).i = start
           /\ Exact(Tail(a), start + Head(a).n, end)
<1> DEFINE b == Tail(a)
<1>1. /\ Len(a) \in Nat /\ Len(a) >= 1 /\ b \in Seq(Elements) /\ Len(b) = Len(a) - 1
      /\ \A j \in 1 .. Len(b) : b[j] = a[j + 1]
      /\ Head(a) = a[1] /\ a[1] \in Elements
  OBVIOUS
<1>2. a[1].i = start BY <1>1 DEF Exact
<1> HIDE DEF b
<1>3. (IF 1 > Len(b) THEN end ELSE b[1].i) = start + a[1].n
  <2>1. (IF 1 + 1 > Len(a) THEN end ELSE a[1 + 1].i) = a[1].i + a[1].n BY <1>1 DEF Exact
  <2> QED BY <1>1, <1>2, <2>1
<1>4. ASSUME NEW j \in 1 .. Len(b)
      PROVE  (IF j + 1 > Len(b) THEN end ELSE b[j + 1].i) = b[j].i + b[j].n
  <2>1. j + 1 \in 1 .. Len(a) BY <1>1, <1>4
  <2>2. (IF (j + 1) + 1 > Len(a) THEN end ELSE a[(j + 1) + 1].i) = a[j + 1].i + a[j + 1].n
    BY <2>1 DEF Exact
  <2> QED BY <1>1, <1>4, <2>2
<1>5. Exact(b, start + a[1].n, end) BY Zenon, <1>3, <1>4 DEF Exact
<1> QED BY <1>1, <1>2, <1>5 DEF b

-----------------------------------------------------------------------------
(* The part of the invariant about what the rules keep. *)
MemInv ==
    /\ CountIsSize /\ NothingSkipped /\ IsFiniteSet(mem) /\ OneEntryPerKey
    /\ \A s \in Streams : SeenBefore(s) /\ MemOfAhead(s)

RuleTypes ==
    /\ pos \in [Streams -> Nat] /\ mem \in SUBSET Entries
    /\ seen \in [Streams -> SUBSET Nat] /\ compared \in SUBSET Nat

(* The place of a stream is its position, or the index of its first prime. *)
LEMMA PlaceOf ==
    ASSUME RuleTypes, NEW s \in Streams
    PROVE  /\ pos[s] \in Nat /\ Place(s) \in Nat /\ Place(s) >= 1 /\ pos[s] <= Place(s)
           /\ \A t \in Streams : pos[t] # 1 /\ pos[s] < pos[t] => Place(s) < pos[t]
BY DEF RuleTypes, Place

(* Two streams at the same place: the intmap has at most one entry. *)
LEMMA RoomWhenEqual ==
    ASSUME RuleTypes, MemInv, NEW s \in Streams, pos[s] = pos[Other(s)]
    PROVE  count < MemCapacity
<1>1. \A e \in mem : e.i = pos[s] - 1
  BY OtherStream DEF RuleTypes, MemInv, MemOfAhead, Entries
<1>2. \A e, f \in mem : e = f BY <1>1 DEF MemInv, OneEntryPerKey
<1>3. Cardinality(mem) <= 1
  <2>1. CASE mem = {} BY <2>1, FS_EmptySet
  <2>2. CASE mem # {}
    <3>1. PICK e \in mem : TRUE BY <2>2
    <3>2. mem = {e} BY <1>2, <3>1
    <3>3. Cardinality({e}) = 1 BY Zenon, FS_Singleton
    <3> QED BY <3>2, <3>3
  <2> QED BY <2>1, <2>2
<1> DEFINE c == Cardinality(mem)
<1>4. c \in Nat /\ c <= 1 /\ count = c
  BY <1>3, FS_CardinalityType DEF MemInv, CountIsSize
<1> HIDE DEF c
<1>5. c < MemCapacity BY <1>4, PrimesAssumption
<1> QED BY <1>4, <1>5

(* A rule takes a prime of a stream that is behind. *)
LEMMA TakePrimeBehind ==
    ASSUME RuleTypes, MemInv, NEW s \in Streams, TakePrime(s),
           Head(arb[s]).i = Place(s), pos[s] < pos[Other(s)], pos[Other(s)] # 1
    PROVE  RuleTypes' /\ MemInv'
<1> DEFINE o == Other(s)
           n == Place(s)
           T == mem \ remove_upto(n)
<1>0. /\ o \in Streams /\ o # s /\ Other(o) = s
      /\ \A t \in Streams : t = s \/ t = o
  BY OtherStream
<1>1. /\ pos' = [pos EXCEPT ![s] = n + 1]
      /\ seen' = [seen EXCEPT ![s] = @ \cup {n}]
      /\ mem' = remove_upto(n) /\ count' = count - Cardinality(T)
      /\ \/ \E e \in mem : e.i = n /\ compared' = compared \cup {n}
         \/ (\A e \in mem : e.i # n) /\ compared' = compared
  BY Zenon DEF TakePrime, process, Yield, NoYield
<1>p. /\ n \in Nat /\ n < pos[o] /\ pos[s] \in Nat /\ pos[s] <= n /\ pos[s] < pos[o]
  BY <1>0, PlaceOf
<1> HIDE DEF n
<1>2. /\ pos[o] \in Nat
      /\ pos' \in [Streams -> Nat] /\ pos'[s] = n + 1 /\ pos'[o] = pos[o]
      /\ seen'[s] = seen[s] \cup {n} /\ seen'[o] = seen[o]
      /\ seen' \in [Streams -> SUBSET Nat]
  BY <1>0, <1>1, <1>p DEF RuleTypes
<1>3. mem' = {e \in mem : e.i >= n} /\ mem' = mem \ T /\ T \subseteq mem
  BY <1>1 DEF remove_upto
<1>4. RuleTypes'
  BY Zenon, <1>1, <1>2, <1>3 DEF RuleTypes
<1>5. IsFiniteSet(mem') /\ CountIsSize'
  <2>1. /\ IsFiniteSet(mem \ T) /\ Cardinality(mem \ T) = Cardinality(mem) - Cardinality(T)
        /\ Cardinality(T) \in Nat /\ Cardinality(mem) \in Nat
    BY Zenon, <1>3, CardinalityMinus, FS_CardinalityType DEF MemInv
  <2> HIDE DEF T
  <2>2. count = Cardinality(mem) /\ count <= MemCapacity BY DEF MemInv, CountIsSize
  <2>3. count' <= MemCapacity BY <1>1, <2>1, <2>2, PrimesAssumption
  <2> QED BY Zenon, <1>1, <1>3, <2>1, <2>2, <2>3 DEF CountIsSize
<1> HIDE DEF o, T
<1>6. \A e \in mem : e.i \in Nat BY DEF RuleTypes, Entries
<1>7. \A i \in seen[o] : i \in Nat BY <1>0 DEF RuleTypes
<1>8. /\ \A i \in seen[o] : i >= n => [i |-> i, s |-> o] \in mem
      /\ \A e \in mem : e.i < pos[o] /\ (e.i >= n => e.s = o)
  <2>1. /\ \A i \in seen[o] : i >= pos[s] => [i |-> i, s |-> o] \in mem
        /\ \A e \in mem : e.i < pos[o] /\ (e.i >= pos[s] => e.s = o)
    BY <1>2, <1>p DEF MemInv, MemOfAhead, o
  <2> QED BY <1>6, <1>7, <1>p, <2>1
<1>9. OneEntryPerKey' BY <1>3 DEF MemInv, OneEntryPerKey
<1>10. /\ \A i \in seen[s] \cup compared : i < n /\ i \in Nat
       /\ \A i \in seen[o] \cup compared : i < pos[o] /\ i \in Nat
  <2>1. /\ \A i \in seen[s] \cup compared : i < pos[s] /\ i \in Nat
        /\ \A i \in seen[o] \cup compared : i < pos[o] /\ i \in Nat
    BY <1>0 DEF MemInv, SeenBefore, RuleTypes
  <2> QED BY <1>p, <2>1
<1>11. SeenBefore(s)' /\ SeenBefore(o)'
  <2>1. \A i \in compared' : i \in compared \/ i = n BY <1>1
  <2>2. \A i \in seen'[s] \cup compared' : i < pos'[s] BY <1>p, <1>2, <1>10, <2>1
  <2>3. \A i \in seen'[o] \cup compared' : i < pos'[o] BY <1>p, <1>2, <1>10, <2>1
  <2> QED BY <2>2, <2>3 DEF SeenBefore
<1>12. NothingSkipped'
  <2>1. n \in seen[o] => n \in compared'
    <3> SUFFICES ASSUME n \in seen[o] PROVE n \in compared' OBVIOUS
    <3>1. [i |-> n, s |-> o] \in mem BY <1>p, <1>2, <1>8
    <3> QED BY <1>1, <3>1
  <2>2. compared \subseteq compared' BY <1>1
  <2>3. seen[s] \cap seen[o] \subseteq compared BY <1>0 DEF MemInv, NothingSkipped, Streams
  <2>4. seen'[s] \cap seen'[o] \subseteq compared' BY <1>p, <1>2, <2>1, <2>2, <2>3, Zenon
  <2> QED BY <1>0, <2>4 DEF NothingSkipped, Streams
<1>13. MemOfAhead(s)'
  <2>1. \A i \in seen'[o] : i >= pos'[s] => [i |-> i, s |-> o] \in mem'
    BY <1>p, <1>2, <1>3, <1>7, <1>8
  <2>2. \A e \in mem' : /\ e.i >= pos'[s] - 1 /\ e.i < pos'[o]
                        /\ e.i >= pos'[s] => e.s = o
    BY <1>p, <1>2, <1>3, <1>6, <1>8
  <2> QED BY <2>1, <2>2 DEF MemOfAhead, o
<1>14. MemOfAhead(o)'
  <2> SUFFICES ASSUME pos'[o] <= pos'[s]
               PROVE  /\ \A i \in seen'[s] : i >= pos'[o] => [i |-> i, s |-> s] \in mem'
                      /\ \A e \in mem' : /\ e.i >= pos'[o] - 1 /\ e.i < pos'[s]
                                         /\ e.i >= pos'[o] => e.s = s
    BY <1>0 DEF MemOfAhead
  <2>1. pos[o] = n + 1 BY <1>p, <1>2
  <2>2. \A i \in seen'[s] : ~(i >= pos'[o]) BY <1>p, <1>2, <1>10, <2>1
  <2>3. \A e \in mem' : e.i = n BY <1>p, <1>2, <1>3, <1>6, <1>8, <2>1
  <2> QED BY <1>p, <1>2, <2>1, <2>2, <2>3
<1> QED BY <1>0, <1>4, <1>5, <1>9, <1>11, <1>12, <1>13, <1>14 DEF MemInv

(* A rule takes a prime of a stream that is not behind, and there is room. *)
LEMMA TakePrimeAhead ==
    ASSUME RuleTypes, MemInv, NEW s \in Streams, TakePrime(s),
           Head(arb[s]).i = Place(s), pos[Other(s)] <= pos[s], count < MemCapacity
    PROVE  RuleTypes' /\ MemInv' /\ UNCHANGED <<monbuf, compared>>
<1> DEFINE o == Other(s)
           n == Place(s)
           x == [i |-> n, s |-> s]
<1>0. /\ o \in Streams /\ o # s /\ Other(o) = s
      /\ \A t \in Streams : t = s \/ t = o
  BY OtherStream
<1>1. /\ n \in Nat /\ pos[o] \in Nat /\ pos[s] \in Nat /\ pos[s] <= n
      /\ pos[o] <= n /\ pos[o] <= pos[s]
  <2>1. n \in Nat /\ pos[s] \in Nat /\ pos[s] <= n BY PlaceOf
  <2> HIDE DEF n
  <2> QED BY <1>0, <2>1 DEF RuleTypes
<1>2. /\ pos' = [pos EXCEPT ![s] = n + 1]
      /\ seen' = [seen EXCEPT ![s] = @ \cup {n}]
      /\ mem' = {e \in mem : e.i # n} \cup {x} /\ count' = count + 1
      /\ compared' = compared /\ monbuf' = monbuf
  <2>1. /\ process(s, n) /\ pos' = [pos EXCEPT ![s] = n + 1]
        /\ seen' = [seen EXCEPT ![s] = @ \cup {n}]
    BY Zenon DEF TakePrime
  <2>2. ~(pos[s] < pos[Other(s)]) BY <1>1
  <2>3. /\ mem' = {e \in mem : e.i # n} \cup {x} /\ count' = count + 1
        /\ NoYield
    BY <2>1, <2>2 DEF process
  <2> QED BY <2>1, <2>3 DEF NoYield
<1>3. /\ pos' \in [Streams -> Nat] /\ pos'[s] = n + 1 /\ pos'[o] = pos[o]
      /\ seen'[s] = seen[s] \cup {n} /\ seen'[o] = seen[o]
      /\ seen' \in [Streams -> SUBSET Nat]
  BY <1>0, <1>1, <1>2 DEF RuleTypes
<1>4. x \in Entries /\ x.i = n /\ x.s = s BY <1>1 DEF Entries
<1> HIDE DEF o, n, x
<1>5. /\ \A i \in seen[s] : i >= pos[o] => [i |-> i, s |-> s] \in mem
      /\ \A e \in mem : e.i >= pos[o] - 1 /\ e.i < n /\ (e.i >= pos[o] => e.s = s)
  <2>1. /\ \A i \in seen[s] : i >= pos[o] => [i |-> i, s |-> s] \in mem
        /\ \A e \in mem : e.i >= pos[o] - 1 /\ e.i < pos[s] /\ (e.i >= pos[o] => e.s = s)
    BY <1>0, <1>1 DEF MemInv, MemOfAhead
  <2>2. \A e \in mem : e.i \in Nat BY DEF RuleTypes, Entries
  <2> QED BY <1>1, <2>1, <2>2
<1>6. \A e \in mem : e.i \in Nat BY DEF RuleTypes, Entries
<1>7. mem' = mem \cup {x} /\ x \notin mem BY <1>1, <1>2, <1>4, <1>5, <1>6
<1>8. RuleTypes' BY <1>2, <1>3, <1>4, <1>7 DEF RuleTypes
<1>9. IsFiniteSet(mem') /\ CountIsSize'
  <2>1. IsFiniteSet(mem \cup {x}) /\ Cardinality(mem \cup {x}) = Cardinality(mem) + 1
    BY <1>7, FS_AddElement DEF MemInv
  <2>2. count = Cardinality(mem) /\ Cardinality(mem) \in Nat
    BY FS_CardinalityType DEF MemInv, CountIsSize
  <2>3. count' <= MemCapacity BY <1>2, <2>2, PrimesAssumption
  <2> QED BY Zenon, <1>2, <1>7, <2>1, <2>2, <2>3 DEF CountIsSize
<1>10. OneEntryPerKey'
  <2>1. \A e \in mem : e.i # x.i BY <1>1, <1>4, <1>5, <1>6
  <2> QED BY <1>7, <2>1 DEF MemInv, OneEntryPerKey
<1>11. /\ \A i \in seen[s] \cup compared : i < n /\ i \in Nat
       /\ \A i \in seen[o] \cup compared : i < pos[o] /\ i \in Nat
  <2>1. /\ \A i \in seen[s] \cup compared : i < pos[s] /\ i \in Nat
        /\ \A i \in seen[o] \cup compared : i < pos[o] /\ i \in Nat
    BY <1>0 DEF MemInv, SeenBefore, RuleTypes
  <2> QED BY <1>1, <2>1
<1>12. SeenBefore(s)' /\ SeenBefore(o)'
  <2>1. \A i \in seen'[s] \cup compared' : i < pos'[s] BY <1>1, <1>2, <1>3, <1>11
  <2>2. \A i \in seen'[o] \cup compared' : i < pos'[o] BY <1>2, <1>3, <1>11
  <2> QED BY <2>1, <2>2 DEF SeenBefore
<1>13. NothingSkipped'
  <2>1. n \notin seen[o] BY <1>1, <1>11
  <2>2. seen[s] \cap seen[o] \subseteq compared BY <1>0 DEF MemInv, NothingSkipped, Streams
  <2>3. seen'[s] \cap seen'[o] \subseteq compared' BY <1>2, <1>3, <2>1, <2>2
  <2> QED BY <1>0, <2>3, Zenon DEF NothingSkipped, Streams
<1>14. MemOfAhead(s)'
  <2>1. ~(pos'[s] <= pos'[o]) BY <1>1, <1>3
  <2> QED BY <2>1 DEF MemOfAhead, o
<1>15. MemOfAhead(o)'
  <2>1. \A i \in seen'[s] : i >= pos'[o] => [i |-> i, s |-> s] \in mem'
    BY <1>3, <1>5, <1>7 DEF x
  <2>2. \A e \in mem' : /\ e.i >= pos'[o] - 1 /\ e.i < pos'[s]
                        /\ e.i >= pos'[o] => e.s = s
    BY <1>1, <1>3, <1>4, <1>5, <1>6, <1>7
  <2> QED BY <1>0, <2>1, <2>2 DEF MemOfAhead
<1> QED BY <1>0, <1>2, <1>8, <1>9, <1>10, <1>12, <1>13, <1>14, <1>15 DEF MemInv

(* A rule takes a hole of any stream. *)
LEMMA TakeHoleKeeps ==
    ASSUME RuleTypes, MemInv, NEW s \in Streams, TakeHole(s), Head(arb[s]).n \in Nat
    PROVE  RuleTypes' /\ MemInv' /\ UNCHANGED <<monbuf, compared>>
<1> DEFINE o == Other(s)
           q == pos[s] + Head(arb[s]).n
           T == IF pos[s] < pos[o] THEN mem \ remove_upto(q) ELSE {}
<1>0. /\ o \in Streams /\ o # s /\ Other(o) = s
      /\ \A t \in Streams : t = s \/ t = o
  BY OtherStream
<1>1. /\ pos' = [pos EXCEPT ![s] = q] /\ seen' = seen
      /\ mem' = mem \ T /\ count' = count - Cardinality(T)
      /\ compared' = compared /\ monbuf' = monbuf
  BY DEF TakeHole, NoYield
<1>2. pos[s] \in Nat /\ pos[o] \in Nat /\ q \in Nat /\ q >= pos[s] BY <1>0 DEF RuleTypes
<1> HIDE DEF q
<1>3. pos' \in [Streams -> Nat] /\ pos'[s] = q /\ pos'[o] = pos[o] BY <1>0, <1>1, <1>2 DEF RuleTypes
<1>4. T \subseteq mem OBVIOUS
<1>5. /\ pos[s] < pos[o] => mem' = {e \in mem : e.i >= q}
      /\ pos[o] <= pos[s] => mem' = mem
  BY <1>1, <1>2 DEF remove_upto
<1> HIDE DEF T, o
<1>6. RuleTypes' BY <1>1, <1>3, <1>4 DEF RuleTypes
<1>7. IsFiniteSet(mem') /\ CountIsSize'
  <2>1. /\ IsFiniteSet(mem \ T) /\ Cardinality(mem \ T) = Cardinality(mem) - Cardinality(T)
        /\ Cardinality(T) \in Nat /\ Cardinality(mem) \in Nat
    BY <1>4, CardinalityMinus, FS_CardinalityType DEF MemInv
  <2>2. count = Cardinality(mem) /\ count <= MemCapacity BY DEF MemInv, CountIsSize
  <2>3. count' <= MemCapacity BY <1>1, <2>1, <2>2, PrimesAssumption
  <2> QED BY <1>1, <2>1, <2>2, <2>3 DEF CountIsSize
<1>8. OneEntryPerKey' BY <1>1 DEF MemInv, OneEntryPerKey
<1>9. /\ \A i \in seen[s] \cup compared : i < pos[s] /\ i \in Nat
      /\ \A i \in seen[o] \cup compared : i < pos[o] /\ i \in Nat
  BY <1>0 DEF MemInv, SeenBefore, RuleTypes
<1>10. SeenBefore(s)' /\ SeenBefore(o)'
  <2>1. \A i \in seen'[s] \cup compared' : i < pos'[s] BY <1>1, <1>2, <1>3, <1>9
  <2>2. \A i \in seen'[o] \cup compared' : i < pos'[o] BY <1>1, <1>3, <1>9
  <2> QED BY <2>1, <2>2 DEF SeenBefore
<1>11. NothingSkipped' BY <1>1 DEF MemInv, NothingSkipped
<1>12. \A e \in mem : e.i \in Nat BY Zenon DEF RuleTypes, Entries
<1>13. pos[s] <= pos[o] =>
         /\ \A i \in seen[o] : i >= pos[s] => [i |-> i, s |-> o] \in mem
         /\ \A e \in mem : e.i >= pos[s] - 1 /\ e.i < pos[o] /\ (e.i >= pos[s] => e.s = o)
  BY <1>0 DEF MemInv, MemOfAhead, o
<1>14. pos[o] <= pos[s] =>
         /\ \A i \in seen[s] : i >= pos[o] => [i |-> i, s |-> s] \in mem
         /\ \A e \in mem : e.i >= pos[o] - 1 /\ e.i < pos[s] /\ (e.i >= pos[o] => e.s = s)
  BY <1>0, Zenon DEF MemInv, MemOfAhead
<1>15. MemOfAhead(s)'
  <2> SUFFICES ASSUME q <= pos[o]
               PROVE  /\ \A i \in seen[o] : i >= q => [i |-> i, s |-> o] \in mem'
                      /\ \A e \in mem' : e.i >= q - 1 /\ e.i < pos[o] /\ (e.i >= q => e.s = o)
    BY <1>1, <1>3 DEF MemOfAhead, o
  <2>1. CASE pos[s] < pos[o] BY <1>2, <1>5, <1>9, <1>12, <1>13, <2>1
  <2>2. CASE pos[o] <= pos[s]
    <3>1. q = pos[o] /\ pos[s] = pos[o] BY <1>2, <2>2
    <3> QED BY <1>5, <1>13, <2>2, <3>1
  <2> QED BY <1>2, <2>1, <2>2
<1>16. MemOfAhead(o)'
  <2> SUFFICES ASSUME pos[o] <= q
               PROVE  /\ \A i \in seen[s] : i >= pos[o] => [i |-> i, s |-> s] \in mem'
                      /\ \A e \in mem' : e.i >= pos[o] - 1 /\ e.i < q /\ (e.i >= pos[o] => e.s = s)
    BY <1>0, <1>1, <1>3, Zenon DEF MemOfAhead
  <2>1. CASE pos[s] < pos[o]
    <3>1. \A e \in mem : ~(e.i >= q) BY <1>2, <1>12, <1>13, <2>1
    <3>2. mem' = {} BY <1>5, <2>1, <3>1
    <3>3. \A i \in seen[s] : ~(i >= pos[o]) BY <1>2, <1>9, <2>1
    <3> QED BY <3>2, <3>3, Zenon
  <2>2. CASE pos[o] <= pos[s] BY <1>2, <1>5, <1>12, <1>14, <2>2
  <2> QED BY <1>2, <2>1, <2>2
<1> QED BY <1>0, <1>1, <1>6, <1>7, <1>8, <1>10, <1>11, <1>15, <1>16 DEF MemInv

(* Rule 1 takes a prime with the same index of both streams. *)
LEMMA SameIndexKeeps ==
    ASSUME RuleTypes, MemInv, SameIndex,
           \A s \in Streams : Head(arb[s]).i = Place(s)
    PROVE  RuleTypes' /\ MemInv'
<1> DEFINE n == Place(0)
<1>1. n \in Nat /\ Place(1) = n /\ \A s \in Streams : pos[s] \in Nat /\ pos[s] <= n
  <2>1. 0 \in Streams /\ 1 \in Streams BY DEF Streams
  <2>2. Place(1) = n BY <2>1 DEF SameIndex
  <2>3. \A s \in Streams : Place(s) = n BY <2>2 DEF Streams
  <2> QED BY <2>1, <2>2, <2>3, PlaceOf, Zenon
<1>2. /\ mem' = {} /\ count' = count - Cardinality(mem)
      /\ pos' = [s \in Streams |-> n + 1]
      /\ seen' = [s \in Streams |-> seen[s] \cup {n}]
      /\ compared' = compared \cup {n}
  BY DEF SameIndex, Yield, Streams
<1> HIDE DEF n
<1>3. \A s \in Streams : /\ pos[s] <= n /\ pos[s] \in Nat /\ pos'[s] = n + 1
                         /\ seen'[s] = seen[s] \cup {n}
  BY <1>1, <1>2 DEF Streams
<1>4. RuleTypes' BY <1>1, <1>2 DEF RuleTypes
<1>5. \A s \in Streams : \A i \in seen[s] \cup compared : i < n /\ i \in Nat
  <2>1. \A s \in Streams : \A i \in seen[s] \cup compared : i < pos[s] /\ i \in Nat
    BY DEF MemInv, SeenBefore, RuleTypes
  <2> QED BY <1>1, <1>3, <2>1
<1>6. CountIsSize' /\ IsFiniteSet(mem') /\ OneEntryPerKey'
  <2>1. Cardinality(mem) \in Nat /\ count = Cardinality(mem)
    BY FS_CardinalityType DEF MemInv, CountIsSize
  <2>2. count' = 0 BY <1>2, <2>1
  <2>3. IsFiniteSet(mem') /\ Cardinality(mem') = 0 BY <1>2, FS_EmptySet
  <2> QED BY <1>2, <2>2, <2>3, PrimesAssumption DEF CountIsSize, OneEntryPerKey
<1>7. NothingSkipped' BY <1>2, <1>3 DEF MemInv, NothingSkipped, Streams
<1>8. ASSUME NEW s \in Streams PROVE SeenBefore(s)'
  BY <1>1, <1>2, <1>3, <1>5 DEF SeenBefore
<1>9. ASSUME NEW s \in Streams PROVE MemOfAhead(s)'
  <2>1. Other(s) \in Streams BY OtherStream
  <2>2. \A i \in seen'[Other(s)] : ~(i >= pos'[s]) BY <1>1, <1>3, <1>5, <2>1
  <2> QED BY Zenon, <1>2, <2>2 DEF MemOfAhead
<1> QED BY <1>4, <1>6, <1>7, <1>8, <1>9 DEF MemInv

-----------------------------------------------------------------------------
(* The monitor buffer. *)
MonTypes == monbuf \in Seq(Pairs) /\ Len(monbuf) <= MonCapacity

(* A pair that comes after all others is sent to it. *)
LEMMA YieldPair ==
    ASSUME MonTypes, NEW i \in Nat, NEW s \in Streams, NEW t \in Streams, s # t,
           Yield(i, s, t), \A j \in compared : j < i
    PROVE  MonTypes' /\ PairInOrder
<1> DEFINE p == [i |-> i, n |-> s, m |-> t]
<1>1. p \in Pairs /\ p.i = i /\ p.n = s /\ p.m = t BY DEF Pairs
<1>2. monbuf' = Append(monbuf, p) /\ Len(monbuf) < MonCapacity BY DEF Yield
<1> HIDE DEF p
<1>3. /\ monbuf' \in Seq(Pairs) /\ Len(monbuf') = Len(monbuf) + 1
      /\ monbuf'[Len(monbuf')] = p
  BY <1>1, <1>2 DEF MonTypes
<1>4. Len(monbuf') <= MonCapacity BY <1>2, <1>3, PrimesAssumption DEF MonTypes
<1>5. PairInOrder BY <1>1, <1>3 DEF PairInOrder
<1> QED BY <1>3, <1>4, <1>5 DEF MonTypes

(* As long as nothing is sent to it. *)
LEMMA NoPair ==
    ASSUME MonTypes, UNCHANGED monbuf
    PROVE  MonTypes' /\ PairInOrder
<1>1. Len(monbuf) \in Nat BY DEF MonTypes
<1>2. ~(Len(monbuf') > Len(monbuf)) BY <1>1
<1> QED BY <1>2 DEF MonTypes, PairInOrder

-----------------------------------------------------------------------------
(* The arbiter buffers. *)
LayerTypes ==
    /\ fetched \in [Streams -> Nat] /\ pending \in [Streams -> Nat]
    /\ ended \in [Streams -> {"yes", "no"}] /\ running \subseteq Streams

BufInv ==
    /\ LayerTypes /\ arb \in [Streams -> Seq(Elements)]
    /\ \A s \in Streams : /\ Len(arb[s]) <= BufCapacity
                          /\ PosExact(s) /\ PrimeFirst(s) /\ fetched[s] - pending[s] >= 0

ArbiterTypes ==
    /\ pc \in {"check", "peek0", "peek1", "both", "first", "second", "exit", "aborted"}
    /\ got \in [Streams -> {0, 1}] /\ group \in {<<0, 1>>, <<1, 0>>}

(* The invariant, by the parts that the steps are about. *)
LEMMA Parts ==
    PrimesInv <=> /\ BufInv /\ ArbiterTypes /\ RuleTypes /\ MemInv /\ MonTypes
                  /\ NeverStuck /\ PeekedStays
<1>1. ASSUME MemInv PROVE count \in Int
  BY <1>1, FS_CardinalityType DEF MemInv, CountIsSize
<1> QED BY <1>1, Zenon DEF PrimesInv, TypeOK, BufInv, LayerTypes, ArbiterTypes, RuleTypes, MemInv, MonTypes

(* The same after a step. *)
LEMMA PartsNext ==
    ASSUME BufInv', ArbiterTypes', RuleTypes', MemInv', MonTypes', NeverStuck', PeekedStays'
    PROVE  PrimesInv'
BY Parts, PTL

(* What is at the head of a buffer starts at the place of the stream. *)
LEMMA AtHead ==
    ASSUME BufInv, RuleTypes, NEW s \in Streams, arb[s] # << >>
    PROVE  Head(arb[s]) \in Elements /\ Head(arb[s]).i = Place(s)
<1>1. arb[s] \in Seq(Elements) /\ Place(s) \in Nat /\ fetched[s] - pending[s] + 1 \in Nat
  BY PlaceOf DEF BufInv, LayerTypes
<1> QED BY <1>1, ExactTail DEF BufInv, PosExact

(* The element at the head of a buffer is dropped and the stream moves on  *)
(* by what it stands for.                                                  *)
LEMMA HeadDropped ==
    ASSUME BufInv, RuleTypes, NEW s \in Streams, arb[s] # << >>,
           arb'[s] = Tail(arb[s]), pos'[s] = Place(s) + Head(arb[s]).n, Head(arb[s]).n \in Nat,
           Head(arb[s]).n = 1 \/ pos[s] # 0,
           UNCHANGED layerVars
    PROVE  /\ arb'[s] \in Seq(Elements) /\ Len(arb'[s]) <= BufCapacity
           /\ PosExact(s)' /\ PrimeFirst(s)'
<1>1. arb[s] \in Seq(Elements) /\ fetched[s] - pending[s] + 1 \in Nat
  BY DEF BufInv, LayerTypes
<1>p. pos[s] \in Nat /\ Place(s) \in Nat /\ Place(s) >= 1 BY PlaceOf
<1>2. Exact(Tail(arb[s]), Place(s) + Head(arb[s]).n, fetched[s] - pending[s] + 1)
  BY <1>1, <1>p, ExactTail DEF BufInv, PosExact
<1>3. fetched' = fetched /\ pending' = pending BY DEF layerVars
<1>4. pos'[s] # 0 /\ pos'[s] # 1
  <2>1. pos[s] # 1 BY DEF BufInv, PrimeFirst
  <2>2. pos[s] # 0 => Place(s) = pos[s] BY DEF Place
  <2> QED BY <1>p, <2>1, <2>2
<1>5. Place(s)' = Place(s) + Head(arb[s]).n BY <1>4, Zenon DEF Place
<1>6. PosExact(s)' BY <1>2, <1>3, <1>5, Zenon DEF PosExact
<1>7. PrimeFirst(s)' BY <1>4, Zenon DEF PrimeFirst
<1> DEFINE a == arb[s]
           b == Tail(a)
<1>8. Len(a) \in Nat /\ Len(a) <= BufCapacity /\ Len(b) = Len(a) - 1 /\ b \in Seq(Elements)
  BY <1>1 DEF BufInv
<1> DEFINE k == Len(a)
<1> HIDE DEF k
<1>9. k - 1 <= BufCapacity BY <1>8, PrimesAssumption DEF k
<1> QED BY <1>6, <1>7, <1>8, <1>9 DEF k

(* The same for one stream, while the other one stays. *)
LEMMA OneTaken ==
    ASSUME BufInv, RuleTypes, NEW s \in Streams, arb[s] # << >>,
           arb' = [arb EXCEPT ![s] = Tail(@)], Head(arb[s]).n \in Nat,
           pos' = [pos EXCEPT ![s] = Place(s) + Head(arb[s]).n],
           Head(arb[s]).n = 1 \/ pos[s] # 0,
           UNCHANGED layerVars
    PROVE  BufInv'
<1>1. arb'[s] = Tail(arb[s]) /\ pos'[s] = Place(s) + Head(arb[s]).n BY Zenon DEF BufInv, RuleTypes
<1>2. /\ arb'[s] \in Seq(Elements) /\ Len(arb'[s]) <= BufCapacity
      /\ PosExact(s)' /\ PrimeFirst(s)'
  BY <1>1, HeadDropped, Zenon
<1>3. fetched' = fetched /\ pending' = pending /\ LayerTypes' BY DEF layerVars, LayerTypes, BufInv
<1>4. arb' \in [Streams -> Seq(Elements)] BY <1>1, <1>2 DEF BufInv
<1>5. ASSUME NEW t \in Streams
      PROVE  /\ Len(arb'[t]) <= BufCapacity /\ PosExact(t)' /\ PrimeFirst(t)'
             /\ fetched'[t] - pending'[t] >= 0
  <2>1. CASE t = s BY <1>2, <1>3, <2>1 DEF BufInv
  <2>2. CASE t # s
    <3>1. arb'[t] = arb[t] /\ pos'[t] = pos[t] BY <2>2, Zenon DEF BufInv, RuleTypes
    <3> QED BY <1>3, <3>1, Zenon DEF BufInv, PosExact, PrimeFirst, Place
  <2> QED BY <2>1, <2>2, Zenon
<1> QED BY <1>3, <1>4, <1>5 DEF BufInv

-----------------------------------------------------------------------------
(* The steps of the arbiter. *)

(* A prime of one stream is taken. *)
LEMMA TakePrimeStep ==
    ASSUME PrimesInv, NEW s \in Streams, IsAtHead(s, "Prime"), TakePrime(s),
           count < MemCapacity \/ pos[s] <= pos[Other(s)],
           pc' = "check", UNCHANGED <<layerVars, got, group>>
    PROVE  PrimesInv' /\ PairInOrder
<1>1. /\ BufInv /\ ArbiterTypes /\ RuleTypes /\ MemInv /\ MonTypes
      /\ NeverStuck /\ PeekedStays
  BY Parts
<1>2. arb[s] # << >> /\ Head(arb[s]).k = "Prime" BY DEF IsAtHead
<1>3. Head(arb[s]) \in Elements /\ Head(arb[s]).i = Place(s) BY <1>1, <1>2, AtHead
<1>4. Head(arb[s]).n = 1 BY <1>2, <1>3 DEF Elements
<1>5. /\ arb' = [arb EXCEPT ![s] = Tail(@)]
      /\ pos' = [pos EXCEPT ![s] = Place(s) + Head(arb[s]).n]
  BY Zenon, <1>3, <1>4 DEF TakePrime
<1>6. BufInv'
  <2>1. Head(arb[s]).n \in Nat BY <1>4
  <2> QED BY Zenon, <1>1, <1>2, <1>4, <1>5, <2>1, OneTaken
<1>7. /\ pos[s] \in Nat /\ pos[Other(s)] \in Nat /\ Other(s) \in Streams /\ pos[Other(s)] # 1
      /\ Place(s) \in Nat /\ pos[s] <= Place(s)
  <2>1. Other(s) \in Streams BY OtherStream
  <2>2. pos[Other(s)] # 1 BY <1>1, <2>1, Zenon DEF BufInv, PrimeFirst
  <2> QED BY <1>1, <2>1, <2>2, PlaceOf, Zenon
<1>8. CASE pos[s] < pos[Other(s)]
  <2>1. RuleTypes' /\ MemInv' BY <1>1, <1>3, <1>7, <1>8, TakePrimeBehind, Zenon
  <2>2. MonTypes' /\ PairInOrder
    <3> DEFINE n == Place(s)
    <3>1. process(s, n) BY <1>3, Zenon DEF TakePrime
    <3> HIDE DEF n
    <3>2. \/ \E e \in mem : e.i = n /\ Yield(n, e.s, s)
          \/ UNCHANGED monbuf
      BY <1>8, <3>1 DEF process, NoYield
    <3>0. n \in Nat /\ pos[s] <= n BY <1>7 DEF n
    <3>3. ASSUME NEW e \in mem, e.i = n, Yield(n, e.s, s)
          PROVE  MonTypes' /\ PairInOrder
      <4>0. e.i >= pos[s] BY <1>7, <3>0, <3>3
      <4>1. e.s = Other(s) BY <1>1, <1>7, <1>8, <4>0 DEF MemInv, MemOfAhead
      <4>2. \A j \in compared : j < n
        <5>1. \A j \in compared : j < pos[s] /\ j \in Nat BY <1>1 DEF MemInv, SeenBefore, RuleTypes
        <5> QED BY <1>7, <3>0, <5>1
      <4>3. Other(s) # s BY OtherStream, Zenon
      <4> QED BY <1>1, <1>7, <3>0, <3>3, <4>1, <4>2, <4>3, YieldPair, Zenon
    <3> QED BY <1>1, <3>2, <3>3, NoPair
  <2> QED BY <1>1, <1>6, <2>1, <2>2, PartsNext, Zenon DEF ArbiterTypes, NeverStuck, PeekedStays
<1>9. CASE pos[Other(s)] <= pos[s]
  <2>1. count < MemCapacity
    <3>1. CASE count < MemCapacity BY <3>1
    <3>2. CASE pos[s] <= pos[Other(s)]
      <4>1. pos[s] = pos[Other(s)] BY <1>7, <1>9, <3>2
      <4> QED BY <1>1, <4>1, RoomWhenEqual
    <3> QED BY <3>1, <3>2
  <2>2. RuleTypes' /\ MemInv' /\ UNCHANGED <<monbuf, compared>>
    BY <1>1, <1>3, <1>9, <2>1, TakePrimeAhead
  <2>3. MonTypes' /\ PairInOrder BY <1>1, <2>2, NoPair, Zenon
  <2> QED BY <1>1, <1>6, <2>2, <2>3, PartsNext DEF ArbiterTypes, NeverStuck, PeekedStays
<1> QED BY <1>7, <1>8, <1>9

(* A hole of one stream is taken. *)
LEMMA TakeHoleStep ==
    ASSUME PrimesInv, NEW s \in Streams, IsAtHead(s, "hole"), TakeHole(s),
           pc' = "check", UNCHANGED <<layerVars, got, group>>
    PROVE  PrimesInv' /\ PairInOrder
<1>1. /\ BufInv /\ ArbiterTypes /\ RuleTypes /\ MemInv /\ MonTypes
      /\ NeverStuck /\ PeekedStays
  BY Parts
<1>2. arb[s] # << >> /\ Head(arb[s]).k = "hole" BY DEF IsAtHead
<1>p. pos[s] # 0 /\ Place(s) = pos[s]
  <2>1. "hole" # "Prime" OBVIOUS
  <2>2. pos[s] # 0 BY <1>1, <1>2, <2>1, Zenon DEF BufInv, PrimeFirst
  <2> QED BY <2>2, Zenon DEF Place
<1>3. Head(arb[s]).n \in Nat BY <1>1, <1>2, AtHead DEF Elements
<1>4. /\ arb' = [arb EXCEPT ![s] = Tail(@)]
      /\ pos' = [pos EXCEPT ![s] = Place(s) + Head(arb[s]).n]
  BY <1>1, <1>p DEF TakeHole, RuleTypes
<1>5. BufInv' BY Zenon, <1>1, <1>2, <1>3, <1>p, <1>4, OneTaken
<1>6. RuleTypes' /\ MemInv' /\ UNCHANGED <<monbuf, compared>>
  BY <1>1, <1>3, TakeHoleKeeps
<1>7. MonTypes' /\ PairInOrder BY <1>1, <1>6, NoPair, Zenon
<1> QED BY <1>1, <1>5, <1>6, <1>7, PartsNext DEF ArbiterTypes, NeverStuck, PeekedStays

(* Rule 1, with equal indexes. *)
LEMMA SameIndexStep ==
    ASSUME PrimesInv, SameIndex
    PROVE  PrimesInv' /\ PairInOrder
<1>1. /\ BufInv /\ ArbiterTypes /\ RuleTypes /\ MemInv /\ MonTypes
      /\ NeverStuck /\ PeekedStays
  BY Parts
<1>2. \A s \in Streams : arb[s] # << >> /\ Head(arb[s]).k = "Prime"
  BY DEF SameIndex, BothPrimes, IsAtHead
<1>3. \A s \in Streams : Head(arb[s]) \in Elements /\ Head(arb[s]).i = Place(s)
  BY <1>1, <1>2, AtHead
<1>4. \A s \in Streams : Head(arb[s]).n = 1 BY <1>2, <1>3, Zenon DEF Elements
<1> DEFINE n == Place(0)
<1>5. /\ arb' = [s \in Streams |-> Tail(arb[s])] /\ Yield(n, 0, 1)
      /\ pos' = [s \in Streams |-> n + 1] /\ Place(1) = n
      /\ pc' = "check" /\ UNCHANGED <<layerVars, got, group>>
  BY <1>3 DEF SameIndex, Streams
<1>6. ASSUME NEW s \in Streams
      PROVE  /\ arb'[s] \in Seq(Elements) /\ Len(arb'[s]) <= BufCapacity
             /\ PosExact(s)' /\ PrimeFirst(s)'
  <2>1. arb'[s] = Tail(arb[s]) /\ pos'[s] = Place(s) + Head(arb[s]).n
    BY <1>4, <1>5, Zenon DEF Streams
  <2>2. Head(arb[s]).n \in Nat BY <1>4
  <2> QED BY <1>1, <1>2, <1>4, <1>5, <2>1, <2>2, HeadDropped, Zenon
<1>7. LayerTypes' /\ fetched' = fetched /\ pending' = pending
  BY <1>1, <1>5 DEF BufInv, LayerTypes, layerVars
<1>8. arb' \in [Streams -> Seq(Elements)] BY <1>5, <1>6, Zenon
<1>9. BufInv' BY <1>1, <1>6, <1>7, <1>8, Zenon DEF BufInv
<1>10. RuleTypes' /\ MemInv' BY <1>1, <1>3, SameIndexKeeps
<1>11. MonTypes' /\ PairInOrder
  <2>1. 0 \in Streams /\ 1 \in Streams /\ 0 # 1 BY DEF Streams
  <2>2. n \in Nat /\ \A j \in compared : j < n
    <3>1. pos[0] \in Nat /\ n \in Nat /\ pos[0] <= n BY <1>1, <2>1, PlaceOf, Zenon
    <3>2. \A j \in compared : j < pos[0] /\ j \in Nat
      BY <1>1, <2>1 DEF MemInv, SeenBefore, RuleTypes
    <3> HIDE DEF n
    <3> QED BY <3>1, <3>2
  <2> QED BY <1>1, <1>5, <2>1, <2>2, YieldPair
<1> QED BY <1>1, <1>5, <1>9, <1>10, <1>11, PartsNext DEF ArbiterTypes, NeverStuck, PeekedStays

(* Rule 1, with different indexes. *)
LEMMA DifferentIndexStep ==
    ASSUME PrimesInv, DifferentIndex
    PROVE  PrimesInv' /\ PairInOrder
<1> DEFINE s == IF pos[0] < pos[1] THEN 0 ELSE 1
<1>1. BufInv /\ RuleTypes BY Parts
<1>2. \A t \in Streams : IsAtHead(t, "Prime") BY DEF DifferentIndex, BothPrimes
<1>3. \A t \in Streams : Head(arb[t]).i = Place(t) BY <1>1, <1>2, AtHead, Zenon DEF IsAtHead
<1>4. pos[0] # pos[1] BY <1>3 DEF DifferentIndex, Streams, Place
<1>5. s \in Streams /\ pos[s] <= pos[Other(s)] BY <1>1, <1>4 DEF Streams, Other, RuleTypes
<1>6. TakePrime(s) /\ pc' = "check" /\ UNCHANGED <<layerVars, got, group>>
  BY DEF DifferentIndex
<1> HIDE DEF s
<1> QED BY <1>2, <1>5, <1>6, TakePrimeStep

(* Steps that only move the arbiter on. *)
LEMMA ArbiterMoves ==
    ASSUME PrimesInv, UNCHANGED <<layerVars, arb, ruleVars, monbuf>>,
           ArbiterTypes', NeverStuck', PeekedStays'
    PROVE  PrimesInv' /\ PairInOrder
<1>1. BufInv /\ RuleTypes /\ MemInv /\ MonTypes BY Parts
<1>2. BufInv'
  BY <1>1, Zenon DEF BufInv, LayerTypes, layerVars, ruleVars, PosExact, PrimeFirst, Place
<1>3. RuleTypes' /\ MemInv'
  BY <1>1 DEF RuleTypes, MemInv, ruleVars, CountIsSize, NothingSkipped, OneEntryPerKey,
              SeenBefore, MemOfAhead
<1>4. MonTypes' /\ PairInOrder BY <1>1, NoPair
<1> QED BY <1>2, <1>3, <1>4, PartsNext

(* The arbiter looks whether the streams are done. *)
LEMMA CheckStep ==
    ASSUME PrimesInv, Check
    PROVE  PrimesInv' /\ PairInOrder
<1>1. ArbiterTypes BY Parts
<1>2. UNCHANGED <<layerVars, arb, ruleVars, monbuf>> BY Zenon DEF Check
<1>3. ArbiterTypes' /\ NeverStuck' /\ PeekedStays'
  BY <1>1 DEF Check, ArbiterTypes, NeverStuck, PeekedStays
<1> QED BY <1>2, <1>3, ArbiterMoves

(* The arbiter peeks at a buffer. *)
LEMMA PeekStep ==
    ASSUME PrimesInv, Peek(0, "peek0", "peek1") \/ Peek(1, "peek1", "both")
    PROVE  PrimesInv' /\ PairInOrder
<1>1. ArbiterTypes /\ PeekedStays BY Parts
<1>2. UNCHANGED <<layerVars, arb, ruleVars, monbuf>> BY DEF Peek
<1>3. CASE Peek(0, "peek0", "peek1")
  <2>1. ArbiterTypes' /\ NeverStuck' BY Zenon, <1>1, <1>3 DEF Peek, ArbiterTypes, NeverStuck
  <2>2. PeekedStays' BY <1>1, <1>3 DEF Peek, PeekedStays, ArbiterTypes, Streams
  <2> QED BY <1>2, <2>1, <2>2, ArbiterMoves, Zenon
<1>4. CASE Peek(1, "peek1", "both")
  <2>1. ArbiterTypes' /\ NeverStuck' BY Zenon, <1>1, <1>4 DEF Peek, ArbiterTypes, NeverStuck
  <2>2. PeekedStays' BY <1>1, <1>4 DEF Peek, PeekedStays, ArbiterTypes, Streams
  <2> QED BY <1>2, <2>1, <2>2, ArbiterMoves
<1> QED BY <1>3, <1>4

(* The group is put in order: its first stream is not ahead. *)
LEMMA ChooseStep ==
    ASSUME PrimesInv, Choose
    PROVE  PrimesInv' /\ PairInOrder
<1>1. ArbiterTypes /\ PeekedStays /\ RuleTypes BY Parts
<1>2. UNCHANGED <<layerVars, arb, ruleVars, monbuf>> BY DEF Choose
<1>3. pos' = pos /\ arb' = arb /\ got' = got /\ pc = "both" /\ pc' = "first"
  BY DEF Choose, ruleVars
<1>4. pos[0] \in Nat /\ pos[1] \in Nat BY <1>1 DEF RuleTypes, Streams
<1>5. group' \in {<<0, 1>>, <<1, 0>>} /\ pos[group'[1]] <= pos[group'[2]]
  <2>1. CASE group = <<0, 1>> BY <1>4, <2>1 DEF Choose, bg_update, Ps_ORDER_EXP
  <2>2. CASE group = <<1, 0>> BY <1>4, <2>2 DEF Choose, bg_update, Ps_ORDER_EXP
  <2> QED BY <1>1, <2>1, <2>2 DEF ArbiterTypes
<1>6. ArbiterTypes' /\ NeverStuck' BY <1>1, <1>3, <1>5 DEF ArbiterTypes, NeverStuck
<1>7. PeekedStays' BY <1>1, <1>3, <1>5 DEF PeekedStays
<1> QED BY <1>2, <1>6, <1>7, ArbiterMoves

(* A rule for F, or the next one. *)
LEMMA TryStep ==
    ASSUME PrimesInv, NEW F \in Streams, NEW at, NEW otherwise,
           TryRules(at, F, otherwise),
           /\ ~PrimeRule(F) /\ ~HoleRule(F) /\ pc = at /\ pc' = otherwise
           /\ UNCHANGED <<layerVars, got, group, arb, ruleVars, monbuf>>
           => ArbiterTypes' /\ NeverStuck' /\ PeekedStays'
    PROVE  PrimesInv' /\ PairInOrder
<1>1. CASE PrimeRule(F) /\ TakePrime(F) /\ pc' = "check"
  BY <1>1, TakePrimeStep DEF PrimeRule, TryRules
<1>2. CASE HoleRule(F) /\ TakeHole(F) /\ pc' = "check"
  BY <1>2, TakeHoleStep DEF HoleRule, TryRules
<1>3. CASE /\ ~PrimeRule(F) /\ ~HoleRule(F) /\ pc' = otherwise
           /\ UNCHANGED <<arb, ruleVars, monbuf>>
  BY <1>3, ArbiterMoves DEF TryRules
<1> QED BY <1>1, <1>2, <1>3 DEF TryRules

(* No rule matched for the first stream of the group: it is the one whose *)
(* buffer was empty.                                                       *)
LEMMA FirstStep ==
    ASSUME PrimesInv, TryRules("first", group[1], "second")
    PROVE  PrimesInv' /\ PairInOrder
<1> DEFINE F == group[1]
<1>1. BufInv /\ ArbiterTypes /\ RuleTypes /\ PeekedStays BY Parts, Zenon
<1>2. F \in Streams /\ Other(F) = group[2] BY <1>1 DEF ArbiterTypes, Streams, Other
<1>3. ASSUME ~PrimeRule(F), ~HoleRule(F), pc = "first", pc' = "second",
             UNCHANGED <<layerVars, got, group, arb, ruleVars, monbuf>>
      PROVE  ArbiterTypes' /\ NeverStuck' /\ PeekedStays'
  <2>1. pos[F] <= pos[Other(F)] BY Zenon, <1>1, <1>2, <1>3 DEF PeekedStays
  <2>2. arb[F] = << >>
    <3> SUFFICES ASSUME arb[F] # << >> PROVE FALSE OBVIOUS
    <3>1. Head(arb[F]).k \in {"Prime", "hole"} BY Zenon, <1>1, <1>2, AtHead DEF Elements
    <3> QED BY <1>3, <2>1, <3>1, Zenon DEF PrimeRule, HoleRule, IsAtHead
  <2>3. got[F] = 0 BY <1>1, <1>2, <1>3, <2>2 DEF PeekedStays, ArbiterTypes
  <2>4. ArbiterTypes' /\ NeverStuck' BY <1>1, <1>3 DEF ArbiterTypes, NeverStuck
  <2> QED BY Zenon, <1>1, <1>3, <2>3, <2>4 DEF PeekedStays
<1> QED BY <1>2, <1>3, TryStep, Zenon

(* No rule matched for the second one either: not both buffers had an      *)
(* element, so this is no reason to abort.                                 *)
LEMMA SecondStep ==
    ASSUME PrimesInv, TryRules("second", group[2], NoMatch)
    PROVE  PrimesInv' /\ PairInOrder
<1> DEFINE F == group[2]
<1>1. ArbiterTypes /\ PeekedStays BY Parts
<1>2. F \in Streams /\ group[1] \in Streams BY <1>1 DEF ArbiterTypes, Streams
<1>3. ASSUME pc = "second", pc' = NoMatch, UNCHANGED <<got, group>>
      PROVE  ArbiterTypes' /\ NeverStuck' /\ PeekedStays'
  <2>1. got[group[1]] = 0 BY <1>1, <1>3 DEF PeekedStays
  <2>2. pc' = "check" BY <1>2, <1>3, <2>1 DEF NoMatch
  <2> QED BY <1>1, <1>3, <2>2 DEF ArbiterTypes, NeverStuck, PeekedStays
<1> QED BY <1>2, <1>3, TryStep

-----------------------------------------------------------------------------
(* The steps of the other threads. *)

(* A performance layer leaves alone what is the arbiter's, and empties no  *)
(* buffer.                                                                 *)
LEMMA LayerMoves ==
    ASSUME PrimesInv, BufInv', UNCHANGED <<pc, got, group, ruleVars, monbuf>>,
           \A t \in Streams : arb[t] # << >> => arb'[t] # << >>
    PROVE  PrimesInv' /\ PairInOrder
<1>1. /\ BufInv /\ ArbiterTypes /\ RuleTypes /\ MemInv /\ MonTypes
      /\ NeverStuck /\ PeekedStays
  BY Parts, ZenonT(30)
<1>2. RuleTypes' /\ MemInv'
  BY <1>1 DEF RuleTypes, MemInv, ruleVars, CountIsSize, NothingSkipped, OneEntryPerKey,
              SeenBefore, MemOfAhead
<1>3. MonTypes' /\ PairInOrder BY <1>1, NoPair
<1>4. ArbiterTypes' /\ NeverStuck' BY <1>1, Zenon DEF ArbiterTypes, NeverStuck
<1>5. pos' = pos BY Zenon DEF ruleVars
<1>6. PeekedStays' BY <1>1, <1>5 DEF PeekedStays, Streams
<1> QED BY <1>2, <1>3, <1>4, <1>6, PartsNext, Zenon

(* An element is appended: which one is the first then. *)
LEMMA HeadAppended ==
    ASSUME NEW a \in Seq(Elements), NEW x \in Elements
    PROVE  Head(Append(a, x)) = IF a = << >> THEN x ELSE Head(a)
OBVIOUS

(* An element is appended that continues the buffer. *)
LEMMA Appended ==
    ASSUME BufInv, RuleTypes, NEW s \in Streams, NEW x \in Elements,
           x.i = fetched[s] - pending[s] + 1, Len(arb[s]) < BufCapacity,
           pos[s] = 0 /\ arb[s] = << >> => x.k = "Prime",
           arb' = [arb EXCEPT ![s] = Append(@, x)],
           LayerTypes', UNCHANGED pos,
           fetched'[s] - pending'[s] + 1 = x.i + x.n, fetched'[s] - pending'[s] >= 0,
           \A t \in Streams : t # s => fetched'[t] = fetched[t] /\ pending'[t] = pending[t]
    PROVE  BufInv' /\ \A t \in Streams : arb[t] # << >> => arb'[t] # << >>
<1>1. /\ arb[s] \in Seq(Elements) /\ Place(s) \in Nat /\ x.i \in Nat /\ x.n \in Nat
      /\ arb'[s] = Append(arb[s], x)
  BY PlaceOf DEF BufInv, LayerTypes, Elements
<1>2. Exact(arb[s], Place(s), x.i) BY DEF BufInv, PosExact
<1>3. Exact(arb'[s], Place(s), x.i + x.n) BY <1>1, <1>2, ExactAppend, Zenon
<1>p. \A t \in Streams : Place(t)' = Place(t) BY Zenon DEF Place
<1>4. PosExact(s)' BY <1>3, <1>p, Zenon DEF PosExact
<1>5. /\ arb'[s] \in Seq(Elements) /\ Len(arb'[s]) = Len(arb[s]) + 1 /\ arb'[s] # << >>
      /\ Len(arb[s]) \in Nat
  <2>1. Append(arb[s], x) \in Seq(Elements) /\ Len(Append(arb[s], x)) = Len(arb[s]) + 1
        /\ Append(arb[s], x) # << >>
        /\ Len(arb[s]) \in Nat
    BY <1>1, OneMore, Zenon
  <2> QED BY <1>1, <2>1, Zenon
<1>6. Len(arb'[s]) <= BufCapacity BY <1>5, PrimesAssumption
<1>7. arb' \in [Streams -> Seq(Elements)] BY <1>5, Zenon DEF BufInv
<1>9. PrimeFirst(s)'
  <2>1. Head(arb'[s]) = IF arb[s] = << >> THEN x ELSE Head(arb[s]) BY <1>1, HeadAppended
  <2> QED BY <1>5, <2>1, Zenon DEF BufInv, PrimeFirst
<1>8. ASSUME NEW t \in Streams
      PROVE  /\ Len(arb'[t]) <= BufCapacity /\ PosExact(t)' /\ PrimeFirst(t)'
             /\ fetched'[t] - pending'[t] >= 0
             /\ arb[t] # << >> => arb'[t] # << >>
  <2>1. CASE t = s BY <1>4, <1>5, <1>6, <1>9, <2>1, Zenon
  <2>2. CASE t # s
    <3>1. arb'[t] = arb[t] /\ fetched'[t] = fetched[t] /\ pending'[t] = pending[t]
      BY <2>2 DEF BufInv
    <3> QED BY Zenon, <1>p, <3>1 DEF BufInv, PosExact, PrimeFirst
  <2> QED BY <2>1, <2>2, Zenon
<1> QED BY Zenon, <1>7, <1>8 DEF BufInv

(* A step of a performance layer. *)
LEMMA LayerStep ==
    ASSUME PrimesInv, NEW s \in Streams, Layer(s)
    PROVE  PrimesInv' /\ PairInOrder
<1>1. BufInv /\ RuleTypes /\ LayerTypes BY Parts DEF BufInv
<1>2. arb[s] \in Seq(Elements) /\ Len(arb[s]) \in Nat /\ fetched[s] \in Nat /\ pending[s] \in Nat
      /\ fetched[s] - pending[s] >= 0
  BY <1>1 DEF BufInv, LayerTypes
<1>3. CASE Forward(s)
  <2> DEFINE x == Prime(fetched[s] + 1)
  <2>0. fetched[s] + 1 \in Nat BY <1>2
  <2>1. x \in Elements /\ x.i = fetched[s] + 1 /\ x.n = 1 /\ x.k = "Prime"
    BY <2>0, Zenon DEF Prime, Elements
  <2>2. /\ arb' = [arb EXCEPT ![s] = Append(@, x)] /\ pending[s] = 0
        /\ fetched' = [fetched EXCEPT ![s] = @ + 1] /\ pending' = pending
        /\ ended' = ended /\ running' = running
        /\ UNCHANGED <<pc, got, group, ruleVars, monbuf>>
    BY <1>3, Zenon DEF Forward
  <2> HIDE DEF x
  <2>3. Len(arb[s]) < BufCapacity BY <1>2, <1>3, PrimesAssumption DEF Forward, FreeSpace
  <2>4. LayerTypes' BY <1>1, <1>2, <2>2 DEF LayerTypes
  <2>5. /\ x.i = fetched[s] - pending[s] + 1 /\ fetched'[s] - pending'[s] + 1 = x.i + x.n
        /\ fetched'[s] - pending'[s] >= 0
        /\ \A t \in Streams : t # s => fetched'[t] = fetched[t] /\ pending'[t] = pending[t]
    BY <1>1, <1>2, <2>1, <2>2 DEF LayerTypes
  <2>6. UNCHANGED pos BY <2>2 DEF ruleVars
  <2>7. BufInv' /\ \A t \in Streams : arb[t] # << >> => arb'[t] # << >>
    BY Zenon, <1>1, <2>1, <2>2, <2>3, <2>4, <2>5, <2>6, Appended
  <2> QED BY <2>2, <2>7, LayerMoves
<1>4. CASE PushHole(s)
  <2> DEFINE x == Hole(fetched[s] - pending[s] + 1, pending[s])
  <2>1. x \in Elements /\ x.i = fetched[s] - pending[s] + 1 /\ x.n = pending[s]
    BY <1>2 DEF Hole, Elements
  <2>2. /\ arb' = [arb EXCEPT ![s] = Append(@, x)] /\ fetched' = fetched
        /\ pending' = [pending EXCEPT ![s] = 0]
        /\ ended' = ended /\ running' = running
        /\ UNCHANGED <<pc, got, group, ruleVars, monbuf>>
    BY <1>4, Zenon DEF PushHole
  <2> HIDE DEF x
  <2>3. Len(arb[s]) < BufCapacity BY <1>2, <1>4, PrimesAssumption DEF PushHole, FreeSpace
  <2>4. LayerTypes' BY <1>1, <1>2, <2>2, Zenon DEF LayerTypes
  <2>5. /\ fetched'[s] - pending'[s] + 1 = x.i + x.n /\ fetched'[s] - pending'[s] >= 0
        /\ \A t \in Streams : t # s => fetched'[t] = fetched[t] /\ pending'[t] = pending[t]
    BY <1>1, <1>2, <2>1, <2>2 DEF LayerTypes
  <2>6. UNCHANGED pos BY <2>2 DEF ruleVars
  <2>8. ~(pos[s] = 0 /\ arb[s] = << >>)
    <3>1. pending[s] # 0 BY <1>2, <1>4 DEF PushHole
    <3> QED BY <1>1, <3>1, Zenon DEF BufInv, PrimeFirst
  <2>7. BufInv' /\ \A t \in Streams : arb[t] # << >> => arb'[t] # << >>
    BY Zenon, <1>1, <2>1, <2>2, <2>3, <2>4, <2>5, <2>6, <2>8, Appended
  <2> QED BY <2>2, <2>7, LayerMoves
<1>5. CASE Drop(s) \/ StreamEnds(s) \/ LayerExits(s)
  <2>1. UNCHANGED <<arb, pc, got, group, ruleVars, monbuf>>
    BY <1>5, Zenon DEF Drop, StreamEnds, LayerExits
  <2>2. LayerTypes' /\ \A t \in Streams : fetched'[t] - pending'[t] = fetched[t] - pending[t]
    <3>1. CASE Drop(s)
      <4>1. /\ pending' = [pending EXCEPT ![s] = @ + 1] /\ fetched' = [fetched EXCEPT ![s] = @ + 1]
            /\ ended' = ended /\ running' = running
        BY <3>1 DEF Drop
      <4> QED BY <1>1, <4>1 DEF LayerTypes
    <3>2. CASE StreamEnds(s) BY <1>1, <3>2 DEF StreamEnds, LayerTypes
    <3>3. CASE LayerExits(s) BY <1>1, <3>3 DEF LayerExits, LayerTypes
    <3> QED BY <1>5, <3>1, <3>2, <3>3, Zenon
  <2>3. arb' = arb /\ pos' = pos BY <2>1 DEF ruleVars
  <2>4. ASSUME NEW t \in Streams PROVE PrimeFirst(t)'
    <3>1. PrimeFirst(t) BY <1>1, Zenon DEF BufInv
    <3>2. arb[t] = << >> /\ pending[t] = 0 => pending'[t] = 0
      <4>1. CASE Drop(s)
        <5>1. pending' = [pending EXCEPT ![s] = @ + 1] BY <4>1 DEF Drop
        <5>2. CASE t = s
          <6>1. pending[s] = 0 => BufCapacity - Len(arb[s]) <= 0 BY <4>1 DEF Drop, FreeSpace
          <6>2. arb[s] = << >> => Len(arb[s]) = 0 OBVIOUS
          <6>3. BufCapacity > 0 BY PrimesAssumption
          <6> QED BY <1>2, <5>2, <6>1, <6>2, <6>3, PrimesAssumption
        <5>3. CASE t # s BY <1>1, <5>1, <5>3, Zenon DEF LayerTypes
        <5> QED BY <5>2, <5>3, Zenon
      <4>2. CASE StreamEnds(s) \/ LayerExits(s) BY <4>2 DEF StreamEnds, LayerExits
      <4> QED BY <1>5, <4>1, <4>2, Zenon
    <3> QED BY <2>3, <3>1, <3>2, Zenon DEF PrimeFirst
  <2>5. \A t \in Streams : PosExact(t)'
    <3>1. \A t \in Streams : Place(t)' = Place(t) BY <2>3, Zenon DEF Place
    <3> QED BY <1>1, <2>2, <2>3, <3>1, Zenon DEF BufInv, PosExact
  <2>6. BufInv' BY <1>1, <2>2, <2>3, <2>4, <2>5, Zenon DEF BufInv
  <2> QED BY <2>1, <2>3, <2>6, LayerMoves, Zenon
<1> QED BY <1>3, <1>4, <1>5, Zenon DEF Layer

(* The monitor takes a pair. *)
LEMMA DeliverStep ==
    ASSUME PrimesInv, Deliver
    PROVE  PrimesInv' /\ PairInOrder
<1>1. /\ BufInv /\ ArbiterTypes /\ RuleTypes /\ MemInv /\ MonTypes
      /\ NeverStuck /\ PeekedStays
  BY Parts
<1>2. UNCHANGED <<layerVars, arb, pc, got, group, ruleVars>> BY DEF Deliver
<1>3. BufInv' 
  BY <1>1, <1>2, Zenon DEF BufInv, LayerTypes, layerVars, ruleVars, PosExact, PrimeFirst, Place
<1>4. RuleTypes' /\ MemInv'
  BY <1>1, <1>2, Zenon DEF RuleTypes, MemInv, ruleVars, CountIsSize, NothingSkipped, OneEntryPerKey,
                    SeenBefore, MemOfAhead
<1>5. ArbiterTypes' /\ NeverStuck' /\ PeekedStays'
  BY <1>1, <1>2 DEF ArbiterTypes, NeverStuck, PeekedStays, ruleVars
<1>6. /\ Len(monbuf) \in Nat /\ Len(monbuf) <= MonCapacity
      /\ monbuf' \in Seq(Pairs) /\ Len(monbuf') = Len(monbuf) - 1
  BY <1>1 DEF Deliver, MonTypes
<1>7. Len(monbuf') <= MonCapacity /\ ~(Len(monbuf') > Len(monbuf))
  BY <1>6, PrimesAssumption
<1> QED BY <1>3, <1>4, <1>5, <1>6, <1>7, PartsNext DEF MonTypes, PairInOrder

-----------------------------------------------------------------------------
(* The buffer group of two streams at the same place. *)
LEMMA InitialGroup ==
    ASSUME pos = [s \in Streams |-> 0]
    PROVE  bg_insert(bg_insert(<< >>, 0), 1) = <<1, 0>>
<1>1. bg_insert(<< >>, 0) = <<0>> BY DEF bg_insert
<1>2. ~Ps_ORDER_EXP(1, 0) BY DEF Ps_ORDER_EXP, Streams
<1> DEFINE list == <<0>>
           behind == {i \in 1 .. Len(list) : ~Ps_ORDER_EXP(1, list[i])}
           j == CHOOSE k \in behind : \A l \in behind : k <= l
<1>3. Len(list) = 1 /\ list[1] = 0 /\ list # << >> OBVIOUS
<1>4. behind = {1} BY <1>2, <1>3
<1>5. j = 1
  <2>1. \E k \in behind : \A l \in behind : k <= l BY <1>4
  <2> HIDE DEF behind
  <2>2. j \in behind BY <2>1, ZenonT(30)
  <2> HIDE DEF j
  <2> QED BY <1>4, <2>2, Zenon
<1>6. bg_insert(list, 1) = SubSeq(list, 1, j - 1) \o <<1>> \o SubSeq(list, j, Len(list))
  BY <1>2, <1>3 DEF bg_insert
<1> HIDE DEF j
<1>7. list \in Seq(Streams) /\ <<1>> \in Seq(Streams) BY DEF Streams
<1>8. SubSeq(list, 1, j - 1) = << >> BY <1>5, SubSeqEmpty
<1>9. SubSeq(list, j, Len(list)) = list BY <1>5, <1>7, SubSeqFull
<1> DEFINE both == <<1>> \o list
<1>10. /\ both \in Seq(Streams) /\ Len(both) = 2
       /\ both[1] = 1 /\ both[2] = 0
  <2>1. Len(<<1>>) = 1 OBVIOUS
  <2>2. /\ both \in Seq(Streams) /\ Len(both) = 1 + 1
        /\ \A i \in 1 .. 1 + 1 : both[i] = IF i <= 1 THEN <<1>>[i] ELSE list[i - 1]
    BY <1>3, <1>7, <2>1, ConcatProperties
  <2> HIDE DEF both
  <2> QED BY <1>3, <2>2
<1>11. both = <<1, 0>>
  <2> HIDE DEF both
  <2>1. <<1, 0>> \in Seq(Streams) /\ Len(<<1, 0>>) = 2 BY DEF Streams
  <2>2. \A i \in 1 .. Len(both) : both[i] = <<1, 0>>[i] BY <1>10
  <2> QED BY <1>10, <2>1, <2>2, SeqEqual
<1>12. << >> \o <<1>> = <<1>> BY <1>7, ConcatEmptySeq
<1> QED BY Zenon, <1>1, <1>6, <1>8, <1>9, <1>11, <1>12

(* The invariant holds at the start. *)
LEMMA PrimesInvInit == Init => PrimesInv
<1> SUFFICES ASSUME Init PROVE PrimesInv BY Zenon
<1>1. group = <<1, 0>> BY InitialGroup, Zenon DEF Init
<1>2. ArbiterTypes /\ NeverStuck /\ PeekedStays
  BY <1>1 DEF Init, ArbiterTypes, NeverStuck, PeekedStays
<1>3. RuleTypes BY DEF Init, RuleTypes
<1>4. MonTypes BY PrimesAssumption DEF Init, MonTypes
<1>5. MemInv
  <2>1. IsFiniteSet(mem) /\ Cardinality(mem) = 0 BY FS_EmptySet DEF Init
  <2>2. CountIsSize BY <2>1, PrimesAssumption DEF Init, CountIsSize
  <2>3. \A s \in Streams : Other(s) \in Streams BY OtherStream
  <2>4. NothingSkipped /\ OneEntryPerKey
    BY DEF Init, NothingSkipped, OneEntryPerKey, Streams
  <2>5. \A s \in Streams : SeenBefore(s) /\ MemOfAhead(s)
    BY <2>3 DEF Init, SeenBefore, MemOfAhead
  <2> QED BY <2>1, <2>2, <2>4, <2>5 DEF MemInv
<1>6. BufInv
  <2>1. LayerTypes /\ arb \in [Streams -> Seq(Elements)] BY SMTT(40) DEF Init, LayerTypes
  <2>2. ASSUME NEW s \in Streams
        PROVE  /\ Len(arb[s]) <= BufCapacity /\ PosExact(s) /\ PrimeFirst(s)
               /\ fetched[s] - pending[s] >= 0
    <3>1. arb[s] = << >> /\ pos[s] = 0 /\ fetched[s] = 0 /\ pending[s] = 0 BY DEF Init
    <3>2. Len(arb[s]) = 0 BY <3>1
    <3> QED BY <3>1, <3>2, PrimesAssumption DEF PosExact, Exact, PrimeFirst, Place
  <2> QED BY <2>1, <2>2 DEF BufInv
<1> QED BY <1>2, <1>3, <1>4, <1>5, <1>6, Parts

(* Every step keeps the invariant, and sends pairs in order. *)
LEMMA PrimesInvNext == PrimesInv /\ [Next]_vars => PrimesInv' /\ (UNCHANGED vars \/ PairInOrder)
<1> SUFFICES ASSUME PrimesInv, [Next]_vars
             PROVE  PrimesInv' /\ (UNCHANGED vars \/ PairInOrder)
  OBVIOUS
<1>1. CASE \E s \in Streams : Layer(s) BY <1>1, LayerStep
<1>2. CASE Arbiter
  <2>1. CASE Check BY <2>1, CheckStep
  <2>2. CASE Peek(0, "peek0", "peek1") \/ Peek(1, "peek1", "both") BY <2>2, PeekStep
  <2>3. CASE SameIndex BY <2>3, SameIndexStep
  <2>4. CASE DifferentIndex BY <2>4, DifferentIndexStep
  <2>5. CASE Choose BY <2>5, ChooseStep
  <2>6. CASE TryRules("first", group[1], "second") BY <2>6, FirstStep
  <2>7. CASE TryRules("second", group[2], NoMatch) BY <2>7, SecondStep
  <2> QED BY <1>2, <2>1, <2>2, <2>3, <2>4, <2>5, <2>6, <2>7 DEF Arbiter
<1>3. CASE Deliver BY <1>3, DeliverStep
<1>4. CASE UNCHANGED vars
  <2>1. /\ UNCHANGED <<layerVars, arb, ruleVars, monbuf>>
        /\ pc' = pc /\ got' = got /\ group' = group /\ pos' = pos /\ arb' = arb
    BY <1>4, Zenon DEF vars, ruleVars
  <2>2. ArbiterTypes' /\ NeverStuck' /\ PeekedStays'
    BY <2>1, Parts DEF ArbiterTypes, NeverStuck, PeekedStays
  <2> QED BY <1>4, <2>1, <2>2, ArbiterMoves
<1> QED BY <1>1, <1>2, <1>3, <1>4, Zenon DEF Next

(* The position of a stream is exact from its first prime on, and 0 before *)
(* that, whatever is lost in the performance layers, and the intmap        *)
(* remembers the stream that is ahead.                                     *)
THEOREM PositionsExact == Spec => []PrimesInv
<1>1. PrimesInv /\ [Next]_vars => PrimesInv' BY PrimesInvNext
<1> QED BY PrimesInvInit, <1>1, PTL DEF Spec

(* The buffers stay within their capacity. *)
THEOREM PrimesTyped == Spec => []TypeOK
<1>1. PrimesInv => TypeOK BY Zenon DEF PrimesInv
<1> QED BY <1>1, PositionsExact, PTL

(* count is the size of the intmap, which never goes over its limit. *)
THEOREM IntmapBounded == Spec => []CountIsSize
<1>1. PrimesInv => CountIsSize BY Zenon DEF PrimesInv
<1> QED BY <1>1, PositionsExact, PTL

(* Primes with the same index that reach the rules are compared, however   *)
(* small the intmap is.                                                    *)
THEOREM NoComparisonSkipped == Spec => []NothingSkipped
<1>1. PrimesInv => NothingSkipped BY DEF PrimesInv
<1> QED BY <1>1, PositionsExact, PTL

(* The arbiter never aborts for want of a rule. *)
THEOREM ArbiterNeverStuck == Spec => []NeverStuck
<1>1. PrimesInv => NeverStuck BY DEF PrimesInv
<1> QED BY <1>1, PositionsExact, PTL

(* The monitor gets a prime of each stream in every pair, and the pairs in *)
(* the order of their indexes.                                             *)
THEOREM PairsAscend == Spec => PairsInOrder
<1>1. PrimesInv /\ [Next]_vars => [PairInOrder]_vars BY PrimesInvNext
<1> QED BY <1>1, PositionsExact, PTL DEF Spec, PairsInOrder
=============================================================================
