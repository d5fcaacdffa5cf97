------------------------ MODULE DropOlderThanProofs ------------------------
(***************************************************************************)
(* The binary search of drop_older_than is right for every size of the     *)
(* ring, every split of the queue and every id.                            *)
(* And the monitor of the bank, at the other end of the arbiter: it        *)
(* believes nothing false and raises no false alarm, for all accounts,     *)
(* balances and amounts.                                                   *)
(***************************************************************************)
EXTENDS DropOlderThan, BankMonitor, SequenceTheorems, TLAPS

-----------------------------------------------------------------------------
(* The bank monitor. *)

(* The inductive invariant of the bank monitor.  After a Clear the         *)
(* balances may be anything, so the maps must be empty then.               *)
Forgotten(m) ==
    m.balances = EmptyMap /\ m.upper_bounds = EmptyMap /\ m.lower_bounds = EmptyMap

MonInv ==
    /\ BankTypeOK
    /\ BeliefsTrue
    /\ NoFalseAlarm
    /\ cleared = "yes" => Forgotten(mon)

(* Inserting and removing a key leave the others alone (intmap_insert and  *)
(* intmap_remove of intmap.cpp).                                           *)
LEMMA InsertMap ==
    ASSUME NEW f \in Maps, NEW a \in Accounts, NEW v \in Nat
    PROVE  /\ Insert(f, a, v) \in Maps
           /\ \A b \in Accounts : Insert(f, a, v)[b] = IF b = a THEN v ELSE f[b]
BY DEF Insert, Maps

(* The same of a key that is removed. *)
LEMMA RemoveMap ==
    ASSUME NEW f \in Maps, NEW a \in Accounts
    PROVE  /\ Remove(f, a) \in Maps
           /\ \A b \in Accounts : Remove(f, a)[b] = IF b = a THEN Absent ELSE f[b]
BY DEF Remove, Maps

(* An account an intmap does not have is Absent, the others are natural. *)
LEMMA MapValue ==
    ASSUME NEW f \in Maps, NEW a \in Accounts
    PROVE  /\ f[a] \in Int
           /\ Has(f, a) <=> f[a] \in Nat
           /\ Has(f, a) <=> f[a] # -1
BY DEF Maps, Has, Absent

(* The maps B, U and L agree with the balance v of an account. *)
Agrees(B, U, L, a, v) ==
    IF Has(B, a)
      THEN B[a] = v
      ELSE /\ Has(U, a) => v <= U[a]
           /\ Has(L, a) => L[a] <= v

(* Sound(m, r): a monitor that has counted no error and believes only what *)
(* is true of r.                                                           *)
Sound(m, r) == m \in Monitors /\ Believes(m, r) /\ m.errors = 0

(* Maps that agree with every balance make a sound monitor ... *)
LEMMA SoundIsAgreement ==
    ASSUME NEW B \in Maps, NEW U \in Maps, NEW L \in Maps, NEW r,
           \A b \in Accounts : Agrees(B, U, L, b, r[b])
    PROVE  Sound(Monitor(B, U, L, 0), r)
BY Zenon DEF Sound, Monitors, Monitor, Believes, Agrees

(* ... and a sound monitor is made of such maps. *)
LEMMA SoundMonitor ==
    ASSUME NEW m, NEW r, Sound(m, r)
    PROVE  /\ m.balances \in Maps /\ m.upper_bounds \in Maps /\ m.lower_bounds \in Maps
           /\ m.errors = 0
           /\ m = Monitor(m.balances, m.upper_bounds, m.lower_bounds, 0)
           /\ \A b \in Accounts :
                Agrees(m.balances, m.upper_bounds, m.lower_bounds, b, r[b])
BY DEF Sound, Monitors, Monitor, Believes, Agrees

(* Maps that agree with every balance, and maps that differ at one account *)
(* at most, as the balances do.                                            *)
AgreesAll(B, U, L, r) == \A b \in Accounts : Agrees(B, U, L, b, r[b])

SameButAt(a, B, U, L, r, B2, U2, L2, s) == \A b \in Accounts :
    b # a => B2[b] = B[b] /\ U2[b] = U[b] /\ L2[b] = L[b] /\ s[b] = r[b]

(* A report is about one account, so the others need no argument. *)
LEMMA AgreesElsewhere ==
    ASSUME NEW B, NEW U, NEW L, NEW B2, NEW U2, NEW L2, NEW r, NEW s,
           NEW a \in Accounts,
           AgreesAll(B, U, L, r), SameButAt(a, B, U, L, r, B2, U2, L2, s),
           Agrees(B2, U2, L2, a, s[a])
    PROVE  AgreesAll(B2, U2, L2, s)
<1>1. ASSUME NEW b \in Accounts, b # a
      PROVE  Agrees(B2, U2, L2, b, s[b])
  <2>1. Agrees(B, U, L, b, r[b]) BY Zenon DEF AgreesAll
  <2>2. B2[b] = B[b] /\ U2[b] = U[b] /\ L2[b] = L[b] /\ s[b] = r[b]
    BY <1>1, Zenon DEF SameButAt
  <2> QED BY <2>1, <2>2, Zenon DEF Agrees, Has
<1> QED BY <1>1, Zenon DEF AgreesAll

(* Conditions that do not hold are not counted. *)
LEMMA NothingCounted == ASSUME NEW c, NEW d, ~c, ~d PROVE 0 + Count(c, d) = 0
BY DEF Count

(* A balance report (SawBalance) that tells the truth. *)
LEMMA SeeBalanceSound ==
    ASSUME NEW m, NEW r \in [Accounts -> Nat], NEW a \in Accounts, Sound(m, r)
    PROVE  Sound(SeeBalance(m, a, r[a]), r)
<1> DEFINE B == m.balances
           U == m.upper_bounds
           L == m.lower_bounds
           B2 == Insert(B, a, r[a])
           U2 == IF Has(B, a) THEN U ELSE Remove(U, a)
           L2 == IF Has(B, a) THEN L ELSE Remove(L, a)
<1>1. /\ B \in Maps /\ U \in Maps /\ L \in Maps /\ r[a] \in Nat /\ m.errors = 0
      /\ \A b \in Accounts : Agrees(B, U, L, b, r[b])
  BY SoundMonitor, Zenon
<1>2. SeeBalance(m, a, r[a]) = Monitor(B2, U2, L2, 0)
  <2>1. Agrees(B, U, L, a, r[a]) BY <1>1
  <2>2. CASE Has(B, a)
    <3>1. ~(B[a] # r[a]) BY <2>1, <2>2, Zenon DEF Agrees
    <3>2. SeeBalance(m, a, r[a]) = Monitor(B2, U, L, m.errors + Count(B[a] # r[a], FALSE))
      BY <2>2, Zenon DEF SeeBalance
    <3>3. 0 + Count(B[a] # r[a], FALSE) = 0 BY <3>1, NothingCounted, Zenon
    <3> QED BY <1>1, <2>2, <3>2, <3>3, Zenon
  <2>3. CASE ~Has(B, a)
    <3>1. /\ ~(Has(U, a) /\ r[a] > U[a])
          /\ ~(Has(L, a) /\ r[a] < L[a])
      BY <1>1, <2>1, <2>3, MapValue DEF Agrees
    <3>2. SeeBalance(m, a, r[a]) =
             Monitor(B2, U2, L2, m.errors + Count(Has(U, a) /\ r[a] > U[a],
                                                  Has(L, a) /\ r[a] < L[a]))
      BY <2>3, Zenon DEF SeeBalance
    <3>3. 0 + Count(Has(U, a) /\ r[a] > U[a], Has(L, a) /\ r[a] < L[a]) = 0
      BY <3>1, NothingCounted, Zenon
    <3> QED BY <1>1, <3>2, <3>3, Zenon
  <2> QED BY <2>2, <2>3, Zenon
<1>3. B2 \in Maps /\ U2 \in Maps /\ L2 \in Maps
  BY <1>1, InsertMap, RemoveMap, Zenon
<1>4. \A b \in Accounts : b # a => B2[b] = B[b] /\ U2[b] = U[b] /\ L2[b] = L[b]
  BY <1>1 DEF Insert, Remove, Maps
<1>5. B2[a] = r[a] BY <1>1, InsertMap
<1> HIDE DEF B, U, L, B2, U2, L2
<1>6. \A b \in Accounts : Agrees(B2, U2, L2, b, r[b])
  BY <1>1, <1>3, <1>4, <1>5, MapValue DEF Agrees, Has
<1> QED BY <1>2, <1>3, <1>6, SoundIsAgreement, Zenon

(* Money that arrives (SawDeposit, SawTransfer). *)
LEMMA CreditSound ==
    ASSUME NEW m, NEW r \in [Accounts -> Nat], NEW a \in Accounts,
           NEW amt \in Nat, Sound(m, r)
    PROVE  Sound(Credit(m, a, amt), [r EXCEPT ![a] = @ + amt])
<1> DEFINE B == m.balances
           U == m.upper_bounds
           L == m.lower_bounds
           s == [r EXCEPT ![a] = @ + amt]
           B2 == IF Has(B, a) THEN Insert(B, a, B[a] + amt) ELSE B
           U2 == IF ~Has(B, a) /\ Has(U, a) THEN Insert(U, a, U[a] + amt) ELSE U
           L2 == IF Has(B, a) THEN L
                 ELSE Insert(L, a, IF Has(L, a) THEN L[a] + amt ELSE amt)
<1>1. /\ B \in Maps /\ U \in Maps /\ L \in Maps /\ r[a] \in Nat /\ m.errors = 0
      /\ \A b \in Accounts : Agrees(B, U, L, b, r[b])
  BY SoundMonitor, Zenon
<1>2. Agrees(B, U, L, a, r[a]) BY <1>1, Zenon
<1>3. Credit(m, a, amt) = Monitor(B2, U2, L2, 0)
  BY <1>1, Zenon DEF Credit
<1>4. B2 \in Maps /\ U2 \in Maps /\ L2 \in Maps
  <2>1. B2 \in Maps BY <1>1, <1>3 DEF Insert, Maps, Has, Absent
  <2>2. U2 \in Maps BY <1>1, <1>3 DEF Insert, Maps, Has, Absent
  <2>3. L2 \in Maps BY <1>1, <1>3 DEF Insert, Maps, Has, Absent
  <2> QED BY <2>1, <2>2, <2>3, Zenon
<1>5. \A b \in Accounts : b # a => /\ B2[b] = B[b] /\ U2[b] = U[b] /\ L2[b] = L[b]
                                   /\ s[b] = r[b]
  BY <1>1, Zenon DEF Insert, Maps
<1>6. Agrees(B2, U2, L2, a, s[a])
  <2>1. /\ s[a] = r[a] + amt
        /\ Has(B, a) => B2[a] = B[a] + amt
        /\ ~Has(B, a) => B2[a] = B[a]
        /\ ~Has(B, a) /\ Has(U, a) => U2[a] = U[a] + amt
        /\ ~Has(B, a) /\ ~Has(U, a) => U2[a] = U[a]
        /\ ~Has(B, a) /\ Has(L, a) => L2[a] = L[a] + amt
        /\ ~Has(B, a) /\ ~Has(L, a) => L2[a] = amt
    BY <1>1, Zenon DEF Insert, Maps
  <2>2. /\ B[a] \in Nat \cup {-1} /\ U[a] \in Nat \cup {-1} /\ L[a] \in Nat \cup {-1}
        /\ r[a] \in Nat
    BY <1>1, Zenon DEF Maps, Absent
  <2> HIDE DEF B, U, L, B2, U2, L2, s
  <2> QED BY SMTT(30), <1>2, <2>1, <2>2 DEF Agrees, Has, Absent
<1> HIDE DEF B, U, L, B2, U2, L2, s
<1>7. \A b \in Accounts : Agrees(B2, U2, L2, b, s[b])
  <2>1. AgreesAll(B, U, L, r) BY <1>1, Zenon DEF AgreesAll
  <2>2. SameButAt(a, B, U, L, r, B2, U2, L2, s) BY <1>5, Zenon DEF SameButAt
  <2>3. AgreesAll(B2, U2, L2, s) BY <1>6, <2>1, <2>2, AgreesElsewhere, Zenon
  <2> QED BY <2>3, Zenon DEF AgreesAll
<1>8. Sound(Monitor(B2, U2, L2, 0), s) BY <1>4, <1>7, SoundIsAgreement, Zenon
<1> QED BY <1>3, <1>8, Zenon DEF s

(* Money that leaves, of which there is enough (SawWithdraw, SawTransfer). *)
LEMMA DebitSound ==
    ASSUME NEW m, NEW r \in [Accounts -> Nat], NEW a \in Accounts,
           NEW amt \in Nat, r[a] >= amt, Sound(m, r)
    PROVE  Sound(Debit(m, a, amt), [r EXCEPT ![a] = @ - amt])
<1> DEFINE B == m.balances
           U == m.upper_bounds
           L == m.lower_bounds
           s == [r EXCEPT ![a] = @ - amt]
           B2 == IF Has(B, a) THEN Insert(B, a, B[a] - amt) ELSE B
           U2 == IF ~Has(B, a) /\ Has(U, a) THEN Insert(U, a, U[a] - amt) ELSE U
           L2 == IF ~Has(B, a) /\ Has(L, a)
                   THEN Insert(L, a, IF L[a] >= amt THEN L[a] - amt ELSE 0) ELSE L
<1>1. /\ B \in Maps /\ U \in Maps /\ L \in Maps /\ r[a] \in Nat /\ m.errors = 0
      /\ \A b \in Accounts : Agrees(B, U, L, b, r[b])
  BY SoundMonitor, Zenon
<1>2. Agrees(B, U, L, a, r[a]) BY <1>1, Zenon
<1>3. /\ Debit(m, a, amt) = Monitor(B2, U2, L2, 0)
      /\ Has(B, a) => B[a] >= amt
      /\ ~Has(B, a) /\ Has(U, a) => U[a] >= amt
  <2>1. Has(B, a) => B[a] >= amt BY <1>1, <1>2, Zenon DEF Agrees
  <2>2. ASSUME ~Has(B, a), Has(U, a) PROVE U[a] >= amt /\ ~(U[a] < amt)
    <3>1. r[a] <= U[a] BY <1>2, <2>2, Zenon DEF Agrees
    <3>2. U[a] \in Nat BY <1>1, <2>2, MapValue, Zenon
    <3> QED BY <1>1, <3>1, <3>2
  <2>3. CASE Has(B, a)
    <3>1. Debit(m, a, amt) = Monitor(Insert(B, a, B[a] - amt), U, L, m.errors)
      BY <2>1, <2>3, Zenon DEF Debit
    <3>2. B2 = Insert(B, a, B[a] - amt) /\ U2 = U /\ L2 = L BY <2>3, Zenon
    <3> QED BY <1>1, <2>1, <2>3, <3>1, <3>2, Zenon
  <2>4. CASE ~Has(B, a)
    <3> DEFINE under == Has(U, a) /\ U[a] < amt
    <3>1. ~under BY <2>2, <2>4, Zenon
    <3>2. Debit(m, a, amt) =
             Monitor(B, IF under THEN Remove(U, a)
                        ELSE IF Has(U, a) THEN Insert(U, a, U[a] - amt) ELSE U,
                     IF Has(L, a) THEN Insert(L, a, IF L[a] >= amt THEN L[a] - amt ELSE 0)
                                  ELSE L,
                     m.errors + Count(under, FALSE))
      BY <2>4, Zenon DEF Debit
    <3>3. 0 + Count(under, FALSE) = 0 BY <3>1, NothingCounted, Zenon
    <3> HIDE DEF under
    <3>4. Debit(m, a, amt) =
             Monitor(B, IF Has(U, a) THEN Insert(U, a, U[a] - amt) ELSE U,
                     IF Has(L, a) THEN Insert(L, a, IF L[a] >= amt THEN L[a] - amt ELSE 0)
                                  ELSE L, 0)
      BY <1>1, <3>1, <3>2, <3>3, Zenon
    <3>5. Debit(m, a, amt) = Monitor(B2, U2, L2, 0) BY <2>4, <3>4, Zenon
    <3> QED BY <2>2, <2>4, <3>5, Zenon
  <2> QED BY <2>3, <2>4, Zenon
<1>4. B2 \in Maps /\ U2 \in Maps /\ L2 \in Maps
  <2>1. B2 \in Maps BY <1>1, <1>3 DEF Insert, Maps, Has, Absent
  <2>2. U2 \in Maps BY <1>1, <1>3 DEF Insert, Maps, Has, Absent
  <2>3. L2 \in Maps BY <1>1, <1>3 DEF Insert, Maps, Has, Absent
  <2> QED BY <2>1, <2>2, <2>3, Zenon
<1>5. \A b \in Accounts : b # a => /\ B2[b] = B[b] /\ U2[b] = U[b] /\ L2[b] = L[b]
                                   /\ s[b] = r[b]
  BY SMTT(30), <1>1 DEF Insert, Maps
<1>6. Agrees(B2, U2, L2, a, s[a])
  <2>1. /\ s[a] = r[a] - amt
        /\ Has(B, a) => B2[a] = B[a] - amt
        /\ ~Has(B, a) => B2[a] = B[a]
        /\ ~Has(B, a) /\ Has(U, a) => U2[a] = U[a] - amt
        /\ ~Has(B, a) /\ ~Has(U, a) => U2[a] = U[a]
        /\ ~Has(B, a) /\ Has(L, a) => L2[a] = IF L[a] >= amt THEN L[a] - amt ELSE 0
        /\ ~Has(B, a) /\ ~Has(L, a) => L2[a] = L[a]
    BY <1>1, Zenon DEF Insert, Maps
  <2>2. /\ B[a] \in Nat \cup {-1} /\ U[a] \in Nat \cup {-1} /\ L[a] \in Nat \cup {-1}
        /\ r[a] \in Nat
    BY <1>1, Zenon DEF Maps, Absent
  <2> HIDE DEF B, U, L, B2, U2, L2, s
  <2> QED BY SMTT(30), <1>2, <1>3, <2>1, <2>2 DEF Agrees, Has, Absent
<1> HIDE DEF B, U, L, B2, U2, L2, s
<1>7. \A b \in Accounts : Agrees(B2, U2, L2, b, s[b])
  <2>1. AgreesAll(B, U, L, r) BY <1>1, Zenon DEF AgreesAll
  <2>2. SameButAt(a, B, U, L, r, B2, U2, L2, s) BY <1>5, Zenon DEF SameButAt
  <2>3. AgreesAll(B2, U2, L2, s) BY <1>6, <2>1, <2>2, AgreesElsewhere, Zenon
  <2> QED BY <2>3, Zenon DEF AgreesAll
<1>8. Sound(Monitor(B2, U2, L2, 0), s) BY <1>4, <1>7, SoundIsAgreement, Zenon
<1> QED BY <1>3, <1>8, Zenon DEF s

(* A payment refused for lack of money (SawWithdrawFail, SawTransferFail). *)
LEMMA FailedDebitSound ==
    ASSUME NEW m, NEW r \in [Accounts -> Nat], NEW a \in Accounts,
           NEW amt \in Nat, r[a] < amt, Sound(m, r)
    PROVE  Sound(FailedDebit(m, a, amt), r)
<1> DEFINE B == m.balances
           U == m.upper_bounds
           L == m.lower_bounds
           s == r
           B2 == B
           U2 == IF Has(B, a) \/ (Has(U, a) /\ U[a] >= amt) THEN U ELSE Insert(U, a, amt)
           L2 == L
<1>1. /\ B \in Maps /\ U \in Maps /\ L \in Maps /\ r[a] \in Nat /\ m.errors = 0
      /\ \A b \in Accounts : Agrees(B, U, L, b, r[b])
  BY SoundMonitor, Zenon
<1>2. Agrees(B, U, L, a, r[a]) BY <1>1, Zenon
<1>3. FailedDebit(m, a, amt) = Monitor(B2, U2, L2, 0)
  <2>1. m = Monitor(B, U, L, 0) BY SoundMonitor, Zenon
  <2>2. CASE Has(B, a)
    <3>1. ~(B[a] >= amt) BY <1>1, <1>2, <2>2 DEF Agrees
    <3> QED BY <2>1, <2>2, <3>1, Zenon DEF FailedDebit
  <2>3. CASE ~Has(B, a)
    <3>1. ~(Has(L, a) /\ L[a] >= amt) BY <1>1, <1>2, <2>3, MapValue DEF Agrees
    <3> QED BY <1>1, <2>3, <3>1 DEF FailedDebit, Count
  <2> QED BY <2>2, <2>3
<1>4. B2 \in Maps /\ U2 \in Maps /\ L2 \in Maps
  <2>1. B2 \in Maps BY <1>1, <1>3, Zenon DEF Insert, Maps, Has, Absent
  <2>2. U2 \in Maps BY <1>1, <1>3, Zenon DEF Insert, Maps, Has, Absent
  <2>3. L2 \in Maps BY <1>1, <1>3, Zenon DEF Insert, Maps, Has, Absent
  <2> QED BY <2>1, <2>2, <2>3, Zenon
<1>5. \A b \in Accounts : b # a => /\ B2[b] = B[b] /\ U2[b] = U[b] /\ L2[b] = L[b]
                                   /\ s[b] = r[b]
  BY <1>1, Zenon DEF Insert, Maps
<1>6. Agrees(B2, U2, L2, a, s[a])
  <2>1. /\ Has(B, a) \/ (Has(U, a) /\ U[a] >= amt) => U2[a] = U[a]
        /\ ~(Has(B, a) \/ (Has(U, a) /\ U[a] >= amt)) => U2[a] = amt
    BY <1>1 DEF Insert, Maps
  <2>2. /\ B[a] \in Nat \cup {-1} /\ U[a] \in Nat \cup {-1} /\ L[a] \in Nat \cup {-1}
        /\ r[a] \in Nat
    BY <1>1, Zenon DEF Maps, Absent
  <2> HIDE DEF B, U, L, U2
  <2> QED BY <1>2, <2>1, <2>2 DEF Agrees, Has, Absent
<1> HIDE DEF B, U, L, B2, U2, L2, s
<1>7. \A b \in Accounts : Agrees(B2, U2, L2, b, s[b])
  <2>1. AgreesAll(B, U, L, r) BY <1>1, Zenon DEF AgreesAll
  <2>2. SameButAt(a, B, U, L, r, B2, U2, L2, s) BY <1>5, Zenon DEF SameButAt
  <2>3. AgreesAll(B2, U2, L2, s) BY <1>6, <2>1, <2>2, AgreesElsewhere, Zenon
  <2> QED BY <2>3, Zenon DEF AgreesAll
<1>8. Sound(Monitor(B2, U2, L2, 0), s) BY <1>4, <1>7, SoundIsAgreement, Zenon
<1> QED BY <1>3, <1>8, Zenon DEF s

(* A cleared monitor believes nothing. *)
LEMMA ForgottenSound ==
    ASSUME NEW m \in Monitors, NEW r, Forgotten(m), m.errors = 0
    PROVE  Sound(m, r)
BY DEF Sound, Forgotten, Believes, EmptyMap, Has

(* A report that fits the bank leaves the monitor sound. *)
LEMMA ReportSound ==
    ASSUME BankAssumption,
           NEW pre \in [Accounts -> Balances], Sound(mon, pre), Report(pre)
    PROVE  Sound(mon', real') /\ real' \in [Accounts -> Balances] /\ cleared' = "no"
<1>0. pre \in [Accounts -> Nat] BY Zenon DEF BankAssumption
<1>a. \A amt \in Amounts : amt \in Nat BY DEF BankAssumption
<1>1. ASSUME NEW a \in Accounts, SawBalance(pre, a)
      PROVE  Sound(mon', real') /\ real' \in [Accounts -> Balances] /\ cleared' = "no"
  BY <1>0, <1>1, SeeBalanceSound DEF SawBalance
<1>2. ASSUME NEW a \in Accounts, NEW amt \in Amounts, SawDeposit(pre, a, amt)
      PROVE  Sound(mon', real') /\ real' \in [Accounts -> Balances] /\ cleared' = "no"
  <2>1. Sound(Credit(mon, a, amt), [pre EXCEPT ![a] = @ + amt]) BY <1>0, <1>a, CreditSound, Zenon
  <2> QED BY <1>2, <2>1 DEF SawDeposit
<1>3. ASSUME NEW a \in Accounts, NEW amt \in Amounts, SawWithdraw(pre, a, amt)
      PROVE  Sound(mon', real') /\ real' \in [Accounts -> Balances] /\ cleared' = "no"
  <2>1. pre[a] >= amt BY <1>3 DEF SawWithdraw
  <2>2. Sound(Debit(mon, a, amt), [pre EXCEPT ![a] = @ - amt])
    BY <1>0, <1>a, <2>1, DebitSound, Zenon
  <2> QED BY <1>3, <2>2 DEF SawWithdraw
<1>4. ASSUME NEW a \in Accounts, NEW amt \in Amounts,
             SawWithdrawFail(pre, a, amt) \/ SawTransferFail(pre, a, amt)
      PROVE  Sound(mon', real') /\ real' \in [Accounts -> Balances] /\ cleared' = "no"
  <2>1. pre[a] < amt BY <1>4 DEF SawWithdrawFail, SawTransferFail
  <2>2. Sound(FailedDebit(mon, a, amt), pre) BY <1>0, <1>a, <2>1, FailedDebitSound
  <2> QED BY <1>4, <2>2 DEF SawWithdrawFail, SawTransferFail
<1>5. ASSUME NEW from_ \in Accounts, NEW to_ \in Accounts, NEW amt \in Amounts,
             SawTransfer(pre, from_, to_, amt)
      PROVE  Sound(mon', real') /\ real' \in [Accounts -> Balances] /\ cleared' = "no"
  <2> DEFINE mid == [pre EXCEPT ![to_] = @ + amt]
             m2 == Credit(mon, to_, amt)
  <2>1. Sound(m2, mid) BY <1>0, <1>a, CreditSound, Zenon
  <2>2. /\ mid \in [Accounts -> Nat] /\ mid[from_] >= amt
        /\ [mid EXCEPT ![from_] = @ - amt] = real'
    <3>1. pre[from_] \in Nat /\ pre[to_] \in Nat /\ pre[from_] >= amt
      BY <1>0, <1>a, <1>5 DEF SawTransfer
    <3>2. mid \in [Accounts -> Nat] BY <1>0, <1>a, <3>1
    <3>3. mid[from_] >= amt
      <4>1. CASE from_ = to_ BY <1>0, <1>a, <3>1, <4>1
      <4>2. CASE from_ # to_ BY <1>0, <3>1, <4>2, Zenon
      <4> QED BY <4>1, <4>2
    <3>4. [mid EXCEPT ![from_] = @ - amt] = real' BY <1>5 DEF SawTransfer
    <3> QED BY <3>2, <3>3, <3>4, Zenon
  <2>3. mon' = Debit(m2, from_, amt) BY <1>5 DEF SawTransfer, Transfer
  <2> HIDE DEF mid, m2
  <2>4. Sound(Debit(m2, from_, amt), [mid EXCEPT ![from_] = @ - amt])
    BY <1>a, <2>1, <2>2, DebitSound, Zenon
  <2>5. real' \in [Accounts -> Balances] /\ cleared' = "no" BY <1>5 DEF SawTransfer
  <2> QED BY <2>2, <2>3, <2>4, <2>5, Zenon
<1> QED BY <1>1, <1>2, <1>3, <1>4, <1>5 DEF Report

(* The initial state and every step: the invariant is inductive. *)
LEMMA MonInvInductive == ASSUME BankAssumption PROVE BankSpec => []MonInv
<1>1. BankInit => MonInv
  <2> SUFFICES ASSUME BankInit PROVE MonInv BY Zenon
  <2>1. /\ mon \in Monitors /\ mon.errors = 0 /\ Forgotten(mon)
    BY DEF BankInit, NewMonitor, Monitor, Monitors, Maps, EmptyMap, Forgotten
  <2>2. Believes(mon, real) BY <2>1, ForgottenSound DEF Sound
  <2> QED BY <2>1, <2>2 DEF BankInit, MonInv, BankTypeOK, BeliefsTrue, NoFalseAlarm
<1>2. MonInv /\ [BankNext]_bankVars => MonInv'
  <2> SUFFICES ASSUME MonInv, [BankNext]_bankVars PROVE MonInv' OBVIOUS
  <2>1. Sound(mon, real) BY Zenon DEF MonInv, BankTypeOK, BeliefsTrue, NoFalseAlarm, Sound
  <2>2. CASE SawClear
    <3>1. mon' \in Monitors /\ mon'.errors = 0 /\ Forgotten(mon')
      BY <2>1, <2>2 DEF SawClear, Clear, Monitor, Monitors, Maps, EmptyMap, Forgotten, Sound
    <3>2. Believes(mon', real') BY <3>1, ForgottenSound DEF Sound
    <3> QED BY <2>2, <3>1, <3>2
         DEF SawClear, MonInv, BankTypeOK, BeliefsTrue, NoFalseAlarm, Forgotten
  <2>3. ASSUME NEW pre \in [Accounts -> Balances], Report(pre) PROVE MonInv'
    <3>1. ReportFrom(pre)
      BY <2>3 DEF Report, SawBalance, SawDeposit, SawWithdraw, SawWithdrawFail,
                  SawTransfer, SawTransferFail
    <3>2. Sound(mon, pre)
      BY <2>1, <3>1, ForgottenSound DEF ReportFrom, MonInv, BankTypeOK, NoFalseAlarm
    <3>3. Sound(mon', real') /\ real' \in [Accounts -> Balances] /\ cleared' = "no"
      BY <2>3, <3>2, ReportSound, Zenon
    <3> QED BY <3>3, Zenon DEF MonInv, BankTypeOK, BeliefsTrue, NoFalseAlarm, Sound
  <2>4. CASE UNCHANGED bankVars
    BY <2>4 DEF bankVars, MonInv, BankTypeOK, BeliefsTrue, NoFalseAlarm, Believes, Forgotten
  <2> QED BY <2>2, <2>3, <2>4 DEF BankNext
<1> QED BY <1>1, <1>2, PTL DEF BankSpec

(* The types of the monitor of bank.c: no intmap ever holds a negative     *)
(* value, though amounts are taken off bounds.                             *)
THEOREM BankTyped == ASSUME BankAssumption PROVE BankSpec => []BankTypeOK
BY MonInvInductive, PTL DEF MonInv

(* The intmaps of bank.c say only what is true of the bank, for any        *)
(* accounts, balances and amounts and any number of reports.               *)
THEOREM MonitorBelievesTruth == ASSUME BankAssumption PROVE BankSpec => []BeliefsTrue
BY MonInvInductive, PTL DEF MonInv

(* The bank monitor raises no false alarm. *)
THEOREM NoFalseAlarms == ASSUME BankAssumption PROVE BankSpec => []NoFalseAlarm
BY MonInvInductive, PTL DEF MonInv

-----------------------------------------------------------------------------
(* What the order of the queue means for its elements. *)
LEMMA Ordered ==
  ASSUME TypeOK, Increasing
  PROVE  /\ Len(queue) \in Nat /\ DOMAIN queue = 1 .. Len(queue)
         /\ \A i \in 1 .. Len(queue) : queue[i] \in Nat
         /\ \A i, j \in 1 .. Len(queue) : i <= j => queue[i] <= queue[j]
         /\ \A i, j \in 1 .. Len(queue) : i < j =>
               queue[i] < queue[j] \/ (ended = "yes" /\ j = Len(queue))
         /\ \A i \in 1 .. Len(queue) : queue[i] <= last
<1>1. Len(queue) \in Nat /\ DOMAIN queue = 1 .. Len(queue)
  BY DEF TypeOK
<1>2. \A i \in 1 .. Len(queue) : queue[i] \in Nat
  BY DropAssumption DEF TypeOK
<1>3. \A i, j \in 1 .. Len(queue) : i <= j => queue[i] <= queue[j]
  BY <1>1 DEF Increasing
<1>4. \A i, j \in 1 .. Len(queue) : i < j =>
         queue[i] < queue[j] \/ (ended = "yes" /\ j = Len(queue))
  <2>1. \A i, j \in DOMAIN queue : i < j =>
           queue[i] < queue[j] \/ (ended = "yes" /\ j = Len(queue))
    BY DEF Increasing
  <2>2. SUFFICES ASSUME NEW i \in 1 .. Len(queue), NEW j \in 1 .. Len(queue), i < j
                 PROVE  queue[i] < queue[j] \/ (ended = "yes" /\ j = Len(queue))
    OBVIOUS
  <2>3. i \in DOMAIN queue /\ j \in DOMAIN queue
    BY <1>1
  <2> QED BY <2>1, <2>2, <2>3, Zenon
<1>5. \A i \in 1 .. Len(queue) : queue[i] <= last
  BY <1>1 DEF Increasing
<1> QED BY Zenon, <1>1, <1>2, <1>3, <1>4, <1>5

(* The buffer is empty at first. *)
LEMMA InitDropInv == Init => DropInv
  BY DropAssumption DEF Init, DropInv, TypeOK, Increasing, LoopInv, ConsumeInv,
       ReportInv, QueueNotReleased

(* The element e is appended to the queue: an event after the last one, or *)
(* the hole at the end, which may have the id of the last one.             *)
LEMMA AppendDropInv ==
  ASSUME DropInv, NEW e \in 0 .. MaxId, ended = "no", Len(queue) < Slots - 1,
         queue' = Append(queue, e), last' = e, last <= e, ended' \in {"no", "yes"},
         last < e \/ ended' = "yes",
         UNCHANGED <<tail, pc, id, n, len1, off, bot, top, steps, k, last_processed, ahead>>
  PROVE  DropInv'
<1> USE DropAssumption
<1>t. /\ TypeOK /\ Increasing /\ LoopInv /\ ConsumeInv /\ ReportInv /\ QueueNotReleased
  BY Zenon DEF DropInv
<1>n. /\ queue \in Seq(0 .. MaxId) /\ last \in 0 .. MaxId /\ id \in 0 .. MaxId
      /\ last_processed \in 0 .. MaxId
      /\ n \in 0 .. Slots /\ len1 \in 0 .. Slots /\ off \in 0 .. Slots
      /\ bot \in 0 .. Slots /\ top \in 0 .. Slots /\ k \in 0 .. Slots
  BY <1>t, Zenon DEF TypeOK
<1>u. /\ tail' = tail /\ pc' = pc /\ id' = id /\ n' = n /\ len1' = len1 /\ off' = off
      /\ bot' = bot /\ top' = top /\ steps' = steps /\ k' = k
      /\ last_processed' = last_processed /\ ahead' = ahead
  BY Zenon
<1>1. /\ queue' \in Seq(0 .. MaxId)
      /\ Len(queue') = Len(queue) + 1 /\ DOMAIN queue = 1 .. Len(queue)
      /\ DOMAIN queue' = 1 .. Len(queue')
      /\ Len(queue) \in Nat
      /\ queue'[Len(queue')] = e
      /\ \A i \in 1 .. Len(queue) : queue'[i] = queue[i] /\ queue[i] \in 0 .. MaxId
  BY <1>n
<1>2. TypeOK'
  <2>1. Len(queue') < Slots BY <1>1
  <2> QED BY <1>t, <1>u, <1>1, <2>1, Zenon DEF TypeOK
<1>3. Increasing'
  <2>0. \A i \in 1 .. Len(queue) : queue[i] <= last
    BY <1>t, <1>1, Zenon DEF Increasing
  <2>1. ASSUME NEW i \in 1 .. Len(queue')
        PROVE  \/ /\ i \in 1 .. Len(queue) /\ queue'[i] = queue[i] /\ i # Len(queue')
                  /\ queue[i] <= e /\ (last < e => queue[i] < e)
               \/ i = Len(queue') /\ queue'[i] = e
    <3>1. CASE i = Len(queue') BY <3>1, <1>1, Zenon
    <3>2. CASE i # Len(queue')
      <4>1. i \in 1 .. Len(queue) BY <3>2, <1>1
      <4>2. queue[i] \in Nat /\ queue[i] <= last BY <4>1, <1>1, <2>0
      <4>3. queue[i] <= e /\ (last < e => queue[i] < e) BY <4>2, <1>n
      <4> QED BY <4>1, <4>3, <3>2, <1>1, Zenon
    <3> QED BY <3>1, <3>2, Zenon
  <2>2. ASSUME NEW i \in 1 .. Len(queue'), NEW j \in 1 .. Len(queue')
        PROVE  /\ i <= j => queue'[i] <= queue'[j]
               /\ i < j => queue'[i] < queue'[j] \/ (ended' = "yes" /\ j = Len(queue'))
    <3>1. CASE i \in 1 .. Len(queue) /\ j \in 1 .. Len(queue)
      <4>1. /\ i <= j => queue[i] <= queue[j]
            /\ i < j => queue[i] < queue[j]
        BY <1>t, <1>1, <3>1, Zenon DEF Increasing
      <4> QED BY <4>1, <1>1, <3>1, Zenon
    <3>2. CASE j = Len(queue')
      <4>1. queue'[i] <= queue'[j] BY <2>1, <3>2, <1>1
      <4>2. i < j => queue'[i] < queue'[j] \/ ended' = "yes"
        <5>1. i < j => i # j OBVIOUS
        <5> QED BY <2>1, <3>2, <5>1, <1>1, Zenon
      <4> QED BY <4>1, <4>2, <3>2, Zenon
    <3>3. CASE i = Len(queue') /\ j \in 1 .. Len(queue) BY <3>3, <1>1
    <3> QED BY <2>1, <3>1, <3>2, <3>3, Zenon
  <2>3. \A i \in 1 .. Len(queue') : queue'[i] <= last'
    BY <2>1
  <2> QED BY <1>1, <2>2, <2>3, Zenon DEF Increasing
<1>4. LoopInv'
  <2> SUFFICES ASSUME pc \in {"search", "found"} PROVE LoopInv' BY <1>u, Zenon DEF LoopInv
  <2>1. /\ n <= Len(queue) /\ len1 \in 1 .. n /\ bot <= top /\ off + top < n
        /\ \A i \in 1 .. (off + bot) : queue[i] <= id
        /\ pc = "search" /\ bot > 0 => queue[off + bot + 1] <= id
        /\ \A i \in (off + top + 2) .. n :
              queue[i] > id \/ (queue[i] = id /\ queue[i - 1] = id)
    BY <1>t, Zenon DEF LoopInv, At
  <2>2. /\ n <= Len(queue') /\ off + bot + 1 \in 1 .. Len(queue)
        /\ \A i \in 1 .. (off + bot) : i \in 1 .. Len(queue)
        /\ \A i \in (off + top + 2) .. n : i \in 1 .. Len(queue) /\ i - 1 \in 1 .. Len(queue)
    BY <1>n, <1>1, <2>1
  <2>3. /\ \A i \in 1 .. (off + bot) : queue'[i] <= id
        /\ pc = "search" /\ bot > 0 => queue'[off + bot + 1] <= id
        /\ \A i \in (off + top + 2) .. n :
              queue'[i] > id \/ (queue'[i] = id /\ queue'[i - 1] = id)
    BY <1>1, <2>1, <2>2, Zenon
  <2> QED BY <1>t, <1>u, <2>2, <2>3, Zenon DEF LoopInv, At
<1>5. ConsumeInv'
  <2> SUFFICES ASSUME pc = "consume" PROVE ConsumeInv' BY <1>u, Zenon DEF ConsumeInv
  <2>1. /\ k \in 1 .. n /\ n <= Len(queue) /\ \A i \in 1 .. k : queue[i] <= id
        /\ \A i \in (k + 1) .. Len(queue) :
              queue[i] > id \/ (queue[i] = id /\ queue[i - 1] = id) \/ i > n
    BY <1>t, Zenon DEF ConsumeInv, DropsOlder
  <2>2. /\ n <= Len(queue') /\ Len(queue') > n
        /\ \A i \in 1 .. k : i \in 1 .. Len(queue)
        /\ \A i \in (k + 1) .. Len(queue') : \/ i = Len(queue')
                                              \/ /\ i \in (k + 1) .. Len(queue)
                                                 /\ i \in 1 .. Len(queue)
                                                 /\ i - 1 \in 1 .. Len(queue)
    <3>1. k \in Nat /\ n \in Nat /\ Len(queue) \in Nat /\ Len(queue') = Len(queue) + 1
      BY <1>n, <1>1, <2>1
    <3>2. k >= 1 /\ k <= n /\ n <= Len(queue) BY <2>1, <3>1
    <3>3. n <= Len(queue') /\ Len(queue') > n BY <3>1, <3>2
    <3>4. \A i \in 1 .. k : i \in 1 .. Len(queue) BY <3>1, <3>2
    <3>5. \A i \in (k + 1) .. Len(queue') : \/ i = Len(queue')
                                              \/ /\ i \in (k + 1) .. Len(queue)
                                                 /\ i \in 1 .. Len(queue)
                                                 /\ i - 1 \in 1 .. Len(queue)
      BY <3>1, <3>2
    <3> QED BY <3>3, <3>4, <3>5, Zenon
  <2>3. /\ \A i \in 1 .. k : queue'[i] <= id
        /\ \A i \in (k + 1) .. Len(queue') :
              queue'[i] > id \/ (queue'[i] = id /\ queue'[i - 1] = id) \/ i > n
    BY <1>1, <2>1, <2>2, Zenon
  <2> QED BY <1>u, <2>1, <2>2, <2>3, Zenon DEF ConsumeInv, DropsOlder
<1>6. ReportInv'
  BY <1>t, <1>n, <1>u, <1>1 DEF ReportInv
<1>7. QueueNotReleased'
  BY <1>t, <1>n, <1>u, <1>1 DEF ReportInv, QueueNotReleased
<1> QED BY <1>2, <1>3, <1>4, <1>5, <1>6, <1>7, Zenon DEF DropInv

(* The buffer manager pushes an event ... *)
LEMMA PushDropInv ==
  ASSUME DropInv, NEW e \in 1 .. MaxId, Push(e)
  PROVE  DropInv'
<1>1. e \in 0 .. MaxId /\ last \in 0 .. MaxId BY DropAssumption DEF DropInv, TypeOK
<1>2. last < e /\ last <= e BY <1>1, DropAssumption DEF Push
<1>3. /\ ended = "no" /\ Len(queue) < Slots - 1 /\ queue' = Append(queue, e) /\ last' = e
      /\ ended' \in {"no", "yes"}
      /\ UNCHANGED <<tail, pc, id, n, len1, off, bot, top, steps, k, last_processed, ahead>>
  BY Zenon DEF Push, search
<1> QED BY <1>1, <1>2, <1>3, AppendDropInv, Zenon

(* ... or the hole at the end. *)
LEMMA PushLastHoleDropInv ==
  ASSUME DropInv, PushLastHole
  PROVE  DropInv'
<1>1. last \in 0 .. MaxId /\ last <= last BY DropAssumption DEF DropInv, TypeOK
<1>2. /\ ended = "no" /\ Len(queue) < Slots - 1 /\ queue' = Append(queue, last) /\ last' = last
      /\ ended' = "yes"
      /\ UNCHANGED <<tail, pc, id, n, len1, off, bot, top, steps, k, last_processed, ahead>>
  BY Zenon DEF PushLastHole, search
<1> QED BY <1>1, <1>2, AppendDropInv, Zenon

(* A call remembers the id. *)
LEMMA CallDropInv ==
  ASSUME DropInv, NEW i \in 0 .. MaxId, Call(i)
  PROVE  DropInv'
<1> USE DropAssumption
<1>1. TypeOK'
  BY DEF DropInv, TypeOK, Call, bmmVars, search
<1>2. Increasing'
  BY DEF DropInv, Increasing, Call, bmmVars
<1>3. LoopInv' /\ ConsumeInv'
  BY DEF LoopInv, ConsumeInv, Call
<1>4. ReportInv' /\ QueueNotReleased'
  BY DEF DropInv, TypeOK, ReportInv, QueueNotReleased, Call, bmmVars
<1> QED BY <1>1, <1>2, <1>3, <1>4 DEF DropInv

(* The snapshot: before the part that is chosen lie only events to drop,   *)
(* behind it only events to keep.                                          *)
LEMMA PeekDropInv ==
  ASSUME DropInv, Peek
  PROVE  DropInv'
<1> USE DropAssumption
<1>1. /\ queue \in Seq(0 .. MaxId) /\ Len(queue) \in Nat /\ DOMAIN queue = 1 .. Len(queue)
      /\ \A i \in 1 .. Len(queue) : queue[i] \in 0 .. MaxId
      /\ queue # << >> => FirstPart \in 1 .. Len(queue)
      /\ FirstPart \in 0 .. Len(queue)
  BY DEF DropInv, TypeOK, FirstPart, Lesser
<1>2. queue' = queue /\ id' = id /\ n' = Len(queue) /\ len1' = FirstPart /\ bot' = 0
      /\ steps' = 0 /\ ended' = ended /\ last' = last /\ last_processed' = last_processed
      /\ ahead' = ahead /\ tail' = tail /\ pc = "peek"
  BY DEF Peek, bmmVars
<1>3. TypeOK'
  <2>1. TypeOK /\ Slots \in Nat /\ Slots > 0 BY DEF DropInv
  <2>2. Len(queue) \in 0 .. Slots /\ FirstPart \in 0 .. Slots /\ 0 \in 0 .. Slots
    BY <2>1, <1>1 DEF TypeOK
  <2>3. queue # << >> => FirstPart - 1 \in 0 .. Slots
    BY <2>1, <2>2, <1>1
  <2>4. FirstPart < Len(queue) => Len(queue) - FirstPart - 1 \in 0 .. Slots
    BY <2>1, <2>2
  <2>5. /\ pc' \in {"idle", "search", "consume"}
        /\ off' \in 0 .. Slots /\ top' \in 0 .. Slots /\ k' \in 0 .. Slots
    BY <2>1, <2>2, <2>3, <2>4, Zenon DEF TypeOK, Peek
  <2> QED BY <2>1, <2>2, <2>5, <1>2, Zenon DEF TypeOK
<1>4. Increasing'
  BY <1>2 DEF DropInv, Increasing
<1>a. \A i, j \in 1 .. Len(queue) : i <= j => queue[i] <= queue[j]
  BY Zenon, Ordered DEF DropInv
<1>b. id \in 0 .. MaxId
  BY DEF DropInv, TypeOK
<1>5. LoopInv'
  <2>1. CASE queue # << >> /\ id <= queue[FirstPart]
             /\ pc' = "search" /\ off' = 0 /\ top' = FirstPart - 1
    <3>1. ASSUME NEW i \in (FirstPart + 1) .. Len(queue)
          PROVE  queue[i] > id \/ (queue[i] = id /\ queue[i - 1] = id)
      <4>1. i \in 1 .. Len(queue) /\ i - 1 \in 1 .. Len(queue) /\ FirstPart \in 1 .. Len(queue)
            /\ FirstPart <= i - 1 /\ i - 1 <= i
        BY <1>1, <2>1
      <4>2. queue[FirstPart] <= queue[i - 1] /\ queue[i - 1] <= queue[i]
        BY <4>1, <1>a
      <4>3. id <= queue[FirstPart] BY <2>1, Zenon
      <4>4. /\ id \in Nat /\ queue[FirstPart] \in Nat /\ queue[i - 1] \in Nat
            /\ queue[i] \in Nat
        BY <4>1, <1>1, <1>b
      <4> QED BY <4>2, <4>3, <4>4
    <3> QED BY <3>1, <2>1, <1>1, <1>2 DEF LoopInv
  <2>2. CASE queue # << >> /\ id > queue[FirstPart] /\ FirstPart < Len(queue)
             /\ pc' = "search" /\ off' = FirstPart /\ top' = Len(queue) - FirstPart - 1
    <3>1. \A i \in 1 .. FirstPart : queue[i] <= id
      BY <1>1, <1>a, <1>b, <2>2
    <3> QED BY <3>1, <2>2, <1>1, <1>2 DEF LoopInv
  <2>3. CASE pc' \notin {"search", "found"}
    BY <2>3 DEF LoopInv
  <2> QED BY <2>1, <2>2, <2>3 DEF Peek
<1>6. ConsumeInv'
  <2>1. SUFFICES ASSUME pc' = "consume"
                 PROVE  k' \in 1 .. Len(queue) /\ k' = Len(queue)
                        /\ \A i \in 1 .. k' : queue[i] <= id
    BY <1>1, <1>2 DEF ConsumeInv, DropsOlder
  <2>2. queue # << >> /\ id > queue[FirstPart] /\ FirstPart = Len(queue) /\ k' = FirstPart
    BY <2>1 DEF Peek
  <2> QED BY <2>2, <1>1, <1>a, <1>b
<1>7. ReportInv'
  BY <1>1, <1>2 DEF DropInv, TypeOK, ReportInv, Peek
<1>8. QueueNotReleased'
  BY <1>2 DEF DropInv, QueueNotReleased
<1> QED BY <1>3, <1>4, <1>5, <1>6, <1>7, <1>8 DEF DropInv

(* The pivot lies between the bounds, and below top unless they are equal. *)
LEMMA PivotBetween ==
  ASSUME NEW b \in Nat, NEW t \in Nat, b <= t
  PROVE  /\ (b + t) \div 2 \in Nat /\ b <= (b + t) \div 2 /\ (b + t) \div 2 <= t
         /\ b < t => (b + t) \div 2 < t
         /\ b = (b + t) \div 2 => t <= b + 1
  OBVIOUS

(* An iteration that moves the bounds from b and t to b2 and t2 keeps the  *)
(* bound on the number of steps.                                           *)
LEMMA StepsBounded ==
  ASSUME NEW o \in Nat, NEW m \in Nat, NEW st \in Nat, NEW b \in Nat, NEW t \in Nat,
         NEW b2 \in Nat, NEW t2 \in Nat,
         b <= t, t2 <= t, o + t < m, st + t < m + b
  PROVE  /\ o + t2 < m
         /\ st + 1 <= m
         /\ t2 + b < t + b2 => (st + 1) + t2 < m + b2
<1>1. o + t2 < m
  OBVIOUS
<1>2. st + 1 <= m
  OBVIOUS
<1>3. ASSUME t2 + b < t + b2 PROVE (st + 1) + t2 < m + b2
  BY <1>3
<1> QED BY <1>1, <1>2, <1>3

(* One iteration keeps what the loop knows and shrinks the interval.       *)
LEMMA SearchDropInv ==
  ASSUME DropInv, Search
  PROVE  DropInv'
<1> USE DropAssumption
<1>1. /\ Len(queue) \in Nat /\ DOMAIN queue = 1 .. Len(queue)
      /\ \A i \in 1 .. Len(queue) : queue[i] \in 0 .. MaxId
      /\ id \in 0 .. MaxId /\ n \in Nat /\ len1 \in Nat /\ off \in Nat /\ bot \in Nat
      /\ top \in Nat /\ steps \in Nat
  BY DEF DropInv, TypeOK
<1>2. /\ n <= Len(queue) /\ len1 \in 1 .. n /\ off \in {0, len1}
      /\ bot <= top /\ off + top < n /\ (off = 0 => top < len1)
      /\ steps + top < n + bot
      /\ \A i \in 1 .. (off + bot) : queue[i] <= id
      /\ bot > 0 => queue[off + bot + 1] <= id
      /\ \A i \in (off + top + 2) .. n : queue[i] > id \/ (queue[i] = id /\ queue[i - 1] = id)
  BY DEF DropInv, LoopInv, Search, At
<1>3. /\ pivot \in Nat /\ bot <= pivot /\ pivot <= top /\ (bot < top => pivot < top)
      /\ bot = pivot => top <= bot + 1
  BY SMTT(40), <1>1, <1>2, PivotBetween DEF pivot
<1>4. \A i, j \in 1 .. Len(queue) : i <= j => queue[i] <= queue[j]
  BY Zenon, Ordered DEF DropInv
<1>5. /\ queue' = queue /\ id' = id /\ n' = n /\ len1' = len1 /\ off' = off
      /\ steps' = steps + 1 /\ pc = "search" /\ k' = k /\ tail' = tail /\ last' = last
      /\ ended' = ended /\ last_processed' = last_processed /\ ahead' = ahead
      /\ pc' = (IF bot' = top' THEN "found" ELSE "search")
  BY DEF Search, bmmVars
<1> DEFINE p == off + pivot + 1
<1>6. p \in 1 .. n /\ p \in 1 .. Len(queue) /\ At(pivot) = queue[p] /\ queue[p] \in 0 .. MaxId
  BY <1>1, <1>2, <1>3 DEF At
<1> DEFINE Bounds == /\ bot' \in Nat /\ top' \in Nat /\ bot' <= top' /\ top' <= top
                     /\ (bot' = top' \/ top' + bot < top + bot')
           Left == \A i \in 1 .. (off + bot') : queue[i] <= id
           AtBot == bot' # top' /\ bot' > 0 => queue[off + bot' + 1] <= id
           Right == \A i \in (off + top' + 2) .. n :
                       queue[i] > id \/ (queue[i] = id /\ queue[i - 1] = id)
<1>7. Bounds /\ Left /\ AtBot /\ Right
  <2>1. CASE id < At(pivot) /\ top' = (IF pivot = 0 THEN 0 ELSE pivot - 1) /\ bot' = bot
    <3>1. pivot > 0 => bot < pivot
      <4>1. SUFFICES ASSUME pivot > 0, bot = pivot PROVE FALSE
        BY <1>1, <1>3
      <4>2. bot > 0 /\ p = off + bot + 1
        BY <4>1
      <4>3. queue[p] <= id
        BY <4>2, <1>2
      <4> QED BY <4>3, <2>1, <1>1, <1>6
    <3>2. Bounds
      BY <2>1, <3>1, <1>1, <1>2, <1>3
    <3>3. Left /\ AtBot
      BY <2>1, <1>2
    <3>4. \A i \in 1 .. n : i >= p => queue[i] > id
      BY <2>1, <1>1, <1>2, <1>4, <1>6
    <3>5. pivot > 0 => Right
      BY <2>1, <3>4, <1>1, <1>2, <1>3
    <3>6. pivot = 0 => Right
      BY <2>1, <3>4, <1>1, <1>2, <1>3
    <3> QED BY <3>2, <3>3, <3>5, <3>6, <1>3
  <2>2. CASE id >= At(pivot) /\ bot # pivot /\ bot' = pivot /\ top' = top
    <3>1. Bounds
      BY <2>2, <1>1, <1>2, <1>3
    <3>2. \A i \in 1 .. n : i <= p => queue[i] <= id
      BY <2>2, <1>1, <1>2, <1>4, <1>6
    <3>3. Left /\ AtBot
      BY <2>2, <3>2, <1>1, <1>2, <1>3, <1>6
    <3> QED BY <3>1, <3>3, <2>2, <1>2
  <2>3. CASE id = At(pivot) /\ bot = pivot /\ top' = bot /\ bot' = bot
    <3>1. Bounds /\ Left /\ AtBot
      BY <2>3, <1>1, <1>2, <1>3
    <3>2. ASSUME NEW i \in (off + top' + 2) .. n
          PROVE  queue[i] > id \/ (queue[i] = id /\ queue[i - 1] = id)
      <4>1. i \in 1 .. Len(queue) /\ i - 1 \in 1 .. Len(queue) /\ p <= i - 1 /\ i - 1 <= i
        BY <2>3, <1>1, <1>2, <1>3, <1>6
      <4>2. queue[p] <= queue[i - 1] /\ queue[i - 1] <= queue[i]
        BY <4>1, <1>4, <1>6
      <4> QED BY <4>1, <4>2, <2>3, <1>1, <1>6
    <3> QED BY <3>1, <3>2
  <2>4. CASE id > At(pivot) /\ bot = pivot /\ bot' = top /\ top' = top
    <3>1. Bounds /\ AtBot /\ Right
      BY <2>4, <1>1, <1>2
    <3>2. \A i \in 1 .. n : i <= p => queue[i] <= id
      BY <2>4, <1>1, <1>2, <1>4, <1>6
    <3>3. Left
      BY <2>4, <3>2, <1>1, <1>2, <1>3
    <3> QED BY <3>1, <3>3
  <2> QED BY <2>1, <2>2, <2>3, <2>4 DEF Search
<1>8. TypeOK'
  BY <1>1, <1>2, <1>5, <1>7 DEF DropInv, TypeOK
<1>9. LoopInv'
  <2>1. /\ off + top' < n /\ (off = 0 => top' < len1)
        /\ bot' # top' => (steps + 1) + top' < n + bot'
        /\ steps + 1 <= n
    <3>1. bot' \in Nat /\ top' \in Nat /\ top' <= top
      BY <1>7
    <3>2. bot <= top /\ off + top < n /\ steps + top < n + bot
      BY <1>2
    <3>3. off \in Nat /\ top \in Nat /\ bot \in Nat /\ n \in Nat /\ len1 \in Nat /\ steps \in Nat
      BY <1>1
    <3>4. off + top' < n /\ steps + 1 <= n
      BY Zenon, <3>1, <3>2, <3>3, StepsBounded
    <3>5. ASSUME off = 0 PROVE top' < len1
      <4>1. top < len1
        BY <3>5, <1>2
      <4> QED BY <4>1, <3>1, <3>3
    <3>6. ASSUME bot' # top' PROVE (steps + 1) + top' < n + bot'
      <4>1. top' + bot < top + bot'
        BY <3>6, <1>7
      <4> DEFINE b2 == bot'
                 t2 == top'
      <4>2. b2 \in Nat /\ t2 \in Nat /\ t2 <= top /\ t2 + bot < top + b2
        BY <4>1, <3>1
      <4> HIDE DEF b2, t2
      <4>3. (steps + 1) + t2 < n + b2
        BY <4>2, <3>2, <3>3, StepsBounded
      <4> QED BY <4>3 DEF b2, t2
    <3> QED BY <3>4, <3>5, <3>6
  <2>2. pc' = "search" => bot' # top'
    BY <1>5
  <2>3. pc' = "found" => bot' = top'
    BY <1>5
  <2>4. At(bot)' = queue[off + bot' + 1]
    BY <1>5 DEF At
  <2> HIDE DEF p
  <2> QED BY Zenon, <2>1, <2>2, <2>3, <2>4, <1>2, <1>5, <1>7 DEF LoopInv
<1>10. Increasing' /\ ConsumeInv' /\ QueueNotReleased'
  BY <1>5 DEF DropInv, Increasing, ConsumeInv, QueueNotReleased
<1>11. ReportInv'
  BY <1>5 DEF DropInv, ReportInv
<1> QED BY <1>8, <1>9, <1>10, <1>11 DEF DropInv

(* The search has ended: k is the number of events up to the id.           *)
LEMMA FoundDropInv ==
  ASSUME DropInv, Found
  PROVE  DropInv'
<1> USE DropAssumption
<1>1. /\ Len(queue) \in Nat /\ DOMAIN queue = 1 .. Len(queue)
      /\ \A i \in 1 .. Len(queue) : queue[i] \in 0 .. MaxId
      /\ id \in 0 .. MaxId /\ n \in Nat /\ n <= Slots /\ off \in Nat /\ bot \in Nat /\ top \in Nat
  BY DEF DropInv, TypeOK
<1>2. /\ n <= Len(queue) /\ bot = top /\ off + top < n
      /\ \A i \in 1 .. (off + bot) : queue[i] <= id
      /\ \A i \in (off + top + 2) .. n : queue[i] > id \/ (queue[i] = id /\ queue[i - 1] = id)
  BY DEF DropInv, LoopInv, Found
<1>3. /\ queue' = queue /\ id' = id /\ n' = n /\ len1' = len1 /\ search' = search
      /\ pc = "found" /\ tail' = tail /\ last' = last /\ ended' = ended
      /\ last_processed' = last_processed /\ ahead' = ahead
      /\ k' = (IF id < queue[off + top + 1] THEN off + top ELSE off + top + 1)
      /\ pc' = (IF k' > 0 THEN "consume" ELSE "idle")
  BY DEF Found, bmmVars, At
<1>4. k' \in 0 .. n
  BY <1>1, <1>2, <1>3
<1>5. \A i \in 1 .. k' : queue[i] <= id
  BY <1>1, <1>2, <1>3
<1>6. \A i \in (k' + 1) .. Len(queue) :
         queue[i] > id \/ (queue[i] = id /\ queue[i - 1] = id) \/ i > n
  BY <1>1, <1>2, <1>3
<1>7. TypeOK'
  BY <1>1, <1>3, <1>4 DEF DropInv, TypeOK, search
<1>8. ConsumeInv'
  BY <1>1, <1>2, <1>3, <1>4, <1>5, <1>6 DEF ConsumeInv, DropsOlder
<1>9. Increasing' /\ LoopInv' /\ QueueNotReleased'
  BY <1>3 DEF DropInv, Increasing, LoopInv, QueueNotReleased
<1>10. ReportInv'
  BY <1>3 DEF DropInv, ReportInv
<1> QED BY <1>7, <1>8, <1>9, <1>10 DEF DropInv

(* A sequence without its first d elements. *)
LEMMA WithoutPrefix ==
  ASSUME NEW S, NEW s \in Seq(S), NEW d \in 1 .. Len(s)
  PROVE  /\ SubSeq(s, d + 1, Len(s)) \in Seq(S)
         /\ Len(SubSeq(s, d + 1, Len(s))) = Len(s) - d
         /\ \A i \in 1 .. (Len(s) - d) : SubSeq(s, d + 1, Len(s))[i] = s[d + i]
<1>1. Len(s) \in Nat /\ \A i \in (d + 1) .. Len(s) : s[i] \in S
  OBVIOUS
<1>2. /\ SubSeq(s, d + 1, Len(s)) \in Seq(S)
      /\ Len(SubSeq(s, d + 1, Len(s))) = IF d + 1 <= Len(s) THEN Len(s) - (d + 1) + 1 ELSE 0
      /\ \A i \in 1 .. (Len(s) - (d + 1) + 1) :
            SubSeq(s, d + 1, Len(s))[i] = s[(d + 1) + i - 1]
  BY <1>1, SubSeqProperties
<1>3. Len(s) - (d + 1) + 1 = Len(s) - d /\ \A i \in Nat : (d + 1) + i - 1 = d + i
  BY <1>1
<1>4. Len(SubSeq(s, d + 1, Len(s))) = Len(s) - d
  BY <1>1, <1>2
<1>5. ASSUME NEW i \in 1 .. (Len(s) - d)
      PROVE  SubSeq(s, d + 1, Len(s))[i] = s[d + i]
  <2>1. SubSeq(s, d + 1, Len(s))[i] = s[(d + 1) + i - 1]
    BY <1>1, <1>2, <1>3
  <2>2. (d + 1) + i - 1 = d + i
    BY <1>1
  <2> QED BY <2>1, <2>2
<1> QED BY <1>2, <1>4, <1>5

(* The events leave the queue.  Those that stay are younger than the id.   *)
LEMMA ConsumeDropInv ==
  ASSUME DropInv, Consume
  PROVE  DropInv'
<1> USE DropAssumption
<1>1. /\ queue \in Seq(0 .. MaxId) /\ Len(queue) \in Nat /\ DOMAIN queue = 1 .. Len(queue)
      /\ \A i \in 1 .. Len(queue) : queue[i] \in 0 .. MaxId
      /\ id \in 0 .. MaxId /\ n \in Nat /\ last \in 0 .. MaxId /\ last_processed \in 0 .. MaxId
  BY DEF DropInv, TypeOK
<1>2. /\ k \in 1 .. n /\ n <= Len(queue)
      /\ \A i \in 1 .. k : queue[i] <= id
      /\ \A i \in (k + 1) .. Len(queue) :
            queue[i] > id \/ (queue[i] = id /\ queue[i - 1] = id) \/ i > n
  BY DEF DropInv, ConsumeInv, DropsOlder, Consume
<1>3. /\ queue' \in Seq(0 .. MaxId) /\ Len(queue') = Len(queue) - k
      /\ DOMAIN queue' = 1 .. (Len(queue) - k)
      /\ \A i \in 1 .. (Len(queue) - k) : queue'[i] = queue[k + i]
  <2>1. queue' = SubSeq(queue, k + 1, Len(queue)) /\ k \in 1 .. Len(queue)
    BY SMTT(40), <1>1, <1>2 DEF Consume
  <2>2. /\ queue' \in Seq(0 .. MaxId) /\ Len(queue') = Len(queue) - k
        /\ \A i \in 1 .. (Len(queue) - k) : queue'[i] = queue[k + i]
    BY Zenon, <2>1, <1>1, WithoutPrefix
  <2> QED BY <2>2
<1>4. /\ id' = id /\ n' = n /\ len1' = len1 /\ search' = search /\ k' = k
      /\ pc = "consume" /\ pc' = "notify" /\ last' = last /\ ended' = ended
      /\ last_processed' = last_processed /\ ahead' = ahead
  BY DEF Consume, bmmVars
<1>5. tail' \in 0 .. (Slots - 1)
  BY <1>1, <1>2 DEF DropInv, TypeOK, Consume
<1>6. TypeOK'
  BY SMTT(40), <1>1, <1>2, <1>3, <1>4, <1>5 DEF DropInv, TypeOK, search
<1>7. /\ \A i, j \in 1 .. Len(queue) : i <= j => queue[i] <= queue[j]
      /\ \A i, j \in 1 .. Len(queue) : i < j =>
            queue[i] < queue[j] \/ (ended = "yes" /\ j = Len(queue))
      /\ \A i \in 1 .. Len(queue) : queue[i] <= last
      /\ ended = "yes" => queue[Len(queue)] = last
  <2>1. queue # << >>
    BY <1>1, <1>2
  <2>2. ended = "yes" => queue[Len(queue)] = last
    BY <2>1 DEF DropInv, Increasing
  <2> QED BY Zenon, <2>2, Ordered DEF DropInv
<1>8. Increasing'
  <2>1. \A i \in 1 .. (Len(queue) - k) : k + i \in 1 .. Len(queue)
    BY <1>1, <1>2
  <2>2. /\ \A i, j \in 1 .. (Len(queue) - k) : i <= j => queue'[i] <= queue'[j]
        /\ \A i, j \in 1 .. (Len(queue) - k) : i < j =>
              queue'[i] < queue'[j] \/ (ended = "yes" /\ j = Len(queue'))
    <3>1. SUFFICES ASSUME NEW i \in 1 .. (Len(queue) - k), NEW j \in 1 .. (Len(queue) - k)
                   PROVE  /\ i <= j => queue'[i] <= queue'[j]
                          /\ i < j => queue'[i] < queue'[j] \/ (ended = "yes" /\ j = Len(queue'))
      OBVIOUS
    <3>2. queue'[i] = queue[k + i] /\ queue'[j] = queue[k + j]
          /\ k + i \in 1 .. Len(queue) /\ k + j \in 1 .. Len(queue)
      BY <1>3, <2>1
    <3>3. (i <= j => k + i <= k + j) /\ (i < j => k + i < k + j)
          /\ (k + j = Len(queue) => j = Len(queue'))
      <4>1. Len(queue') = Len(queue) - k /\ Len(queue) \in Nat /\ k \in Nat
        BY <1>1, <1>2, <1>3
      <4> QED BY <4>1
    <3> QED BY <3>2, <3>3, <1>7
  <2>3. ended = "yes" /\ queue' # << >> => queue'[Len(queue')] = last
    <3>1. SUFFICES ASSUME ended = "yes", queue' # << >> PROVE queue'[Len(queue')] = last
      OBVIOUS
    <3>2. Len(queue') \in 1 .. (Len(queue) - k) /\ k + Len(queue') = Len(queue)
      BY <3>1, <1>1, <1>2, <1>3
    <3> QED BY <3>1, <3>2, <1>3, <1>7
  <2> QED BY Zenon, <2>1, <2>2, <2>3, <1>3, <1>4, <1>7 DEF Increasing
<1>9. LoopInv' /\ ConsumeInv'
  BY <1>4 DEF LoopInv, ConsumeInv
<1>10. ASSUME ahead = "no"
       PROVE  /\ last_processed <= id
              /\ \A i \in DOMAIN queue' :
                    queue'[i] > id \/ (ended = "yes" /\ i = Len(queue'))
  <2>1. /\ \A i \in (n + 1) .. Len(queue) : queue[i] > id \/ (ended = "yes" /\ i = Len(queue))
        /\ last_processed <= last
    BY <1>10, <1>4 DEF DropInv, ReportInv
  <2>2. queue[1] >= last_processed
    <3>1. 1 \in DOMAIN queue /\ queue[1] \in 0 .. MaxId
      BY <1>1, <1>2
    <3>2. queue[1] > last_processed \/ (ended = "yes" /\ 1 = Len(queue))
      BY <3>1, <1>10, Zenon DEF DropInv, QueueNotReleased
    <3>3. ended = "yes" /\ 1 = Len(queue) => queue[1] = last
      BY Zenon, <1>7
    <3>4. last_processed \in Nat /\ last \in Nat /\ queue[1] \in Nat /\ last_processed <= last
      <4>1. last_processed \in Nat /\ last \in Nat
        BY <1>1
      <4>2. queue[1] \in Nat
        BY <3>1
      <4> QED BY <4>1, <4>2, <2>1
    <3> QED BY <3>2, <3>3, <3>4
  <2>3. last_processed <= id
    BY <2>2, <1>1, <1>2
  <2>4. ASSUME NEW i \in (k + 1) .. Len(queue)
        PROVE  queue[i] > id \/ (ended = "yes" /\ i = Len(queue))
    <3>1. CASE i > n
      <4>1. i \in (n + 1) .. Len(queue)
        BY <3>1, <1>1, <1>2
      <4> QED BY <4>1, <2>1
    <3>2. CASE queue[i] = id /\ queue[i - 1] = id
      <4>1. i \in 1 .. Len(queue) /\ i - 1 \in 1 .. Len(queue) /\ i - 1 < i
        BY <1>1, <1>2
      <4> QED BY Zenon, <4>1, <3>2, <1>1, <1>7
    <3> QED BY <3>1, <3>2, <1>2
  <2>5. \A i \in 1 .. (Len(queue) - k) : k + i \in (k + 1) .. Len(queue)
    BY <1>1, <1>2
  <2>6. ASSUME NEW i \in DOMAIN queue'
        PROVE  queue'[i] > id \/ (ended = "yes" /\ i = Len(queue'))
    <3>1. queue'[i] = queue[k + i] /\ k + i \in (k + 1) .. Len(queue)
      BY <2>5, <1>3
    <3>2. queue[k + i] > id \/ (ended = "yes" /\ k + i = Len(queue))
      BY <3>1, <2>4
    <3>3. k + i = Len(queue) => i = Len(queue')
      BY SMTT(40), <1>1, <1>2, <1>3
    <3> QED BY <3>1, <3>2, <3>3
  <2> QED BY <2>3, <2>6
<1>11. ReportInv'
  BY <1>4, <1>10 DEF DropInv, ReportInv
<1>12. QueueNotReleased'
  <2>1. SUFFICES ASSUME ahead = "no", NEW i \in DOMAIN queue'
                 PROVE  queue'[i] > last_processed \/ (ended = "yes" /\ i = Len(queue'))
    BY <1>4 DEF QueueNotReleased
  <2>2. queue'[i] \in 0 .. MaxId
    BY <1>3
  <2>3. last_processed <= id /\ (queue'[i] > id \/ (ended = "yes" /\ i = Len(queue')))
    BY <2>1, <1>10
  <2> QED BY <2>2, <2>3, <1>1
<1> QED BY <1>6, <1>8, <1>9, <1>11, <1>12 DEF DropInv

(* The id is reported. *)
LEMMA NotifyDropInv ==
  ASSUME DropInv, Notify
  PROVE  DropInv'
<1>1. TypeOK'
  BY Zenon DEF DropInv, TypeOK, Notify, bmmVars, search
<1>2. Increasing' /\ LoopInv' /\ ConsumeInv'
  BY DEF DropInv, Increasing, LoopInv, ConsumeInv, Notify, bmmVars
<1>3. ReportInv' /\ QueueNotReleased'
  BY DEF DropInv, ReportInv, QueueNotReleased, Notify, bmmVars
<1> QED BY <1>1, <1>2, <1>3 DEF DropInv

-----------------------------------------------------------------------------
(* The invariant of drop_older_than holds for every size of the ring and   *)
(* every sequence of pushes and calls.                                     *)
THEOREM DropInvariant == Spec => []DropInv
<1>1. DropInv /\ [Next]_vars => DropInv'
  <2>1. CASE UNCHANGED vars
    BY <2>1 DEF vars, bmmVars, search, DropInv, TypeOK, Increasing, LoopInv, At, ConsumeInv,
         DropsOlder, ReportInv, QueueNotReleased
  <2> QED BY <2>1, PushDropInv, PushLastHoleDropInv, CallDropInv, PeekDropInv, SearchDropInv,
         FoundDropInv, ConsumeDropInv, NotifyDropInv, Zenon DEF Next
<1> QED BY <1>1, InitDropInv, PTL DEF Spec

(* The binary search ends within its bounds: the assertions "BUG in binary *)
(* search", bot <= top and k <= n never fail.                              *)
THEOREM SearchBoundedHolds == Spec => []SearchBounded
<1>1. DropInv => SearchBounded
  <2> SUFFICES ASSUME DropInv PROVE SearchBounded OBVIOUS
  <2>1. n \in Nat /\ bot \in Nat /\ top \in Nat /\ steps \in Nat /\ k \in Nat
    <3>1. /\ n \in 0 .. Slots /\ bot \in 0 .. Slots /\ top \in 0 .. Slots
          /\ steps \in 0 .. Slots /\ k \in 0 .. Slots
      BY Zenon DEF DropInv, TypeOK
    <3> QED BY <3>1, DropAssumption
  <2>2. pc \in {"search", "found"} =>
          bot <= top /\ off + top < n /\ (off = 0 => top < len1)
    BY Zenon DEF DropInv, LoopInv
  <2>3. pc = "search" => steps < n
    <3>1. pc = "search" => bot <= top /\ steps + top < n + bot BY Zenon DEF DropInv, LoopInv
    <3> QED BY <2>1, <3>1
  <2>4. pc = "consume" => k <= n
    <3>1. pc = "consume" => k \in 1 .. n BY Zenon DEF DropInv, ConsumeInv
    <3> QED BY <2>1, <3>1
  <2> QED BY <2>2, <2>3, <2>4, Zenon DEF SearchBounded
<1> QED BY <1>1, DropInvariant, PTL

(* drop_older_than drops what its comment says, but for a hole at the end  *)
(* of the stream that has the id asked for.                                *)
THEOREM DropsOlderHolds == Spec => []DropsOlder
<1>1. DropInv => DropsOlder
  BY DEF DropInv, ConsumeInv, DropsOlder
<1> QED BY <1>1, DropInvariant, PTL

(* The source is never told that an event of the queue was processed, if   *)
(* no id was asked for ahead of its event.                                 *)
THEOREM QueueNotReleasedHolds == Spec => []QueueNotReleased
<1>1. DropInv => QueueNotReleased
  BY DEF DropInv
<1> QED BY <1>1, DropInvariant, PTL

(* Under the same condition the ids reported by drop_older_than do not     *)
(* decrease, as buffer_set_last_processed_id asserts.                      *)
THEOREM ProcessedMonotonicHolds == Spec => []ProcessedMonotonic
<1>1. DropInv => ProcessedMonotonic
  BY DEF DropInv, ReportInv, ProcessedMonotonic
<1> QED BY <1>1, DropInvariant, PTL

(* The variables keep their types for every size of the ring. *)
THEOREM DropTyped == Spec => []TypeOK
<1>1. DropInv => TypeOK
  BY DEF DropInv
<1> QED BY <1>1, DropInvariant, PTL

(* In a part of at least two events the interval of the loop has two. *)
Wide == pc = "search" /\ PartLen > 1 => bot < top

(* The assertions on top in the binary search can fail only in a part of   *)
(* one event.                                                              *)
THEOREM PartAssertsHold == Spec => []PartAsserts
<1> USE DropAssumption
<1>1. Init => Wide
  BY DEF Init, Wide
<1>2. DropInv /\ DropInv' /\ Wide /\ [Next]_vars => Wide'
  <2> SUFFICES ASSUME DropInv, DropInv', Wide, [Next]_vars, pc' = "search", PartLen' > 1
               PROVE  bot' < top'
    BY DEF Wide
  <2>1. CASE Peek
    <3>1. Len(queue) \in Nat /\ len1' \in Nat /\ n' = Len(queue) /\ len1' = FirstPart /\ bot' = 0
      <4>1. queue \in Seq(0 .. MaxId) /\ len1' \in 0 .. Slots BY Zenon DEF DropInv, TypeOK
      <4>2. n' = Len(queue) /\ len1' = FirstPart /\ bot' = 0 BY <2>1, Zenon DEF Peek
      <4> QED BY <4>1, <4>2, DropAssumption
    <3>2. \/ off' = 0 /\ top' = len1' - 1
          \/ off' = len1' /\ top' = n' - len1' - 1 /\ len1' \in 1 .. n'
      BY <2>1, <3>1 DEF Peek, DropInv, LoopInv
    <3>3. (IF off' = 0 THEN len1' ELSE n' - len1') > 1 BY DEF PartLen
    <3>4. top' > 0 BY <3>1, <3>2, <3>3
    <3> QED BY <3>1, <3>4, Zenon
  <2>2. CASE Search
    <3>1. bot' # top' BY <2>2, Zenon DEF Search
    <3>2. bot' <= top' /\ bot' \in Nat /\ top' \in Nat BY DEF DropInv, LoopInv, TypeOK
    <3> QED BY <3>1, <3>2
  <2>3. CASE UNCHANGED <<pc, n, len1, search>>
    BY <2>3 DEF Wide, PartLen, search
  <2>4. CASE (\E i \in 0 .. MaxId : Call(i)) \/ Found \/ Consume \/ Notify
    BY <2>4 DEF Call, Found, Consume, Notify
  <2>5. CASE (\E e \in 1 .. MaxId : Push(e)) \/ PushLastHole
    BY <2>3, <2>5 DEF Push, PushLastHole
  <2>6. CASE UNCHANGED vars
    BY <2>3, <2>6 DEF vars
  <2> QED BY <2>1, <2>2, <2>4, <2>5, <2>6 DEF Next
<1>3. DropInv /\ Wide => PartAsserts
  <2> SUFFICES ASSUME DropInv, pc = "search", PartLen > 1, bot < top
               PROVE  /\ pivot = 0 => bot = 0 /\ top = 1
                      /\ bot = pivot => top = bot + 1
    BY DEF Wide, PartAsserts
  <2>1. bot \in Nat /\ top \in Nat BY DEF DropInv, TypeOK
  <2> QED BY <2>1, PivotBetween DEF pivot
<1> QED BY <1>1, <1>2, <1>3, DropInvariant, PTL DEF Spec

=============================================================================
