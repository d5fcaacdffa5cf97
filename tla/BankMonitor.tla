---------------------------- MODULE BankMonitor ----------------------------
(***************************************************************************)
(* The monitor of the bank program (the loop of main in                    *)
(* experiments/tessla_compare/bank.c) and what it is told.                 *)
(*                                                                         *)
(* The monitor learns of transactions from reports.  It keeps the balances *)
(* it knows and bounds on the ones it does not, in three intmaps, and      *)
(* counts as an error every report that contradicts them.  A Clear tells   *)
(* it that reports may be missing: it forgets everything.                  *)
(***************************************************************************)
EXTENDS Integers

CONSTANTS Accounts,    \* account numbers
          Balances,    \* balances an account can have
          Amounts      \* amounts of a transaction

(* What the theorems assume of them. *)
BankAssumption == Balances \subseteq Nat /\ Amounts \subseteq Nat

VARIABLES mon,     \* the monitor: its intmaps and its count of errors
          real,    \* the balances after the last reported transaction
          cleared  \* a Clear came after the last report: "yes" or "no"

bankVars == <<mon, real, cleared>>

(* The intmap of compiler/cfiles/intmap.cpp, which maps every account it   *)
(* has to a natural number.                                                *)
Absent == -1
Maps == [Accounts -> Nat \cup {Absent}]
Has(map, key) == map[key] # Absent
Insert(map, key, value) == [map EXCEPT ![key] = value]
Remove(map, key) == [map EXCEPT ![key] = Absent]
EmptyMap == [a \in Accounts |-> Absent]

Monitor(balances, upper_bounds, lower_bounds, errors) ==
    [balances |-> balances, upper_bounds |-> upper_bounds,
     lower_bounds |-> lower_bounds, errors |-> errors]

NewMonitor == Monitor(EmptyMap, EmptyMap, EmptyMap, 0)

(* How many of the conditions hold. *)
Count(c, d) == (IF c THEN 1 ELSE 0) + (IF d THEN 1 ELSE 0)

-----------------------------------------------------------------------------
(* What a report does to the monitor. *)

Clear(m) == Monitor(EmptyMap, EmptyMap, EmptyMap, m.errors)

(* SawBalance *)
SeeBalance(m, a, balance) ==
    LET B == m.balances
        U == m.upper_bounds
        L == m.lower_bounds
    IN IF Has(B, a)
         THEN Monitor(Insert(B, a, balance), U, L, m.errors + Count(B[a] # balance, FALSE))
         ELSE Monitor(Insert(B, a, balance), Remove(U, a), Remove(L, a),
                      m.errors + Count(Has(U, a) /\ balance > U[a],
                                       Has(L, a) /\ balance < L[a]))

(* SawDeposit, and SawTransfer for the account that receives. *)
Credit(m, a, n) ==
    LET B == m.balances
        U == m.upper_bounds
        L == m.lower_bounds
    IN IF Has(B, a)
         THEN Monitor(Insert(B, a, B[a] + n), U, L, m.errors)
         ELSE Monitor(B, IF Has(U, a) THEN Insert(U, a, U[a] + n) ELSE U,
                      Insert(L, a, IF Has(L, a) THEN L[a] + n ELSE n), m.errors)

(* SawWithdraw, and SawTransfer for the account that pays. *)
Debit(m, a, n) ==
    LET B == m.balances
        U == m.upper_bounds
        L == m.lower_bounds
        under == Has(U, a) /\ U[a] < n
    IN IF Has(B, a)
         THEN IF B[a] >= n THEN Monitor(Insert(B, a, B[a] - n), U, L, m.errors)
                           ELSE Monitor(Remove(B, a), U, L, m.errors + 1)
         ELSE Monitor(B,
                      IF under THEN Remove(U, a)
                      ELSE IF Has(U, a) THEN Insert(U, a, U[a] - n) ELSE U,
                      IF Has(L, a) THEN Insert(L, a, IF L[a] >= n THEN L[a] - n ELSE 0)
                                   ELSE L,
                      m.errors + Count(under, FALSE))

(* SawWithdrawFail, and SawTransferFail for the account that should pay. *)
FailedDebit(m, a, n) ==
    LET B == m.balances
        U == m.upper_bounds
        L == m.lower_bounds
        over == Has(L, a) /\ L[a] >= n
    IN IF Has(B, a)
         THEN IF B[a] >= n THEN Monitor(Remove(B, a), U, L, m.errors + 1) ELSE m
         ELSE Monitor(B, IF Has(U, a) /\ U[a] >= n THEN U ELSE Insert(U, a, n),
                      IF over THEN Remove(L, a) ELSE L, m.errors + Count(over, FALSE))

(* SawTransfer *)
Transfer(m, from_, to_, n) == Debit(Credit(m, to_, n), from_, n)

-----------------------------------------------------------------------------
(* The reports a correct bank gives rise to.  Between two reports with no  *)
(* Clear between them the balances do not change; after a Clear they may   *)
(* be anything.                                                            *)

BankInit ==
    /\ mon = NewMonitor
    /\ real \in [Accounts -> Balances]
    /\ cleared = "yes"

ReportFrom(pre) == cleared = "yes" \/ pre = real

SawBalance(pre, a) ==
    /\ ReportFrom(pre)
    /\ mon' = SeeBalance(mon, a, pre[a])
    /\ real' = pre /\ cleared' = "no"

SawDeposit(pre, a, n) ==
    /\ ReportFrom(pre) /\ pre[a] + n \in Balances
    /\ mon' = Credit(mon, a, n)
    /\ real' = [pre EXCEPT ![a] = @ + n] /\ cleared' = "no"

SawWithdraw(pre, a, n) ==
    /\ ReportFrom(pre) /\ pre[a] >= n /\ pre[a] - n \in Balances
    /\ mon' = Debit(mon, a, n)
    /\ real' = [pre EXCEPT ![a] = @ - n] /\ cleared' = "no"

SawWithdrawFail(pre, a, n) ==
    /\ ReportFrom(pre) /\ pre[a] < n
    /\ mon' = FailedDebit(mon, a, n)
    /\ real' = pre /\ cleared' = "no"

SawTransfer(pre, from_, to_, n) ==
    /\ ReportFrom(pre) /\ pre[from_] >= n
    /\ pre[from_] - n \in Balances /\ pre[to_] + n \in Balances
    /\ mon' = Transfer(mon, from_, to_, n)
    /\ LET credited == [pre EXCEPT ![to_] = @ + n]
       IN real' = [credited EXCEPT ![from_] = @ - n]
    /\ cleared' = "no"

SawTransferFail(pre, from_, n) ==
    /\ ReportFrom(pre) /\ pre[from_] < n
    /\ mon' = FailedDebit(mon, from_, n)
    /\ real' = pre /\ cleared' = "no"

SawClear ==
    /\ mon' = Clear(mon)
    /\ cleared' = "yes"
    /\ UNCHANGED real

Report(pre) ==
    \/ \E a \in Accounts :
         \/ SawBalance(pre, a)
         \/ \E n \in Amounts : \/ SawDeposit(pre, a, n)
                               \/ SawWithdraw(pre, a, n)
                               \/ SawWithdrawFail(pre, a, n)
                               \/ SawTransferFail(pre, a, n)
                               \/ \E to_ \in Accounts : SawTransfer(pre, a, to_, n)

BankNext == SawClear \/ \E pre \in [Accounts -> Balances] : Report(pre)

BankSpec == BankInit /\ [][BankNext]_bankVars

-----------------------------------------------------------------------------
Monitors == [balances : Maps, upper_bounds : Maps, lower_bounds : Maps, errors : Nat]

(* The monitor's state has its shape: three intmaps with account numbers   *)
(* for keys, never a negative value in them, and a count.                  *)
BankTypeOK ==
    /\ mon \in Monitors
    /\ real \in [Accounts -> Balances]
    /\ cleared \in {"yes", "no"}

(* What a monitor believes is true of the balances r: the ones it knows    *)
(* are exact, and of the others the bounds hold.                           *)
Believes(m, r) == \A a \in Accounts :
    IF Has(m.balances, a)
      THEN m.balances[a] = r[a]
      ELSE /\ Has(m.upper_bounds, a) => r[a] <= m.upper_bounds[a]
           /\ Has(m.lower_bounds, a) => m.lower_bounds[a] <= r[a]

(* Whatever the order of reports and Clears, the balances and bounds in    *)
(* the intmaps of bank.c are those of the bank at the last report.         *)
BeliefsTrue == Believes(mon, real)

(* No false alarm: a bank that keeps its accounts right, and an arbiter    *)
(* that says so when reports are missing, never make the monitor count an  *)
(* error (errors of bank.c).                                               *)
NoFalseAlarm == mon.errors = 0
=============================================================================
