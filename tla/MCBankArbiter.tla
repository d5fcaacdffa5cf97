--------------------------- MODULE MCBankArbiter ---------------------------
EXTENDS BankArbiter

MCAccountsOf == <<<<1>>, <<2>>>>
MCFirstBalances == <<2, 1>>

Command(c, n, to) == [c |-> c, n |-> n, to |-> to, u |-> 0, a |-> 0]
Login(u) == [c |-> "login", n |-> 0, to |-> 0, u |-> u, a |-> u]
Select(a) == [c |-> "select", n |-> 0, to |-> 0, u |-> 0, a |-> a]
Logout == Command("logout", 0, 0)
Deposit == Command("deposit", 1, 0)
DepositNothing == Command("deposit", 0, 0)
Withdraw(n) == Command("withdraw", n, 0)
Balance == Command("balance", 0, 0)
Pay(n) == Command("transfer", n, 2)
PayNobody == Command("transfer", 1, 3)
Wrong == Command("wrong", 7, 0)

(* From login to logout, all of it or from the third command on. *)
Whole(p, commands) ==
    [program |-> p, commands |-> <<Login(1)>> \o commands \o <<Logout>>, handled |-> 0]
Later(p, commands) ==
    [program |-> p, commands |-> <<Login(1), Balance>> \o commands \o <<Logout>>,
     handled |-> 2]

Relogin == <<Logout, Login(2)>>

(* The monitor knows the balance; then transactions, of which events may   *)
(* be lost, and one that contradicts the balance before.                   *)
MCSessions ==
    {Later("bank", commands) : commands \in
       {<<Balance, Deposit, Balance>>, <<Pay(1), Pay(1)>>, <<Pay(3), Withdraw(2)>>,
        <<Pay(3), Withdraw(3)>>, <<Pay(3), DepositNothing>>, <<Pay(1), Deposit>>,
        <<Withdraw(3), Balance>>, <<Select(1), Withdraw(1)>>,
        Relogin \o <<Balance>>, <<Pay(0), Withdraw(0)>>, <<PayNobody, Wrong, Deposit>>}}
    \cup {Whole("bank", << >>), Later("gen", <<Withdraw(1), Balance>>),
          Later("legacy", <<Pay(1), Balance>>)}
=============================================================================
