----------------------------- MODULE BankClient -----------------------------
(***************************************************************************)
(* The monitored bank program (experiments/bank/client.c, bank.c): the     *)
(* lines it reads (In) and prints (Out) in a session, and the events that  *)
(* the regular expressions of regexbank.sh make of them.  Every finished   *)
(* line has a time, the same clock for both streams; a line that matches   *)
(* no expression makes no event.                                           *)
(***************************************************************************)
EXTENDS Naturals, Sequences, SequencesExt

CONSTANTS AccountsOf,     \* the accounts of each user, in the order listed
          FirstBalances   \* the balances at the start

(* A line: the event it makes ("none": no event), its number, and the      *)
(* accounts it names.                                                      *)
Line(fd, k, n, a, b) == [fd |-> fd, k |-> k, n |-> n, a |-> a, b |-> b]
Typed(n) == <<Line("In", "numIn", n, 0, 0)>>
TypedText == <<Line("In", "otherIn", 0, 0, 0)>>
TypedBlank == <<Line("In", "none", 0, 0, 0)>>
Printed(k) == <<Line("Out", k, 0, 0, 0)>>
PrintedNum(n) == <<Line("Out", "numOut", n, 0, 0)>>
PrintedAccount(k, a) == <<Line("Out", k, 0, a, 0)>>
Blank(n) == [i \in 1 .. n |-> Line("Out", "none", 0, 0, 0)]

(* main prints the menu of the selected account. *)
AccountMenu(a) == PrintedAccount("selectedAccount", a) \o Blank(7)

(* selectAccount, up to the next menu. *)
SelectAccount(user, a) ==
    Blank(1) \o [i \in DOMAIN AccountsOf[user] |->
                   Line("Out", "numOut", AccountsOf[user][i], 0, 0)]
             \o Blank(1) \o Typed(a) \o Blank(1) \o AccountMenu(a)

(* stdDeposit, stdWithdraw and stdTransfer of bank.c, if the client calls them. *)
After(balances, cmd, a) ==
    CASE cmd.c = "deposit" -> [balances EXCEPT ![a] = @ + cmd.n]
      [] cmd.c = "withdraw" /\ balances[a] >= cmd.n -> [balances EXCEPT ![a] = @ - cmd.n]
      [] cmd.c = "transfer" /\ cmd.to \in DOMAIN balances /\ balances[a] >= cmd.n ->
           [balances EXCEPT ![a] = @ - cmd.n, ![cmd.to] = @ + cmd.n]
      [] OTHER -> balances

(* What main reads and prints for a command, when account a of user u is   *)
(* selected.  No expression has the messages for a withdrawal or a         *)
(* transfer of nothing, for a transfer that fails, and for an account or a *)
(* command that there is not.                                              *)
Lines(cmd, u, a, balances) ==
    CASE cmd.c = "login" ->
           TypedText \o TypedText \o Blank(4) \o Typed(1) \o SelectAccount(cmd.u, cmd.a)
      [] cmd.c = "deposit" ->
           Typed(1) \o PrintedAccount("depositTo", a) \o Typed(cmd.n) \o Blank(1)
           \o Printed(IF cmd.n >= 1 THEN "depositSuccess" ELSE "depositFail")
           \o AccountMenu(a)
      [] cmd.c = "withdraw" ->
           Typed(2) \o PrintedAccount("withdraw", a) \o Typed(cmd.n) \o Blank(1)
           \o Printed(CASE cmd.n < 1 -> "none"
                        [] cmd.n >= 1 /\ balances[a] >= cmd.n -> "withdrawSuccess"
                        [] OTHER -> "withdrawFail")
           \o AccountMenu(a)
      [] cmd.c = "balance" ->
           Typed(3) \o PrintedAccount("balance", a) \o PrintedNum(balances[a])
           \o Blank(1) \o TypedBlank \o Blank(1) \o AccountMenu(a)
      [] cmd.c = "transfer" ->
           LET known == cmd.to \in DOMAIN balances
           IN  Typed(4) \o Blank(2) \o Typed(cmd.to)
               \o (IF known THEN <<Line("Out", "transfer", 0, a, cmd.to)>> \o Blank(1)
                                \o Typed(cmd.n)
                            ELSE << >>)
               \o Blank(1)
               \o Printed(IF known /\ cmd.n > 0 /\ balances[a] >= cmd.n
                            THEN "transferSuccess" ELSE "none")
               \o AccountMenu(a)
      [] cmd.c = "wrong" -> Typed(cmd.n) \o Blank(2) \o AccountMenu(a)
      [] cmd.c = "select" -> Typed(5) \o Blank(1) \o SelectAccount(u, cmd.a)
      [] cmd.c = "logout" -> Typed(0) \o Printed("logout")

(* The session step by step: for each command what it was, the selected    *)
(* account, the balances before and after it, and its lines.               *)
Trace(session) ==
    LET at[i \in 0 .. Len(session)] ==
          IF i = 0
            THEN <<[cmd |-> session[1], u |-> 1, a |-> 1, pre |-> FirstBalances,
                    post |-> FirstBalances, lines |-> << >>]>>
            ELSE LET was == at[i - 1][i]
                     cmd == session[i]
                     u == IF was.cmd.c = "login" THEN was.cmd.u ELSE was.u
                     a == IF was.cmd.c \in {"login", "select"} THEN was.cmd.a ELSE was.a
                 IN Append(at[i - 1],
                           [cmd |-> cmd, u |-> u, a |-> a, pre |-> was.post,
                            post |-> After(was.post, cmd, a),
                            lines |-> Lines(cmd, u, a, was.post)])
    IN Tail(at[Len(session)])

(* The events of a stream: the lines of fd that make one, with the time    *)
(* (the number of the line) and the number of the command.                 *)
Events(trace, fd) ==
    LET lines == FlattenSeq([x \in DOMAIN trace |->
                   [j \in DOMAIN trace[x].lines |-> [l |-> trace[x].lines[j], x |-> x]]])
        timed == [t \in DOMAIN lines |->
                   [k |-> lines[t].l.k, t |-> t, n |-> lines[t].l.n, a |-> lines[t].l.a,
                    b |-> lines[t].l.b, x |-> lines[t].x, fd |-> lines[t].l.fd]]
    IN SelectSeq(timed, LAMBDA e : e.fd = fd /\ e.k # "none")
=============================================================================
