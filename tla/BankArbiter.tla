----------------------------- MODULE BankArbiter -----------------------------
(***************************************************************************)
(* A generated monitor at work on the bank program:                        *)
(*                                                                         *)
(*   Out ---> performance layer --buf--.                                   *)
(*                                      arbiter --monbuf--> monitor        *)
(*   In ----> performance layer --buf--'                                   *)
(*                                                                         *)
(* program is which of the three generated programs runs: "bank" (BankRules *)
(* and the monitor of BankMonitor), or "gen" (BankRulesGen) or "legacy"    *)
(* (BankRulesLegacy), which hand the reports on to TeSSLa.                 *)
(*                                                                         *)
(* StreamFetch has the details of a performance layer; here a step moves   *)
(* one element.  When a layer is slow is up to the scheduler, so all       *)
(* events of the session wait in the shared memory from the start.         *)
(***************************************************************************)
EXTENDS BankClient, FiniteSets, Integers

CONSTANTS Sessions,       \* the monitor that runs ("bank", "gen" or "legacy"), the
                          \* commands of the bank program, and how many of them
                          \* were handled before
          BufCapacity,    \* elements an arbiter buffer holds
          DropThreshold,  \* drop_space_threshold
          MonCapacity,    \* elements the monitor buffer holds
          MaxBalance      \* no balance or amount of a session is larger

ASSUME BufAssumption == BufCapacity > 3 /\ DropThreshold \in 1 .. (BufCapacity - 3)

ASSUME SessionAssumption ==
    \A session \in Sessions :
       \/ session.handled = 0
       \/ /\ session.handled = 2
          /\ session.commands[1].c = "login" /\ session.commands[2].c = "balance"

VARIABLES
    program,            \* which program
    trace,              \* what the bank program does
    shm,                \* the events that are still in the shared memory
    pending,            \* performance layers: 1 if events were dropped since the
                        \* last hole
    buf,                \* arbiter buffers
    ended,              \* the stream is not ready any more
    running,            \* performance layers counted by count_event_streams
    pc,                 \* arbiter: where it is
    current_rule_set,   \* arbiter
    got,                \* arbiter: how many elements it peeked at
    work_done,          \* arbiter: __work_done
    in_holes,           \* arbiter: whether in_holes > 0
    monbuf,             \* the monitor buffer
    mon,                \* the monitor's state
    (* what happened, for the properties *)
    real, cleared,      \* as in BankMonitor
    early,              \* a rule took a stream for done that was not
    failed              \* assertions that did not hold

layerVars == <<shm, pending, ended, running>>
arbiterVars == <<pc, current_rule_set, got, work_done, in_holes, early, failed>>
monitorVars == <<mon, real, cleared>>
vars == <<program, trace, layerVars, buf, arbiterVars, monbuf, monitorVars>>

Out == 1
In == 2
Both == {Out, In}

Bank == INSTANCE BankRules
Gen == INSTANCE BankRulesGen
Legacy == INSTANCE BankRulesLegacy
RuleSetsOf == [bank |-> Bank!RuleSets, gen |-> Gen!RuleSets, legacy |-> Legacy!RuleSets]

AllBalances == 0 .. MaxBalance

BankMon == INSTANCE BankMonitor
    WITH Accounts <- DOMAIN FirstBalances, Balances <- AllBalances, Amounts <- AllBalances

ASSUME BankNumbers == BankMon!BankAssumption

(* The monitor joins at the start of the session, or all of the first two  *)
(* commands, a login and a look at the balance, was handled before.        *)
StartsWith(commands, handled) ==
    LET later(e) == e.x > handled
        whole == Trace(commands)
        seen == whole[2]
    IN /\ trace = [x \in DOMAIN whole |-> [cmd |-> whole[x].cmd, a |-> whole[x].a,
                                           pre |-> whole[x].pre, post |-> whole[x].post]]
       /\ shm = <<SelectSeq(Events(whole, "Out"), later), SelectSeq(Events(whole, "In"), later)>>
       /\ real = FirstBalances
       /\ IF handled = 0
            THEN mon = BankMon!NewMonitor /\ cleared = "yes"
            ELSE /\ mon = IF program = "bank"
                            THEN BankMon!SeeBalance(BankMon!NewMonitor, seen.a, seen.pre[seen.a])
                            ELSE BankMon!NewMonitor
                 /\ cleared = "no"

Init ==
    /\ \E session \in Sessions : /\ program = session.program
                                 /\ StartsWith(session.commands, session.handled)
    /\ pending = <<0, 0>> /\ buf = <<<< >>, << >>>>
    /\ ended = <<FALSE, FALSE>> /\ running = Both
    /\ pc = "check" /\ current_rule_set = "aligning" /\ got = <<0, 0>>
    /\ work_done = FALSE
    /\ in_holes = FALSE
    /\ monbuf = << >>
    /\ early = FALSE /\ failed = {}

-----------------------------------------------------------------------------
(* The performance layers. *)

FreeSpace(s) == BufCapacity - Len(buf[s])
Hole == [k |-> "hole", t |-> 0, n |-> 0, a |-> 0, b |-> 0, x |-> 0, fd |-> "hole"]

(* An event is fetched and written to the buffer. *)
Forward(s) ==
    /\ shm[s] # << >> /\ pending[s] = 0 /\ FreeSpace(s) > 0
    /\ buf' = [buf EXCEPT ![s] = Append(@, Head(shm[s]))]
    /\ shm' = [shm EXCEPT ![s] = Tail(@)]
    /\ UNCHANGED <<program, trace, pending, ended, running, arbiterVars, monbuf, monitorVars>>

(* The buffer is full, or dropping goes on until there is more room. *)
Drop(s) ==
    /\ shm[s] # << >>
    /\ IF pending[s] = 0 THEN FreeSpace(s) = 0 ELSE FreeSpace(s) <= DropThreshold
    /\ pending' = [pending EXCEPT ![s] = 1]
    /\ shm' = [shm EXCEPT ![s] = Tail(@)]
    /\ UNCHANGED <<program, trace, ended, running, buf, arbiterVars, monbuf, monitorVars>>

(* A hole is pushed, before the next event or at the end of the stream. *)
PushHole(s) ==
    /\ pending[s] > 0 /\ FreeSpace(s) > DropThreshold
    /\ shm[s] # << >> \/ ended[s]
    /\ buf' = [buf EXCEPT ![s] = Append(@, Hole)]
    /\ pending' = [pending EXCEPT ![s] = 0]
    /\ UNCHANGED <<program, trace, shm, ended, running, arbiterVars, monbuf, monitorVars>>

(* The program has exited and its last event was consumed. *)
StreamEnds(s) ==
    /\ ~ended[s] /\ shm[s] = << >>
    /\ ended' = [ended EXCEPT ![s] = TRUE]
    /\ UNCHANGED <<program, trace, shm, pending, running, buf, arbiterVars, monbuf, monitorVars>>

(* The layer stops counting itself and exits. *)
LayerExits(s) ==
    /\ s \in running /\ ended[s] /\ pending[s] = 0
    /\ running' = running \ {s}
    /\ UNCHANGED <<program, trace, shm, pending, ended, buf, arbiterVars, monbuf, monitorVars>>

-----------------------------------------------------------------------------
(* The arbiter. *)

RuleSet == RuleSetsOf[program][current_rule_set]
Prefix(s) == SubSeq(buf[s], 1, got[s])

are_streams_done == (running = {} /\ \A s \in Both : buf[s] = << >>) \/ work_done

(* The loop of arbiter. *)
Check ==
    /\ pc = "check"
    /\ pc' = IF are_streams_done THEN "exit" ELSE "peek_out"
    /\ UNCHANGED <<program, trace, layerVars, buf, current_rule_set, got, work_done,
                   in_holes, early, failed, monbuf, monitorVars>>

(* A rule set's function peeks at one buffer after the other. *)
Peek(s, from, to) ==
    /\ pc = from /\ pc' = to
    /\ got' = [got EXCEPT ![s] = IF RuleSet.peek[s] < Len(buf[s]) THEN RuleSet.peek[s]
                                                                  ELSE Len(buf[s])]
    /\ UNCHANGED <<program, trace, layerVars, buf, current_rule_set, work_done,
                   in_holes, early, failed, monbuf, monitorVars>>

PeekOut == Peek(Out, "peek_out", IF RuleSet.peek[In] = 0 THEN "fire" ELSE "peek_in")
PeekIn == Peek(In, "peek_in", "fire")

(* The first rule that matches, or 0.  Whether a stream is done is asked   *)
(* now, about what was peeked before.                                      *)
Matches(rule) == /\ Bank!Satisfies(rule.out, Prefix(Out), ~ended[Out])
                 /\ Bank!Satisfies(rule.in, Prefix(In), ~ended[In])
Matching == {i \in DOMAIN RuleSet.rules : Matches(RuleSet.rules[i])}

NotDone(s) == buf[s] # << >> \/ pending[s] > 0
TooEarly(rule) == \/ rule.out.is = "done" /\ NotDone(Out)
                  \/ rule.in.is = "done" /\ NotDone(In)

(* A rule set that comes later in the loop of arbiter is tried at once. *)
Rank == [aligning |-> 1, align_in |-> 2, working |-> 3]
ThenTo(next) == IF Rank[next] > Rank[current_rule_set] THEN "peek_out" ELSE "check"

(* The report a rule yields; x is the command it is about. *)
ReportOf(kind) ==
    LET o == buf[Out]
        i == buf[In]
        report(a, b, n) == [kind |-> kind, a |-> a, b |-> b, n |-> n, x |-> o[1].x]
    IN CASE kind = "Clear" -> [kind |-> kind, a |-> 0, b |-> 0, n |-> 0, x |-> 0]
         [] kind = "SawBalance" -> report(o[1].a, 0, o[2].n)
         [] kind \in {"SawDeposit", "SawWithdraw", "SawWithdrawFail"} ->
              report(o[1].a, 0, i[2].n)
         [] kind \in {"SawTransfer", "SawTransferFail"} ->
              report(o[1].a, o[1].b, i[3].n)

(* The assertions of a body that do not hold: what was typed, and when. *)
Failures(body) ==
    (IF body.action # 0 /\ buf[In][1].n # body.action THEN {"action"} ELSE {}) \cup
    (IF body.timed /\ ~(buf[Out][1].t = buf[In][1].t + 1 /\ buf[In][2].t = buf[Out][1].t + 1)
       THEN {"time"} ELSE {})

(* What assert does in "gen" and "legacy"; the macro vamos_assert of       *)
(* "bank" negates the first word of its condition only.  So it never sees  *)
(* an action or a time that is wrong, and for the others it ends the loop  *)
(* after the body.                                                         *)
Asserted(failures) ==
    IF program = "bank"
      THEN work_done' = (work_done \/ failures \cap {"in_holes", "impossible"} # {})
      ELSE UNCHANGED work_done

Place(failures, next) ==
    IF program # "bank" /\ failures # {} THEN "aborted" ELSE ThenTo(next)

DropFirst(drop) ==
    buf' = [s \in Both |-> SubSeq(buf[s], drop[s] + 1, Len(buf[s]))]

(* A body without a choice. *)
RunFixed(body) ==
    /\ body.yield # "none" => Len(monbuf) < MonCapacity
    /\ monbuf' = IF body.yield = "none" THEN monbuf ELSE Append(monbuf, ReportOf(body.yield))
    /\ in_holes' = (in_holes \/ (body.yield = "Clear" /\ body.drop[In] = 1))
    /\ DropFirst(body.drop)
    /\ current_rule_set' = body.next
    /\ failed' = failed \cup Failures(body)
    /\ Asserted(Failures(body))
    /\ pc' = Place(Failures(body), body.next)

(* The bodies of align_in for a transaction and a number that was typed. *)
RunAlign(body) ==
    LET tout == buf[Out][1].t
        tin == buf[In][1].t
        to(failures, drop, next) ==
            /\ DropFirst(drop)
            /\ current_rule_set' = next
            /\ failed' = failed \cup failures /\ Asserted(failures)
            /\ pc' = Place(failures, next)
    IN /\ CASE tout = tin + body.gap -> to(Failures(body), <<0, 0>>, "working")
            [] tout > tin + body.gap -> to({}, <<0, 1>>, "align_in")
            [] OTHER -> to(IF in_holes THEN {} ELSE {"in_holes"}, <<1, 0>>, "aligning")
       /\ UNCHANGED <<monbuf, in_holes>>

(* "Should not happen" *)
RunImpossible ==
    /\ failed' = failed \cup {"impossible"}
    /\ Asserted({"impossible"})
    /\ pc' = Place({"impossible"}, current_rule_set)
    /\ UNCHANGED <<buf, monbuf, in_holes, current_rule_set>>

(* The first rule that matches is applied. *)
Fire ==
    /\ pc = "fire" /\ Matching # {}
    /\ LET rule == RuleSet.rules[CHOOSE i \in Matching : \A j \in Matching : i <= j]
           body == rule.body
       IN /\ early' = (early \/ TooEarly(rule))
          /\ \/ body.do = "fixed" /\ RunFixed(body)
             \/ body.do = "align" /\ RunAlign(body)
             \/ body.do = "impossible" /\ RunImpossible
    /\ got' = <<0, 0>>
    /\ UNCHANGED <<program, trace, layerVars, monitorVars>>

(* No rule matches: abort, if as much as the rule set peeks at was there. *)
NoMatch ==
    /\ pc = "fire" /\ Matching = {}
    /\ pc' = IF \A s \in Both : got[s] >= RuleSet.peek[s] THEN "aborted" ELSE "check"
    /\ got' = <<0, 0>>
    /\ UNCHANGED <<program, trace, layerVars, buf, current_rule_set, work_done, in_holes,
                   early, failed, monbuf, monitorVars>>

-----------------------------------------------------------------------------
(* Variant: the receiver of a transfer pays. *)
HandleSwapped(report) ==
    CASE report.kind = "Clear" -> BankMon!Clear(mon)
      [] report.kind = "SawBalance" -> BankMon!SeeBalance(mon, report.a, report.n)
      [] report.kind = "SawDeposit" -> BankMon!Credit(mon, report.a, report.n)
      [] report.kind = "SawWithdraw" -> BankMon!Debit(mon, report.a, report.n)
      [] report.kind = "SawTransfer" -> BankMon!Transfer(mon, report.b, report.a, report.n)
      [] OTHER -> BankMon!FailedDebit(mon, report.a, report.n)

(* The monitor takes a report. *)

Handle(report) ==
    CASE report.kind = "Clear" -> BankMon!Clear(mon)
      [] report.kind = "SawBalance" -> BankMon!SeeBalance(mon, report.a, report.n)
      [] report.kind = "SawDeposit" -> BankMon!Credit(mon, report.a, report.n)
      [] report.kind = "SawWithdraw" -> BankMon!Debit(mon, report.a, report.n)
      [] report.kind = "SawTransfer" -> BankMon!Transfer(mon, report.a, report.b, report.n)
      [] OTHER -> BankMon!FailedDebit(mon, report.a, report.n)

Deliver ==
    /\ monbuf # << >>
    /\ LET report == Head(monbuf) IN
       /\ mon' = IF program = "bank" THEN Handle(report) ELSE mon
       /\ IF report.kind = "Clear"
            THEN cleared' = "yes" /\ UNCHANGED real
            ELSE cleared' = "no" /\ real' = trace[report.x].post
    /\ monbuf' = Tail(monbuf)
    /\ UNCHANGED <<program, trace, layerVars, buf, arbiterVars>>

Layer(s) == Forward(s) \/ Drop(s) \/ PushHole(s) \/ StreamEnds(s) \/ LayerExits(s)
Arbiter == Check \/ PeekOut \/ PeekIn \/ Fire \/ NoMatch
Next == \/ pc # "aborted" /\ \E s \in Both : Layer(s)
        \/ Arbiter
        \/ pc # "aborted" /\ Deliver

Spec == Init /\ [][Next]_vars

(* Every thread gets to run: a step of the arbiter changes pc, and it may  *)
(* have to wait only while the monitor buffer is full.  Every step of a   *)
(* layer changes layerVars and every Deliver changes monbuf, so that the   *)
(* fairness is that over all variables.                                    *)
ArbiterRuns == []<>(pc \in {"exit", "aborted"} \/ Len(monbuf) = MonCapacity)
               \/ []<><<TRUE>>_pc
Fairness == (\A s \in Both : WF_layerVars(Layer(s))) /\ WF_monbuf(Deliver) /\ ArbiterRuns
FairSpec == Spec /\ Fairness

-----------------------------------------------------------------------------
(* Types; a buffer is never over its capacity. *)
TypeOK ==
    /\ \A s \in Both : /\ Len(buf[s]) <= BufCapacity
                       /\ got[s] <= Len(buf[s])
                       /\ pending[s] \in {0, 1}
    /\ running \subseteq Both /\ ended \in [Both -> BOOLEAN]
    /\ work_done \in BOOLEAN /\ in_holes \in BOOLEAN
    /\ pc \in {"check", "peek_out", "peek_in", "fire", "exit", "aborted"}
    /\ current_rule_set \in DOMAIN Rank
    /\ Len(monbuf) <= MonCapacity
    /\ failed \subseteq {"action", "time", "in_holes", "impossible"}

(* The report tells of the command x of the session: the account, the      *)
(* amount and the outcome are right, from the balances before it.          *)
TrueReport(report) ==
    LET cmd == trace[report.x].cmd
        pre == trace[report.x].pre
        a == trace[report.x].a
        is(c, kind, wasSuccess) ==
            /\ cmd.c = c /\ report.kind = kind /\ report.n = cmd.n
            /\ (cmd.n >= 1 /\ pre[a] >= cmd.n) = wasSuccess
    IN /\ report.a = a
       /\ \/ cmd.c = "balance" /\ report.kind = "SawBalance" /\ report.n = pre[a]
          \/ cmd.c = "deposit" /\ report.kind = "SawDeposit" /\ report.n = cmd.n
          \/ is("withdraw", "SawWithdraw", TRUE)
          \/ is("withdraw", "SawWithdrawFail", FALSE)
          \/ is("transfer", "SawTransfer", TRUE) /\ report.b = cmd.to
          \/ is("transfer", "SawTransferFail", FALSE) /\ report.b = cmd.to

(* Every report tells of one transaction of the bank as it was, though     *)
(* events of Out and In are lost independently and arrive in any order,    *)
(* and the balances before it are those after the report before, unless    *)
(* there was a Clear between: a transaction is left out without notice     *)
(* only if it changed nothing.  (The rule sets of the three programs.)     *)
ReportsFaithful ==
    [][ \/ early'
        \/ ~(monbuf # << >> /\ monbuf' = Tail(monbuf))
        \/ Head(monbuf).kind = "Clear"
        \/ /\ TrueReport(Head(monbuf))
           /\ cleared = "yes" \/ real = trace[Head(monbuf).x].pre ]_vars

(* BankMon!BankNext, in which TLC need not look for the balances. *)
BankMonNext ==
    BankMon!SawClear \/ \E x \in DOMAIN trace : BankMon!Report(trace[x].pre)

(* A transfer of nothing, which the bank refuses, is told as one that      *)
(* failed.                                                                 *)
ToldAsFailed == monbuf # << >> /\ Head(monbuf).kind = "SawTransferFail" /\ Head(monbuf).n = 0

(* bank.c implements BankMonitor, for which NoFalseAlarms is proved, except *)
(* that it raises an alarm when a transfer of nothing is told as failed.   *)
RefinesMonitor ==
    /\ cleared = "yes" => BankMon!BankInit
    /\ [][program # "bank" \/ early' \/ ToldAsFailed \/ BankMonNext]_<<mon, real, cleared>>

(* Types and capacities, and the assertions in the rules: a number lines   *)
(* up with the prompt that asked for it, transactions are passed over only *)
(* after a hole, and what "should not happen" does not (vamos_assert and   *)
(* assert in the rule sets).                                               *)
AssertionsHold == TypeOK /\ (early \/ failed = {})

(* The prompt of a withdrawal of less than 1 is the next to be reported.   *)
AtRefusedWithdrawal ==
    /\ buf[Out] # << >> /\ Head(buf[Out]).k = "withdraw"
    /\ trace[Head(buf[Out]).x].cmd.n < 1


(* The arbiter comes to an end after the bank program does, unless such a  *)
(* withdrawal is where it stays: with too few events left for the abort it *)
(* tries its rules for ever.                                               *)
ArbiterEnds == <>[](pc \in {"exit", "aborted"} \/ AtRefusedWithdrawal)
=============================================================================
