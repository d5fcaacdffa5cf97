------------------------------- MODULE Primes -------------------------------
(***************************************************************************)
(* The monitor that compares two programs which print the primes           *)
(* (experiments/tessla_compare/primes.c).                                  *)
(*                                                                         *)
(* Stream s sends its primes with their indexes 1, 2, 3, ...  The arbiter  *)
(* keeps the next index of each stream (pos, which is 0 until the first    *)
(* prime is taken), and the primes of the one that is ahead in an intmap   *)
(* (mem) of limited size, until the other has caught up.  What was lost on *)
(* the way is told by a hole.  Pairs of primes with the same index go to   *)
(* the monitor, which compares them.                                       *)
(*                                                                         *)
(* The streams are in a buffer group, ordered by their positions           *)
(* (compiler/cfiles/compiler_utils.c).  All events wait in the shared      *)
(* memory from the start, as in BankArbiter.                               *)
(***************************************************************************)
EXTENDS Integers, Sequences, FiniteSets

CONSTANTS Length,         \* how many primes each stream sends
          BufCapacity,    \* elements an arbiter buffer holds
          DropThreshold,  \* drop_space_threshold
          MemCapacity,    \* primes the intmap may hold (10)
          MonCapacity     \* elements the monitor buffer holds

Streams == {0, 1}
Other(s) == 1 - s

ASSUME PrimesAssumption ==
    /\ Length \in [Streams -> Nat]
    /\ BufCapacity \in Nat /\ MonCapacity \in Nat \ {0}
    /\ DropThreshold \in Nat /\ DropThreshold < BufCapacity
    /\ MemCapacity \in Nat /\ MemCapacity > 1

VARIABLES
    fetched,    \* performance layers: events taken from the shared memory
    pending,    \* performance layers: events dropped since the last hole
    ended,      \* "yes": the stream is not ready any more
    running,    \* performance layers counted by count_event_streams
    arb,        \* the arbiter buffers
    pc, got,    \* arbiter: where it is, and how many elements it peeked at
    group,      \* arbiter: the buffer group, first to last
    pos,        \* arbiter: pos of the streams
    mem,        \* arbiter: the intmap buf: indexes, and whose prime it is
    count,      \* arbiter: count
    monbuf,     \* the monitor buffer
    (* what happened, for the properties *)
    seen,       \* indexes of the primes that a rule took from a stream
    compared    \* indexes of the pairs that were sent to the monitor

layerVars == <<fetched, pending, ended, running>>
ruleVars == <<pos, mem, count, seen, compared>>
vars == <<layerVars, arb, pc, got, group, ruleVars, monbuf>>

-----------------------------------------------------------------------------
(* Buffer groups: a list of streams. *)

(* Ps_ORDER_EXP *)
Ps_ORDER_EXP(s, t) == pos[s] > pos[t]

(* bg_insert, of a stream that is not in the group yet: at the end, or     *)
(* before the first one that need not be before it.                        *)
bg_insert(list, s) ==
    IF list = << >> \/ Ps_ORDER_EXP(s, list[Len(list)]) THEN Append(list, s)
    ELSE LET behind == {i \in 1 .. Len(list) : ~Ps_ORDER_EXP(s, list[i])}
             i == CHOOSE j \in behind : \A k \in behind : j <= k
         IN SubSeq(list, 1, i - 1) \o <<s>> \o SubSeq(list, i, Len(list))

(* bg_update, for a group of two. *)
bg_update(list) ==
    IF Ps_ORDER_EXP(list[1], list[2]) THEN <<list[2], list[1]>> ELSE list

Init ==
    /\ fetched = [s \in Streams |-> 0] /\ pending = [s \in Streams |-> 0]
    /\ ended = [s \in Streams |-> "no"] /\ running = Streams
    /\ arb = [s \in Streams |-> << >>]
    /\ pc = "check" /\ got = [s \in Streams |-> 0]
    /\ pos = [s \in Streams |-> 0]
    /\ group = bg_insert(bg_insert(<< >>, 0), 1)
    /\ mem = {} /\ count = 0
    /\ monbuf = << >>
    /\ seen = [s \in Streams |-> {}] /\ compared = {}

-----------------------------------------------------------------------------
(* The performance layers. *)

FreeSpace(s) == BufCapacity - Len(arb[s])

(* An element says which indexes it stands for: n of them, from i on.  The *)
(* first index is in the event of a prime; a hole has only n.              *)
Prime(i) == [k |-> "Prime", i |-> i, n |-> 1]
Hole(i, n) == [k |-> "hole", i |-> i, n |-> n]

(* The programs print their primes from #1 on. *)
Forward(s) ==
    /\ fetched[s] < Length[s] /\ pending[s] = 0 /\ FreeSpace(s) > 0
    /\ arb' = [arb EXCEPT ![s] = Append(@, Prime(fetched[s] + 1))]
    /\ fetched' = [fetched EXCEPT ![s] = @ + 1]
    /\ UNCHANGED <<pending, ended, running, pc, got, group, ruleVars, monbuf>>

Drop(s) ==
    /\ fetched[s] < Length[s]
    /\ FreeSpace(s) <= IF pending[s] = 0 THEN 0 ELSE DropThreshold
    /\ pending' = [pending EXCEPT ![s] = @ + 1]
    /\ fetched' = [fetched EXCEPT ![s] = @ + 1]
    /\ UNCHANGED <<ended, running, arb, pc, got, group, ruleVars, monbuf>>

PushHole(s) ==
    /\ pending[s] > 0 /\ FreeSpace(s) > DropThreshold
    /\ fetched[s] < Length[s] \/ ended[s] = "yes"
    /\ arb' = [arb EXCEPT ![s] = Append(@, Hole(fetched[s] - pending[s] + 1, pending[s]))]
    /\ pending' = [pending EXCEPT ![s] = 0]
    /\ UNCHANGED <<fetched, ended, running, pc, got, group, ruleVars, monbuf>>

StreamEnds(s) ==
    /\ ended[s] = "no" /\ fetched[s] = Length[s]
    /\ ended' = [ended EXCEPT ![s] = "yes"]
    /\ UNCHANGED <<fetched, pending, running, arb, pc, got, group, ruleVars, monbuf>>

LayerExits(s) ==
    /\ s \in running /\ ended[s] = "yes" /\ pending[s] = 0
    /\ running' = running \ {s}
    /\ UNCHANGED <<fetched, pending, ended, arb, pc, got, group, ruleVars, monbuf>>

-----------------------------------------------------------------------------
(* The arbiter. *)

(* The loop of arbiter: are_streams_done. *)
Check ==
    /\ pc = "check"
    /\ pc' = IF running = {} /\ \A s \in Streams : arb[s] = << >> THEN "exit" ELSE "peek0"
    /\ UNCHANGED <<layerVars, arb, got, group, ruleVars, monbuf>>

(* RULE_SET_rs peeks at one buffer after the other. *)
Peek(s, from, to) ==
    /\ pc = from /\ pc' = to
    /\ got' = [got EXCEPT ![s] = IF arb[s] = << >> THEN 0 ELSE 1]
    /\ UNCHANGED <<layerVars, arb, group, ruleVars, monbuf>>

(* Variant: the key itself is removed. *)
remove_upto_key(n) == {e \in mem : e.i > n}

(* intmap_remove_upto of compiler/cfiles/intmap.cpp: the key itself stays. *)
remove_upto(n) == {e \in mem : e.i >= n}

(* A pair for the monitor, which waits for room. *)
Yield(i, s, t) ==
    /\ Len(monbuf) < MonCapacity
    /\ monbuf' = Append(monbuf, [i |-> i, n |-> s, m |-> t])
    /\ compared' = compared \cup {i}

NoYield == UNCHANGED <<monbuf, compared>>

(* process, for the prime of stream s with index n. *)
process(s, n) ==
    IF pos[s] < pos[Other(s)]
      THEN /\ \/ \E e \in mem : e.i = n /\ Yield(n, e.s, s)
              \/ (\A e \in mem : e.i # n) /\ NoYield
           /\ mem' = remove_upto(n)
           /\ count' = count - Cardinality(mem \ remove_upto(n))
      ELSE /\ IF count < MemCapacity
                THEN /\ mem' = {e \in mem : e.i # n} \cup {[i |-> n, s |-> s]}
                     /\ count' = count + 1
                ELSE UNCHANGED <<mem, count>>
           /\ NoYield

(* Variant: the prime is not dropped from the buffer. *)
TakePrimeStays(s) ==
    LET n == Head(arb[s]).i
    IN /\ process(s, n)
       /\ pos' = [pos EXCEPT ![s] = n + 1]
       /\ seen' = [seen EXCEPT ![s] = @ \cup {n}]
       /\ UNCHANGED arb

(* The body of a rule for the prime at the head of stream s. *)
TakePrime(s) ==
    LET n == Head(arb[s]).i
    IN /\ process(s, n)
       /\ pos' = [pos EXCEPT ![s] = n + 1]
       /\ seen' = [seen EXCEPT ![s] = @ \cup {n}]
       /\ arb' = [arb EXCEPT ![s] = Tail(@)]

(* The body of the rule for a hole at the head of stream s. *)
TakeHole(s) ==
    LET n == Head(arb[s]).n
        gone == IF pos[s] < pos[Other(s)] THEN mem \ remove_upto(pos[s] + n) ELSE {}
    IN /\ mem' = mem \ gone
       /\ count' = count - Cardinality(gone)
       /\ pos' = [pos EXCEPT ![s] = @ + n]
       /\ arb' = [arb EXCEPT ![s] = Tail(@)]
       /\ UNCHANGED seen
       /\ NoYield

IsAtHead(s, k) == arb[s] # << >> /\ Head(arb[s]).k = k
BothPrimes == \A s \in Streams : got[s] = 1 /\ IsAtHead(s, "Prime")

(* Rule 1: a prime of both streams, with the same index. *)
SameIndex ==
    LET n == Head(arb[0]).i
    IN /\ pc = "both" /\ BothPrimes /\ n = Head(arb[1]).i
       /\ Yield(n, 0, 1)
       /\ arb' = [s \in Streams |-> Tail(arb[s])]
       /\ mem' = {} /\ count' = count - Cardinality(mem)
       /\ pos' = [s \in Streams |-> n + 1]
       /\ seen' = [s \in Streams |-> seen[s] \cup {n}]
       /\ pc' = "check"
       /\ UNCHANGED <<layerVars, got, group>>

(* Rule 1: with different ones; the stream that is behind goes on. *)
DifferentIndex ==
    /\ pc = "both" /\ BothPrimes /\ Head(arb[0]).i # Head(arb[1]).i
    /\ TakePrime(IF pos[0] < pos[1] THEN 0 ELSE 1)
    /\ pc' = "check"
    /\ UNCHANGED <<layerVars, got, group>>

(* Otherwise the group is put in order. *)
Choose ==
    /\ pc = "both" /\ ~BothPrimes
    /\ group' = bg_update(group)
    /\ pc' = "first"
    /\ UNCHANGED <<layerVars, arb, got, ruleVars, monbuf>>

(* Variant: a prime always needs room in the intmap. *)
PrimeRuleNeedsRoom(F) == IsAtHead(F, "Prime") /\ count < MemCapacity

(* Rules 2 and 3, for F the first stream of the group or the second. *)
PrimeRule(F) == /\ IsAtHead(F, "Prime")
                /\ count < MemCapacity \/ pos[F] <= pos[Other(F)]
HoleRule(F) == IsAtHead(F, "hole")

TryRules(at, F, otherwise) ==
    /\ pc = at
    /\ \/ PrimeRule(F) /\ TakePrime(F) /\ pc' = "check"
       \/ HoleRule(F) /\ TakeHole(F) /\ pc' = "check"
       \/ ~PrimeRule(F) /\ ~HoleRule(F) /\ pc' = otherwise /\ UNCHANGED <<arb, ruleVars, monbuf>>
    /\ UNCHANGED <<layerVars, got, group>>

(* No rule matched: abort, if there was an element in both buffers. *)
NoMatch == IF \A s \in Streams : got[s] = 1 THEN "aborted" ELSE "check"

(* The monitor takes a pair. *)
Deliver ==
    /\ monbuf # << >>
    /\ monbuf' = Tail(monbuf)
    /\ UNCHANGED <<layerVars, arb, pc, got, group, ruleVars>>

Layer(s) == Forward(s) \/ Drop(s) \/ PushHole(s) \/ StreamEnds(s) \/ LayerExits(s)
Arbiter ==
    \/ Check
    \/ Peek(0, "peek0", "peek1")
    \/ Peek(1, "peek1", "both")
    \/ SameIndex \/ DifferentIndex \/ Choose
    \/ TryRules("first", group[1], "second")
    \/ TryRules("second", group[2], NoMatch)
Next == (\E s \in Streams : Layer(s)) \/ Arbiter \/ Deliver

Spec == Init /\ [][Next]_vars

(* Every thread gets to run; the arbiter waits only while the monitor      *)
(* buffer is full.                                                         *)
Fairness == (\A s \in Streams : WF_vars(Layer(s))) /\ WF_vars(Arbiter) /\ WF_vars(Deliver)
FairSpec == Spec /\ Fairness

-----------------------------------------------------------------------------
Entries == [i : Nat, s : Streams]
Pairs == [i : Nat, n : Streams, m : Streams]
Elements == {x \in [k : {"Prime", "hole"}, i : Nat, n : Nat] : x.k = "Prime" => x.n = 1}

(* The variables have their types; a buffer is never over its capacity.    *)
TypeOK ==
    /\ fetched \in [Streams -> Nat] /\ pending \in [Streams -> Nat]
    /\ ended \in [Streams -> {"yes", "no"}] /\ running \subseteq Streams
    /\ arb \in [Streams -> Seq(Elements)]
    /\ \A s \in Streams : Len(arb[s]) <= BufCapacity
    /\ pc \in {"check", "peek0", "peek1", "both", "first", "second", "exit", "aborted"}
    /\ got \in [Streams -> {0, 1}]
    /\ group \in {<<0, 1>>, <<1, 0>>}
    /\ pos \in [Streams -> Nat]
    /\ mem \in SUBSET Entries /\ count \in Int
    /\ monbuf \in Seq(Pairs) /\ Len(monbuf) <= MonCapacity
    /\ seen \in [Streams -> SUBSET Nat] /\ compared \in SUBSET Nat

(* count is the size of the intmap, which is never over its limit, through *)
(* insertions, partial removals and clears (count of primes.c).            *)
CountIsSize == count = Cardinality(mem) /\ count <= MemCapacity

(* No comparison is skipped: an index that a rule has taken from both      *)
(* streams was compared, although the intmap is small and primes that do   *)
(* not fit are not kept (process of primes.c).                             *)
NothingSkipped == seen[0] \cap seen[1] \subseteq compared

(* A pair holds a prime of each stream, and pairs come in the order of     *)
(* their indexes, none twice (NumberPair of primes.c).                     *)
PairInOrder ==
    Len(monbuf') > Len(monbuf) =>
      LET pair == monbuf'[Len(monbuf')]
      IN pair.n # pair.m /\ \A j \in compared : j < pair.i
PairsInOrder == [][PairInOrder]_vars

(* There is a rule for whatever the two buffers hold: no abort with "No    *)
(* rule in rule set matched even though there was enough events".          *)
NeverStuck == pc # "aborted"

(* Streams of the same length: the arbiter comes to an end (arbiter).      *)
ArbiterEnds == <>(pc = "exit")

-----------------------------------------------------------------------------
(* Why: the inductive invariant.                                           *)

(* The index that comes next of a stream: pos, but pos starts at 0 and the *)
(* first prime has index 1.                                                *)
Place(s) == IF pos[s] = 0 THEN 1 ELSE pos[s]

(* With every index of the elements in the arbiter buffer and of the       *)
(* dropped events that no hole tells of yet, the place of a stream adds up *)
(* to the events fetched, whatever was lost.                               *)
Exact(elements, start, end) ==
    LET next(j) == IF j > Len(elements) THEN end ELSE elements[j].i
    IN /\ next(1) = start
       /\ \A j \in 1 .. Len(elements) : next(j + 1) = elements[j].i + elements[j].n
PosExact(s) == Exact(arb[s], Place(s), fetched[s] - pending[s] + 1)

(* This is why pos may start one too low: the first element is a prime,    *)
(* which sets pos, and never a hole, which adds to it (nothing is dropped  *)
(* before the arbiter buffer was full).                                    *)
PrimeFirst(s) ==
    /\ pos[s] # 1
    /\ pos[s] = 0 => IF arb[s] = << >> THEN pending[s] = 0 ELSE Head(arb[s]).k = "Prime"

(* What was seen of a stream, and compared, lies before its place. *)
SeenBefore(s) == \A i \in seen[s] \cup compared : i < pos[s]

(* If s is not ahead, the intmap has everything that was seen of the other *)
(* stream from the place of s on, nothing else from there on, and at most  *)
(* one older entry.                                                        *)
MemOfAhead(s) ==
    pos[s] <= pos[Other(s)] =>
      /\ \A i \in seen[Other(s)] : i >= pos[s] => [i |-> i, s |-> Other(s)] \in mem
      /\ \A e \in mem : /\ e.i >= pos[s] - 1 /\ e.i < pos[Other(s)]
                        /\ e.i >= pos[s] => e.s = Other(s)
OneEntryPerKey == \A e, f \in mem : e.i = f.i => e = f

(* What the arbiter peeked at is still there, and the rules are tried in   *)
(* the order of the group.                                                 *)
PeekedStays ==
    /\ pc \in {"both", "first", "second"} => \A s \in Streams : got[s] = 1 => arb[s] # << >>
    /\ pc = "peek1" => (got[0] = 1 => arb[0] # << >>)
    /\ pc = "first" => pos[group[1]] <= pos[group[2]]
    /\ pc = "second" => got[group[1]] = 0

(* From the first prime of a stream on its position is exact, the intmap   *)
(* is the memory of the stream ahead, and count is its size (rule set rs   *)
(* of primes.c).                                                           *)
PrimesInv ==
    /\ TypeOK /\ CountIsSize /\ NothingSkipped /\ NeverStuck
    /\ IsFiniteSet(mem) /\ OneEntryPerKey /\ PeekedStays
    /\ \A s \in Streams : /\ PosExact(s) /\ PrimeFirst(s) /\ SeenBefore(s) /\ MemOfAhead(s)
                          /\ fetched[s] - pending[s] >= 0
=============================================================================
