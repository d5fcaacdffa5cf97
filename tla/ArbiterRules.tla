---------------------------- MODULE ArbiterRules ----------------------------
(***************************************************************************)
(* Rules of a generated arbiter as data.  A rule has a condition on the    *)
(* peeked prefix of each of the two streams, Out and In, and a body.  A    *)
(* rule set is what its function peeks at and its rules, of which the      *)
(* first that matches is applied.  Pairs are <<of Out, of In>>.            *)
(***************************************************************************)
EXTENDS Naturals, Sequences

(* Conditions on a stream: the kinds of its first events, a number of      *)
(* events, the end of the stream, or nothing.                              *)
Starts(kinds) == [is |-> "starts", kinds |-> kinds, n |-> Len(kinds)]
AtLeast(n) == [is |-> "atleast", kinds |-> << >>, n |-> n]
Done == [is |-> "done", kinds |-> << >>, n |-> 0]
Whatever == [is |-> "whatever", kinds |-> << >>, n |-> 0]

(* are_events_in_head, check_at_least_n_events, and the test of a stream's *)
(* end: the prefix that was peeked is empty and the stream is not ready.   *)
Satisfies(cond, prefix, ready) ==
    /\ Len(prefix) >= cond.n
    /\ cond.is = "starts" => \A i \in 1 .. cond.n : prefix[i].k = cond.kinds[i]
    /\ cond.is = "done" => prefix = << >> /\ ~ready

On(out, in, body) == [out |-> out, in |-> in, body |-> body]

(* A body: the event it yields, the action number it asserts (0: none),    *)
(* how many events it drops, and the rule set it switches to.  Counters    *)
(* that are only printed at the end are left out.                          *)
Body(yield, action, drop, next) ==
    [do |-> "fixed", yield |-> yield, action |-> action, drop |-> drop,
     next |-> next, gap |-> 0, timed |-> FALSE]

(* The body also asserts that the first events follow each other at once. *)
Timed(body) == [body EXCEPT !.timed = TRUE]

Skip(drop, next) == Body("none", 0, drop, next)

(* Compares the time of Out's event with that of In's: gap is the number   *)
(* of lines between a command and the program's answer.                    *)
Align(gap, action) ==
    [Body("none", action, <<0, 0>>, "align_in")
       EXCEPT !.do = "align", !.gap = gap]

(* assert(0 && "Should not happen"): nothing is dropped. *)
Impossible == [Body("none", 0, <<0, 0>>, "align_in")
                 EXCEPT !.do = "impossible"]

RuleSet(peek, rules) == [peek |-> peek, rules |-> rules]
=============================================================================
