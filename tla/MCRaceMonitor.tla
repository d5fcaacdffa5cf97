--------------------------- MODULE MCRaceMonitor ---------------------------
EXTENDS RaceMonitor

MCMutexes == {1, 2}
MCAddrs == {1, 2}

LOCAL R(a) == Op("read", a)
LOCAL W(a) == Op("write", a)
LOCAL L(l) == Op("lock", l)
LOCAL U(l) == Op("unlock", l)
LOCAL C(t) == Op("create", t)
LOCAL J(t) == Op("join", t)
LOCAL Alloc == Op("alloc", 0)
LOCAL Release == Op("free", 0)
LOCAL End == Op("done", 0)
LOCAL Program(s, t, u) == [x \in 0 .. 2 |-> IF x = 0 THEN s ELSE IF x = 1 THEN t ELSE u]

(* Two threads that share an address, and main, which uses it afterwards. *)
LOCAL Uses == {<<W(1)>>, <<L(1), W(1), U(1)>>, <<W(1), L(1), U(1)>>, <<L(1), U(1), R(1)>>}
LOCAL Sharing ==
    {Program(<<C(1), C(2), J(1), R(1)>>, s, <<L(1), U(1), R(1)>>) : s \in Uses}
    \cup {Program(<<C(1), C(2), L(1), U(1), W(1)>>, s, <<W(1)>>) : s \in Uses}

(* A thread creates another; an order that goes through two mutexes; reads *)
(* of many threads at many places.                                         *)
LOCAL Tree == Program(<<W(1), C(1), J(1), R(1)>>, <<C(2), W(2), J(2), W(1)>>, <<R(1), W(2)>>)
LOCAL Chain == Program(<<C(1), C(2), L(1), L(2), U(2)>>,
                       <<W(1), L(1), U(1)>>, <<L(2), W(1)>>)
LOCAL Many == Program(<<R(1), C(1), R(2), C(2), W(1)>>,
                      <<R(1), Alloc, R(1), W(2)>>, <<R(1), Release, W(1), End>>)

MCPrograms == Sharing \cup {Tree, Chain, Many}
=============================================================================
