---------------------------- MODULE RaceMonitor ----------------------------
(***************************************************************************)
(* The monitor for data races, experiments/dataraces/monitor.cpp, and the  *)
(* program it watches.                                                     *)
(*                                                                         *)
(* The monitor keeps a list of synchronisation events and, for every       *)
(* address, the last write and the reads since, each with the place in the *)
(* list at which it happened and a lockset.  When another thread accesses  *)
(* the address, the events between the two accesses are applied to the     *)
(* lockset of the earlier one; the access is a race unless its thread is   *)
(* then in the lockset.  Cells of the list that no access refers to are    *)
(* freed from the front once there are many.                               *)
(*                                                                         *)
(* The program's threads create and join each other and take mutexes.  The *)
(* calls that sources/llvm/RaceInstrumentation.cpp inserts report these    *)
(* steps with timestamps, and the monitor gets the reports in their order. *)
(* The reports of a thread may be lost; the monitor is then told where the *)
(* hole begins and where it ends (monitor.txt).  To judge the monitor,     *)
(* every thread and mutex has a vector clock.                              *)
(*                                                                         *)
(* No function adds to LockThreads or to ThreadLocks, so that the alock of *)
(* an access is always 0, a lookup in LockThreads fails and the loop over  *)
(* ThreadLocks, which would check a write against the reads before it, is  *)
(* empty: all three are left out, and so are the locksets of reads.        *)
(***************************************************************************)
EXTENDS Integers, FiniteSets, SequencesExt

CONSTANTS MaxThread,   \* threads are 0 (main) .. MaxThread
          Mutexes,
          Addrs,       \* addresses the program reads and writes
          Programs,    \* programs: for every thread the sequence of its steps
          ManyCells,   \* the number of cells above which cells are freed
          MaxHoles     \* bound: holes

Threads == 0 .. MaxThread
Nobody == -1

ASSUME RaceAssumption == MaxThread \in Nat /\ ManyCells \in Nat /\ MaxHoles \in Nat

VARIABLES cells,     \* the cells ever in the list; the last one is the tail
          refcount,  \* the reference counts of the cells
          head,      \* the index of the head: the cells before it are freed
          Writes,    \* the last write to each address, or NoInfo
          Reads,     \* for each address and thread the place of the last read
                     \* since that write, or NoPos
          found,     \* how much the last event added to racecount
          todo,      \* the steps that each thread still has to take
          born,      \* threads created so far
          creating,  \* the thread that a thread has created and not reported
          holder,    \* the thread that holds a mutex, or Nobody
          clock,     \* vector clocks of the threads
          released,  \* vector clock of the last release of each mutex
          hole,      \* the thread whose events are being lost, or Nobody
          holes,     \* number of holes so far
          epoch,     \* its thread's clock at the last write to each address
          gap        \* what may hide an order from the monitor, since the
                     \* last write to each address

list == <<cells, refcount, head>>
infos == <<Writes, Reads>>
program == <<todo, born, creating, holder, clock, released>>
arbiter == <<hole, holes>>
writes == <<epoch, gap>>
vars == <<list, infos, found, program, arbiter, writes>>

-----------------------------------------------------------------------------
(* The list of synchronisation events.  new Cell() is zeroed. *)

NewCell == [type |-> "read", threadid |-> 0, arg |-> 0]
Filled(thrd, tp, a) == [type |-> tp, threadid |-> thrd, arg |-> a]
tail == Len(cells)
cellcount(h) == tail - h

enqueue_sync_event(thrd, tp, a) ==
    /\ cells' = Append([cells EXCEPT ![tail] = Filled(thrd, tp, a)], NewCell)
    /\ refcount' = Append(refcount, 0)
    /\ UNCHANGED head

(* The reference counts and the head, which an access changes together. *)
cell_rc_inc(mem, cell) == [mem EXCEPT !.rc[cell] = @ + 1]

(* The cell at which the loop that frees cells stops. *)
FirstInUse(rc, h) ==
    CHOOSE i \in h .. Len(rc) : /\ rc[i] # 0 \/ i = Len(rc)
                                /\ \A j \in h .. (i - 1) : rc[j] = 0

(* Variant: the cell at which the loop stops is freed too. *)
CellRcDecOneMore(mem, cell) ==
    LET rc == [mem.rc EXCEPT ![cell] = @ - 1]
        frees == rc[cell] = 0 /\ cellcount(mem.head) > ManyCells /\ rc[mem.head] = 0
    IN [rc |-> rc, head |-> IF frees THEN Min({FirstInUse(rc, mem.head) + 1, Len(rc)})
                                     ELSE mem.head]

cell_rc_dec(mem, cell) ==
    LET rc == [mem.rc EXCEPT ![cell] = @ - 1]
        frees == rc[cell] = 0 /\ cellcount(mem.head) > ManyCells /\ rc[mem.head] = 0
    IN [rc |-> rc, head |-> IF frees THEN FirstInUse(rc, mem.head) ELSE mem.head]

-----------------------------------------------------------------------------
(* Accesses and locksets. *)

NoPos == 0
Info(owner, pos) ==
    [owner |-> owner, pos |-> pos, addrs |-> {}, threads |-> {owner} \ {Nobody},
     skipthreads |-> {}, skippedthreads |-> {}]
NoInfo == Info(Nobody, NoPos)

(* A thread is in a lockset, or its events were lost and it might be. *)
MayBeIn(ls, u) == u \in ls.threads \cup ls.skipthreads \cup ls.skippedthreads

(* Variant: a hole that has ended is forgotten. *)
LossyInHoleOnly(ls) == ls.skipthreads # {}

(* The release of any mutex may have been lost. *)
Lossy(ls) == ls.skipthreads # {} \/ ls.skippedthreads # {}

(* Variant: a join tells the thread that ended, not the one that waited. *)
JoinsSwapped(ls, cell) ==
    CASE cell.type = "lock" -> {u \in {cell.threadid} : cell.arg \in ls.addrs \/ Lossy(ls)}
      [] cell.type \in {"fork", "join"} -> {u \in {cell.arg} : MayBeIn(ls, cell.threadid)}
      [] OTHER -> {}

(* The threads and the mutexes that an event adds to a lockset. *)
NewThreads(ls, cell) ==
    CASE cell.type = "lock" -> {u \in {cell.threadid} : cell.arg \in ls.addrs \/ Lossy(ls)}
      [] cell.type = "fork" -> {u \in {cell.arg} : MayBeIn(ls, cell.threadid)}
      [] cell.type = "join" -> {u \in {cell.threadid} : MayBeIn(ls, cell.arg)}
      [] OTHER -> {}
NewAddrs(ls, cell) ==
    {l \in {cell.arg} : cell.type = "unlock" /\ MayBeIn(ls, cell.threadid)}

(* What one event does to a lockset. *)
Rule(ls, cell) ==
    CASE cell.type = "skipstart" -> [ls EXCEPT !.skipthreads = @ \cup {cell.threadid}]
      [] cell.type = "skipend" -> [ls EXCEPT !.skipthreads = @ \ {cell.threadid},
                                             !.skippedthreads = @ \cup {cell.threadid}]
      [] OTHER -> [ls EXCEPT !.threads = @ \cup NewThreads(ls, cell),
                             !.addrs = @ \cup NewAddrs(ls, cell)]

(* The lockset is reset to the thread in the cell at the later access's    *)
(* place.  That is the tail, which no event has filled yet.                *)
apply_lockset_rules(info, pos2, owner2) ==
    LET ls == FoldLeft(Rule, info, SubSeq(cells, info.pos, pos2 - 1))
        thrd == cells[pos2].threadid
        race == /\ ~(ls.addrs = {} /\ ls.threads = {})
                /\ owner2 \notin ls.threads
                /\ thrd \notin ls.skipthreads \cup ls.skippedthreads
    IN [info |-> [ls EXCEPT !.addrs = {}, !.threads = {thrd}, !.skippedthreads = {}],
        races |-> IF race THEN 1 ELSE 0]

(* An access at the tail is checked against the last write, if any. *)
check_happens_before(info, owner2) ==
    IF info = NoInfo \/ info.owner = owner2
      THEN [info |-> info, races |-> 0]
      ELSE apply_lockset_rules(info, tail, owner2)

-----------------------------------------------------------------------------
(* The program.  A thread that was created may run before the call after   *)
(* thrd_create has reported it: it is early.                               *)

Op(name, arg) == [op |-> name, arg |-> arg]
Early(t) == \E u \in born : creating[u] = t
Returned(t) == t \in born /\ todo[t] = <<>> /\ creating[t] = Nobody

(* The next step of t is this one. *)
Takes(t, name, arg) ==
    /\ t \in born /\ creating[t] = Nobody
    /\ todo[t] # <<>> /\ Head(todo[t]) = Op(name, arg)
    /\ todo' = [todo EXCEPT ![t] = Tail(@)]

Merge(c, d) == [t \in Threads |-> Max({c[t], d[t]})]
Tick(c, t) == [c EXCEPT ![t][t] = @ + 1]

NoGap(lossy) == [holes |-> lossy, hard |-> lossy, blind |-> {}]

Init ==
    /\ cells = <<NewCell>> /\ refcount = <<0>> /\ head = 1
    /\ Writes = [a \in Addrs |-> NoInfo]
    /\ Reads = [a \in Addrs |-> [t \in Threads |-> NoPos]]
    /\ found = 0
    /\ todo \in Programs
    /\ born = {0}
    /\ creating = [t \in Threads |-> Nobody]
    /\ holder = [l \in Mutexes |-> Nobody]
    /\ clock = [t \in Threads |-> [u \in Threads |-> IF t = u THEN 1 ELSE 0]]
    /\ released = [l \in Mutexes |-> [u \in Threads |-> 0]]
    /\ hole = Nobody /\ holes = 0
    /\ epoch = [a \in Addrs |-> 0]
    /\ gap = [a \in Addrs |-> NoGap(FALSE)]

(* A step of thread t is reported to the monitor, or its report is lost.   *)
(* An order made by an early thread, and the creation of a thread whose    *)
(* report is lost, cannot be seen by the monitor; an order that t acquires *)
(* cannot be seen at t's accesses.                                         *)
Report(t, tp, a) ==
    /\ \/ hole # t /\ enqueue_sync_event(t, tp, a)
       \/ hole = t /\ UNCHANGED list
    /\ gap' = [x \in Addrs |->
                 [gap[x] EXCEPT
                    !.hard = @ \/ Early(t) \/ (hole = t /\ tp = "fork"),
                    !.blind = IF hole = t /\ tp \in {"lock", "join"} THEN @ \cup {t} ELSE @]]
    /\ found' = 0
    /\ UNCHANGED <<infos, arbiter, epoch>>

(* The call for a mutex that is taken comes after mtx_lock, the one for a  *)
(* mutex that is given back before mtx_unlock.                             *)
Lock(t, l) ==
    /\ Takes(t, "lock", l) /\ holder[l] = Nobody
    /\ holder' = [holder EXCEPT ![l] = t]
    /\ clock' = [clock EXCEPT ![t] = Merge(@, released[l])]
    /\ Report(t, "lock", l)
    /\ UNCHANGED <<born, creating, released>>

Unlock(t, l) ==
    /\ Takes(t, "unlock", l) /\ holder[l] = t
    /\ holder' = [holder EXCEPT ![l] = Nobody]
    /\ released' = [released EXCEPT ![l] = clock[t]]
    /\ clock' = Tick(clock, t)
    /\ Report(t, "unlock", l)
    /\ UNCHANGED <<born, creating>>

(* __vrd_create_thrd and thrd_create.  Nothing is reported yet. *)
Create(t, u) ==
    /\ Takes(t, "create", u) /\ u \notin born
    /\ born' = born \cup {u}
    /\ creating' = [creating EXCEPT ![t] = u]
    /\ clock' = Tick([clock EXCEPT ![u] = Merge(@, clock[t])], t)
    /\ gap' = [x \in Addrs |-> [gap[x] EXCEPT !.hard = @ \/ Early(t)]]
    /\ found' = 0
    /\ UNCHANGED <<list, infos, arbiter, epoch, holder, released>>

(* __vrd_thrd_created *)
Fork(t) ==
    /\ t \in born /\ creating[t] # Nobody
    /\ creating' = [creating EXCEPT ![t] = Nobody]
    /\ Report(t, "fork", creating[t])
    /\ UNCHANGED <<todo, born, holder, clock, released>>

(* __vrd_thrd_joined, after thrd_join.  The hole of a thread ends with its *)
(* last event, before the join.                                            *)
Join(t, u) ==
    /\ Takes(t, "join", u) /\ Returned(u) /\ hole # u
    /\ clock' = [clock EXCEPT ![t] = Merge(@, clock[u])]
    /\ Report(t, "join", u)
    /\ UNCHANGED <<born, creating, holder, released>>

(* The monitor's part of an access: monitor_handle_read ... *)
monitor_handle_read(t, a) ==
    /\ LET mem == cell_rc_inc([rc |-> refcount, head |-> head], tail)
           after == IF Reads[a][t] = NoPos THEN mem ELSE cell_rc_dec(mem, Reads[a][t])
           check == check_happens_before(Writes[a], t)
       IN /\ refcount' = after.rc /\ head' = after.head
          /\ Writes' = [Writes EXCEPT ![a] = check.info]
          /\ found' = check.races
    /\ Reads' = [Reads EXCEPT ![a][t] = tail]
    /\ UNCHANGED <<cells, writes>>

(* ... and monitor_handle_write.  The reads of the address are given up in *)
(* the order of their threads.                                             *)
monitor_handle_write(t, a) ==
    /\ LET mem == cell_rc_inc([rc |-> refcount, head |-> head], tail)
           giveUp(m, pos) == IF pos = NoPos THEN m ELSE cell_rc_dec(m, pos)
           reads == [i \in 1 .. (MaxThread + 1) |-> Reads[a][i - 1]]
           after == FoldLeft(giveUp, mem, <<Writes[a].pos>> \o reads)
       IN refcount' = after.rc /\ head' = after.head
    /\ found' = check_happens_before(Writes[a], t).races
    /\ Writes' = [Writes EXCEPT ![a] = Info(t, tail)]
    /\ Reads' = [Reads EXCEPT ![a] = [u \in Threads |-> NoPos]]
    /\ epoch' = [epoch EXCEPT ![a] = clock[t][t]]
    /\ gap' = [gap EXCEPT ![a] = NoGap(hole # Nobody)]
    /\ UNCHANGED cells

Lost(t) ==
    /\ hole = t /\ found' = 0
    /\ UNCHANGED <<list, infos, writes>>

Read(t, a) ==
    /\ Takes(t, "read", a)
    /\ (hole # t /\ monitor_handle_read(t, a)) \/ Lost(t)
    /\ UNCHANGED <<born, creating, holder, clock, released, arbiter>>

Write(t, a) ==
    /\ Takes(t, "write", a)
    /\ (hole # t /\ monitor_handle_write(t, a)) \/ Lost(t)
    /\ UNCHANGED <<born, creating, holder, clock, released, arbiter>>

(* Events that no rule for locksets is about. *)
AllocOrFree(t, tp) ==
    /\ Takes(t, tp, 0)
    /\ (hole # t /\ enqueue_sync_event(t, tp, 0)) \/ (hole = t /\ UNCHANGED list)
    /\ found' = 0
    /\ UNCHANGED <<infos, born, creating, holder, clock, released, arbiter, writes>>

(* The arbiter finds that the stream of a thread has ended.  A program     *)
(* without this step ends before that.                                     *)
Done(t) ==
    /\ Takes(t, "done", 0) /\ hole # t
    /\ enqueue_sync_event(t, "done", 0)
    /\ found' = 0
    /\ UNCHANGED <<infos, born, creating, holder, clock, released, arbiter, writes>>

(* The arbiter comes to the first of the lost events of a hole ... *)
SkipStart(t) ==
    /\ t \in born /\ ~Returned(t) /\ hole = Nobody /\ holes < MaxHoles
    /\ hole' = t /\ holes' = holes + 1
    /\ enqueue_sync_event(t, "skipstart", 0)
    /\ gap' = [x \in Addrs |-> [gap[x] EXCEPT !.holes = TRUE]]
    /\ found' = 0
    /\ UNCHANGED <<infos, program, epoch>>

(* ... and to the last.  It repeats the skipstart before the skipend, which *)
(* adds nothing to a lockset that the skipend does not add.                 *)
SkipEnd(t) ==
    /\ hole = t
    /\ hole' = Nobody
    /\ enqueue_sync_event(t, "skipend", 0)
    /\ found' = 0
    /\ UNCHANGED <<infos, program, holes, writes>>

Step(t) ==
    \/ \E l \in Mutexes : Lock(t, l) \/ Unlock(t, l)
    \/ \E u \in Threads : Create(t, u) \/ Join(t, u)
    \/ \E a \in Addrs : Read(t, a) \/ Write(t, a)
    \/ \E tp \in {"alloc", "free"} : AllocOrFree(t, tp)
    \/ Fork(t) \/ Done(t) \/ SkipStart(t) \/ SkipEnd(t)

Next == \E t \in Threads : Step(t)

Spec == Init /\ [][Next]_vars

-----------------------------------------------------------------------------
(* The number of accesses that refer to a cell. *)
Users(pos) == Cardinality({a \in Addrs : Writes[a].pos = pos})
              + Cardinality({at \in Addrs \X Threads : Reads[at[1]][at[2]] = pos})

(* Freeing cells is safe: every cell counts the accesses that refer to it, *)
(* and none of these cells is freed, so that apply_lockset_rules, which    *)
(* starts at the place of the earlier access, only meets cells of the      *)
(* list.  cell_rc_inc and cell_rc_dec are called from several places, and  *)
(* a write gives up the reads of its address one by one.                   *)
CellsKept ==
    /\ head <= tail /\ Len(refcount) = tail
    /\ \A pos \in head .. tail : refcount[pos] = Users(pos)
    /\ \A a \in Addrs :
         /\ Writes[a] # NoInfo => Writes[a].pos >= head
         /\ \A t \in Threads : Reads[a][t] # NoPos => Reads[a][t] >= head

(* The last write to a that was reported happened before what t does next. *)
Ordered(t, a) == epoch[a] <= clock[t][Writes[a].owner]

(* The lockset of the last write to a is that of its thread: no other      *)
(* thread's access was checked against it yet, or its thread is main.      *)
Fresh(a) == Writes[a] # NoInfo /\ Writes[a].threads = {Writes[a].owner}

(* The first check against a write is exact: as long as no event was lost  *)
(* since and no thread was early, it adds to racecount if and only if the  *)
(* write did not happen before the access.                                 *)
FirstCheckExact == [][\A t \in Threads, a \in Addrs :
    /\ Fresh(a) /\ ~gap[a].holes /\ ~gap[a].hard /\ ~Early(t)
    /\ hole # t /\ (Read(t, a) \/ Write(t, a))
    => (found' = 1 <=> ~Ordered(t, a))]_vars

(* No false alarm for lost events: when only events of mutexes and joins   *)
(* were lost since a write, and none that the thread of the access would   *)
(* have acquired the order with, the rules for skipthreads and             *)
(* skippedthreads keep the first check from reporting a race where there   *)
(* is none.                                                                *)
LossExcused == [][\A t \in Threads, a \in Addrs :
    /\ Fresh(a) /\ ~gap[a].hard /\ t \notin gap[a].blind /\ ~Early(t)
    /\ Ordered(t, a)
    /\ hole # t /\ (Read(t, a) \/ Write(t, a))
    => found' = 0]_vars
=============================================================================
