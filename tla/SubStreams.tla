----------------------------- MODULE SubStreams -----------------------------
(***************************************************************************)
(* An instrumented program with threads and its monitor meet in shared     *)
(* memory.  The source (sources/tsan/tsan_impl.c) makes a top buffer with  *)
(* a control buffer beside it, waits until a monitor has attached, and     *)
(* makes a sub-buffer for every thread that the program creates.  The      *)
(* monitor (monitors/monitor-generic.c on core/shamon.c) finds the         *)
(* buffers by name, forwards their events, and leaves when nothing can     *)
(* come any more.  Nothing but the shared memory connects the two, and     *)
(* either can be slow, be interrupted or crash.                            *)
(*                                                                         *)
(* Buffers are called by their number: 0 is the top buffer, n > 0 the      *)
(* sub-buffer with the key "<key>.sub.n".  An event is abstracted to       *)
(* whether it carries the kind that the monitor gave it.  The rings and    *)
(* the dropping of events are those of SpscRingbuf and StreamFetch; here   *)
(* a ring is a sequence, and the arbiter buffers are large enough.         *)
(***************************************************************************)
EXTENDS Naturals, Sequences

CONSTANTS
    Budget,      \* how much the program does: threads that it creates plus
                 \* accesses, lock operations and joins (bound)
    Cap          \* capacity of a buffer

ASSUME SizesAssumption == Budget \in Nat /\ Cap \in Nat \ {0}

Threads == 0..Budget
Numbers == 0..Budget

VARIABLES
    \* --- the source ---
    tpc,              \* where each thread of the program is
    child,            \* the thread that it is creating (0: none)
    no,               \* the number of the buffer of a thread
    last_thread_id,
    last_subbufer_no,
    reported,         \* accesses, lock operations and joins so far
    cached,           \* event_kinds holds the kinds of the monitor
    src,              \* the process: "alive", "ended" or "crashed"
    \* --- shared memory ---
    bufs,             \* the numbers whose buffer has a name
    ctrls,            \* the numbers whose control buffer has a name
    shm,              \* per number: ring, destroyed, attached, registered
    subbuffers_no,    \* of the top buffer
    \* --- the monitor ---
    mpc,              \* where its main thread is
    cur,              \* the number of the buffer that it opens
    streams,          \* its streams, by number
    substreams_no,    \* of the top stream
    pend,             \* events in the arbiter buffer of a stream
    chk,              \* position in the loop of shamon_is_ready
    turn,             \* position of the round robin over the arbiter buffers
    \* --- history ---
    hasty,            \* the source went on before the monitor was ready: SIGINT
                      \* ended the wait for it, or the sleep after the wait was
                      \* over before it had registered its events
    overlap           \* two threads were creating threads at the same time

ids == <<last_thread_id, last_subbufer_no>>
locals == <<child, no, ids, reported, cached>>
srcVars == <<tpc, locals, src>>
nameVars == <<bufs, ctrls>>
monVars == <<mpc, cur, streams, substreams_no, pend, chk, turn>>
history == <<hasty, overlap>>
vars == <<srcVars, nameVars, shm, subbuffers_no, monVars, history>>

Init ==
    /\ tpc = [t \in Threads |-> IF t = 0 THEN "ctrl" ELSE "none"]
    /\ child = [t \in Threads |-> 0]
    /\ no = [t \in Threads |-> 0]
    /\ last_thread_id = 1 /\ last_subbufer_no = 0
    /\ reported = 0 /\ cached = FALSE /\ src = "alive"
    /\ bufs = {} /\ ctrls = {}
    /\ shm = [n \in Numbers |-> [ring |-> << >>, destroyed |-> FALSE,
                                 attached |-> FALSE, registered |-> FALSE]]
    /\ subbuffers_no = 0
    /\ mpc = "open" /\ cur = 0 /\ streams = << >> /\ substreams_no = 0
    /\ pend = [n \in Numbers |-> 0] /\ chk = 1 /\ turn = 1
    /\ hasty = FALSE /\ overlap = FALSE

Spent == (last_thread_id - 1) + reported

At(t, pc) == src = "alive" /\ tpc[t] = pc
Goto(t, pc) == tpc' = [tpc EXCEPT ![t] = pc]

-----------------------------------------------------------------------------
(* Buffers are made under a temporary name and renamed when they are       *)
(* complete, so a name stands for a complete object.                       *)

\* the number of the buffer that thread t is making
Making(t) == no[child[t]]

\* Variant: no control buffer is made.
ControlSkipped(t) ==
    /\ At(t, "ctrl")
    /\ Goto(t, "buf")
    /\ UNCHANGED <<locals, src, nameVars, shm, subbuffers_no, monVars, history>>

create_shared_control_buffer(t) ==
    /\ At(t, "ctrl")
    /\ ctrls' = ctrls \cup {Making(t)}
    /\ Goto(t, "buf")
    /\ UNCHANGED <<locals, src, bufs, shm, subbuffers_no, monVars, history>>

initialize_shared_buffer(t) ==
    /\ At(t, "buf")
    /\ bufs' = bufs \cup {Making(t)}
    /\ Goto(t, IF child[t] = 0 THEN "wait" ELSE "count")
    /\ UNCHANGED <<locals, src, ctrls, shm, subbuffers_no, monVars, history>>

-----------------------------------------------------------------------------
(* The start of the source: __tsan_init.                                   *)

\* Variant: the loop ends after its first sleep.
SeeAnything ==
    /\ At(0, "wait")
    /\ Goto(0, "sleep")
    /\ UNCHANGED <<locals, src, nameVars, shm, subbuffers_no, monVars, history>>

\* buffer_wait_for_monitor: the loop ends when the monitor has attached ...
SeeAttached ==
    /\ At(0, "wait")
    /\ shm[0].attached
    /\ Goto(0, "sleep")
    /\ UNCHANGED <<locals, src, nameVars, shm, subbuffers_no, monVars, history>>

\* ... or on SIGINT, whose error __tsan_init does not look at.
InterruptWait ==
    /\ At(0, "wait")
    /\ ~shm[0].attached
    /\ hasty' = TRUE
    /\ Goto(0, "cache")
    /\ UNCHANGED <<locals, src, nameVars, shm, subbuffers_no, monVars, overlap>>

\* The last sleep, "so that the monitor has some time to move to monitoring
\* code", ends after 20 ms.  Nothing is looked at: the monitor may still be
\* between attaching to the top buffer and registering its events.
SleepOnceMore ==
    /\ At(0, "sleep")
    /\ hasty' = (hasty \/ (mpc = "register" /\ cur = 0))
    /\ Goto(0, "cache")
    /\ UNCHANGED <<locals, src, nameVars, shm, subbuffers_no, monVars, overlap>>

CacheKinds ==
    /\ At(0, "cache")
    /\ cached' = shm[0].registered
    /\ Goto(0, "run")
    /\ UNCHANGED <<child, no, ids, reported, src, nameVars, shm, subbuffers_no,
                   monVars, history>>

-----------------------------------------------------------------------------
(* Creating a thread: __vrd_create_thrd makes the sub-buffer, thrd_create  *)
(* starts the thread, __vrd_thrd_created reports it.  No lock is taken.    *)

Creating == {"ctrl", "buf", "count"}

\* Variant: the number is announced when it is taken.
TakeNumberAnnounced(t) ==
    /\ At(t, "run")
    /\ ~shm[0].destroyed
    /\ Spent < Budget
    /\ child' = [child EXCEPT ![t] = last_thread_id]
    /\ last_thread_id' = last_thread_id + 1
    /\ last_subbufer_no' = last_subbufer_no + 1
    /\ subbuffers_no' = subbuffers_no + 1
    /\ no' = [no EXCEPT ![last_thread_id] = last_subbufer_no + 1]
    /\ Goto(t, "ctrl")
    /\ UNCHANGED <<reported, cached, src, nameVars, shm, monVars, history>>

\* __vrd_create_thrd up to the key of the sub-buffer.  A thread is named here
\* by the number of its buffer, and the step is the one that takes it: the
\* thread id that was taken just before is only reported in events.  A thread
\* that is created after the top buffer was destroyed would use freed memory:
\* the program does not do that.
TakeNumber(t) ==
    /\ At(t, "run")
    /\ ~shm[0].destroyed
    /\ Spent < Budget
    /\ child' = [child EXCEPT ![t] = last_thread_id]
    /\ last_thread_id' = last_thread_id + 1
    /\ last_subbufer_no' = last_subbufer_no + 1
    /\ no' = [no EXCEPT ![last_thread_id] = last_subbufer_no + 1]
    /\ overlap' = (overlap \/ \E u \in Threads \ {t} : tpc[u] \in Creating)
    /\ Goto(t, "ctrl")
    /\ UNCHANGED <<reported, cached, src, nameVars, shm, subbuffers_no, monVars,
                   hasty>>

\* __vrd_thrd_entry: the new thread writes to the sub-buffer
__vrd_thrd_entry(t, c) == tpc' = [tpc EXCEPT ![t] = "fork", ![c] = "run"]

\* The sub-buffer is announced; __vrd_create_thrd returns, thrd_create starts
\* the thread.
CountAndStart(t) ==
    /\ At(t, "count")
    /\ subbuffers_no' = subbuffers_no + 1
    /\ __vrd_thrd_entry(t, child[t])
    /\ UNCHANGED <<locals, src, nameVars, shm, monVars, history>>

-----------------------------------------------------------------------------
(* Events of a thread.                                                     *)

\* start_event .. buffer_finish_push: wait for room, then push
PushEvent(t) ==
    /\ Len(shm[no[t]].ring) < Cap
    /\ shm' = [shm EXCEPT ![no[t]].ring = Append(@, cached)]

\* __tsan_read*, __tsan_write*, __vrd_mutex_lock, __vrd_mutex_unlock
Access(t) ==
    /\ At(t, "run")
    /\ Spent < Budget
    /\ PushEvent(t)
    /\ reported' = reported + 1
    /\ UNCHANGED <<tpc, child, no, ids, cached, src, nameVars, subbuffers_no,
                   monVars, history>>

__vrd_thrd_created(t) ==
    /\ At(t, "fork")
    /\ PushEvent(t)
    /\ child' = [child EXCEPT ![t] = 0]
    /\ Goto(t, "run")
    /\ UNCHANGED <<no, ids, reported, cached, src, nameVars, subbuffers_no,
                   monVars, history>>

\* A thread joins another one that has exited and whose creation has been
\* reported, so that get_data finds its entry.
Joined(t, c) ==
    /\ At(t, "run")
    /\ c # 0 /\ tpc[c] = "exited" /\ \A u \in Threads : child[u] # c
    /\ Spent < Budget
    /\ PushEvent(t)
    /\ reported' = reported + 1
    /\ Goto(c, "gone")
    /\ UNCHANGED <<child, no, ids, cached, src, nameVars, subbuffers_no, monVars, history>>

-----------------------------------------------------------------------------
(* The end of threads and of the program.                                  *)

\* __vrd_thrd_exit of a thread: destroy_shared_sub_buffer leaves the names
\* to the monitor.
ExitThread(t) ==
    /\ At(t, "run") /\ t # 0
    /\ shm' = [shm EXCEPT ![no[t]].destroyed = TRUE]
    /\ Goto(t, "exited")
    /\ UNCHANGED <<locals, src, nameVars, subbuffers_no, monVars, history>>

destroy_shared_control_buffer(n) == ctrls' = ctrls \ {n}

\* The writer of the top buffer removes its names.
destroy_shared_buffer ==
    /\ shm' = [shm EXCEPT ![0].destroyed = TRUE]
    /\ bufs' = bufs \ {0}
    /\ destroy_shared_control_buffer(0)

\* __vrd_thrd_exit of main: destroy_shared_buffer.  No other thread is in
\* __vrd_create_thrd then.
ExitMain ==
    /\ At(0, "run")
    /\ \A t \in Threads : tpc[t] \notin Creating
    /\ destroy_shared_buffer
    /\ Goto(0, "fini")
    /\ UNCHANGED <<locals, src, subbuffers_no, monVars, history>>

\* the memory of the process is gone with it
ProcessEnds(how) ==
    /\ src' = how
    /\ tpc' = [t \in Threads |-> "gone"]
    /\ child' = [t \in Threads |-> 0]
    /\ no' = [t \in Threads |-> 0]
    /\ last_thread_id' = 1 /\ last_subbufer_no' = 0
    /\ reported' = 0 /\ cached' = FALSE
    /\ UNCHANGED <<subbuffers_no, monVars, history>>

\* Variant: the buffers of threads that still run are not closed.
FiniForgetful ==
    /\ At(0, "fini")
    /\ ProcessEnds("ended")
    /\ UNCHANGED <<nameVars, shm>>

\* __vrd_fini closes the buffers of the threads that still run.
__vrd_fini ==
    /\ At(0, "fini")
    /\ LET open == {t \in Threads \ {0} : tpc[t] \notin {"none", "exited", "gone"}}
       IN  shm' = [n \in Numbers |->
                     IF \E t \in open : no[t] = n
                       THEN [shm[n] EXCEPT !.destroyed = TRUE] ELSE shm[n]]
    /\ ProcessEnds("ended")
    /\ UNCHANGED nameVars

\* SIGSEGV or SIGABRT, once setup_signals has run and main has not left:
\* sig_handler destroys the top buffer, and only that.
Crash ==
    /\ src = "alive"
    /\ child[0] # 0 \/ tpc[0] \notin {"ctrl", "buf"}
    /\ ~shm[0].destroyed
    /\ destroy_shared_buffer
    /\ ProcessEnds("crashed")

-----------------------------------------------------------------------------
(* The monitor opens a buffer: the top one at its start, a sub-buffer when *)
(* shamon_get_next_ev sees that there is a new one.                        *)

\* the memory of the monitor is gone with it
MonitorEndsAs(how) ==
    /\ mpc' = how
    /\ streams' = << >> /\ substreams_no' = 0
    /\ pend' = [n \in Numbers |-> 0] /\ chk' = 1 /\ turn' = 1
    /\ UNCHANGED <<srcVars, subbuffers_no, cur, history>>

\* try_get_shared_buffer: the name is there at one of the tries ...
OpenBuffer ==
    /\ mpc = "open"
    /\ cur \in bufs
    /\ mpc' = "openctrl"
    /\ UNCHANGED <<srcVars, nameVars, shm, subbuffers_no, cur, streams,
                   substreams_no, pend, chk, turn, history>>

\* ... or at none: the assertion on the result fails.
GiveUp ==
    /\ mpc = "open"
    /\ cur \notin bufs
    /\ MonitorEndsAs("failed")
    /\ UNCHANGED <<nameVars, shm>>

\* monitor-generic.c adds the top stream and registers its events after that;
\* shamon_get_next_ev does it the other way round for a sub-stream.
FirstOfTwo == IF cur = 0 THEN "attach" ELSE "register"

\* get_shared_control_buffer.  O_CREAT makes an empty file of a missing one,
\* and the size read from it is undefined: the mapping fails and both names
\* are removed, or it succeeds and the first access is the end.
OpenControl ==
    /\ mpc = "openctrl"
    /\ \/ /\ cur \in ctrls
          /\ mpc' = FirstOfTwo
          /\ UNCHANGED <<srcVars, nameVars, subbuffers_no, cur, streams,
                         substreams_no, pend, chk, turn, history>>
       \/ /\ cur \notin ctrls
          /\ \/ bufs' = bufs \ {cur} /\ UNCHANGED ctrls
             \/ ctrls' = ctrls \cup {cur} /\ UNCHANGED bufs
          /\ MonitorEndsAs("hollow")
    /\ UNCHANGED shm

\* shm_stream_register_all_events
Register ==
    /\ mpc = "register"
    /\ shm' = [shm EXCEPT ![cur].registered = TRUE]
    /\ mpc' = IF cur = 0 THEN "check" ELSE "attach"
    /\ chk' = 1
    /\ UNCHANGED <<srcVars, nameVars, subbuffers_no, cur, streams,
                   substreams_no, pend, turn, history>>

\* shm_stream_attach and shm_stream_detach do nothing to a destroyed buffer.
buffer_set_attached(b, val) == IF b.destroyed THEN b ELSE [b EXCEPT !.attached = val]

\* shamon_add_stream starts the thread of the stream and attaches.
Attach ==
    /\ mpc = "attach"
    /\ streams' = Append(streams, cur)
    /\ shm' = [shm EXCEPT ![cur] = buffer_set_attached(@, TRUE)]
    /\ mpc' = IF cur = 0 THEN "register" ELSE "process"
    /\ UNCHANGED <<srcVars, nameVars, subbuffers_no, cur, substreams_no, pend,
                   chk, turn, history>>

-----------------------------------------------------------------------------
(* The loop of the monitor: shamon_is_ready, and as long as there are      *)
(* events shamon_get_next_ev.                                              *)

Opened == {streams[i] : i \in DOMAIN streams}
is_ready(n) == ~shm[n].destroyed \/ shm[n].ring # << >>
has_new_substreams(n) == n = 0 /\ subbuffers_no > substreams_no

\* default_buffer_manager_thrd of stream n
Forward(n) ==
    /\ n \in Opened
    /\ mpc \notin {"done", "failed", "hollow"}
    /\ shm[n].ring # << >>
    /\ shm' = [shm EXCEPT ![n].ring = Tail(@)]
    /\ pend' = [pend EXCEPT ![n] = @ + 1]
    /\ UNCHANGED <<srcVars, nameVars, subbuffers_no, mpc, cur, streams,
                   substreams_no, chk, turn, history>>

\* Variant: sub-streams are looked for once the top stream is closed.
NextEvWhenClosed ==
    /\ mpc = "next"
    /\ IF has_new_substreams(0) /\ shm[0].destroyed
         THEN substreams_no' = substreams_no + 1 /\ cur' = substreams_no + 1 /\ mpc' = "open"
         ELSE mpc' = "process" /\ UNCHANGED <<substreams_no, cur>>
    /\ UNCHANGED <<srcVars, nameVars, shm, subbuffers_no, streams, pend, chk, turn, history>>

\* the part of shamon_get_next_ev before process_events
NextEv ==
    /\ mpc = "next"
    /\ IF has_new_substreams(0)
         THEN substreams_no' = substreams_no + 1 /\ cur' = substreams_no + 1 /\ mpc' = "open"
         ELSE mpc' = "process" /\ UNCHANGED <<substreams_no, cur>>
    /\ UNCHANGED <<srcVars, nameVars, shm, subbuffers_no, streams, pend, chk, turn, history>>

\* default_process_events returns an event of the next stream that has one,
\* or none when it comes to the end of the streams.  It goes on where it was
\* the last time, so that it may find none while a stream before has events.
Process ==
    LET first == IF turn > Len(streams) THEN 1 ELSE turn
        filled == {i \in first..Len(streams) : pend[streams[i]] > 0}
    IN  /\ mpc = "process"
        /\ \/ \E i \in filled : /\ \A j \in filled : i <= j
                               /\ pend' = [pend EXCEPT ![streams[i]] = @ - 1]
                               /\ mpc' = "next" /\ turn' = i + 1
                               /\ UNCHANGED chk
           \/ /\ filled = {}
              /\ mpc' = "check" /\ chk' = 1 /\ turn' = Len(streams) + 1
              /\ UNCHANGED pend
        /\ UNCHANGED <<srcVars, nameVars, shm, subbuffers_no, cur, streams,
                       substreams_no, history>>

\* shamon_is_ready looks at the streams one after the other, and at each
\* of them three times.
StillReady(ready, otherwise) ==
    /\ mpc' = IF ready THEN "next" ELSE otherwise
    /\ UNCHANGED <<srcVars, nameVars, shm, subbuffers_no, cur, streams,
                   substreams_no, pend, turn, history>>

CheckReady ==
    /\ mpc = "check"
    /\ StillReady(is_ready(streams[chk]), "subs")
    /\ UNCHANGED chk

\* Variant: sub-streams are not asked for.
CheckNoSubStreams ==
    /\ mpc = "subs"
    /\ StillReady(FALSE, "size")
    /\ UNCHANGED chk

CheckSubStreams ==
    /\ mpc = "subs"
    /\ StillReady(has_new_substreams(streams[chk]), "size")
    /\ UNCHANGED chk

CheckSize ==
    /\ mpc = "size"
    /\ StillReady(pend[streams[chk]] > 0, IF chk = Len(streams) THEN "destroy" ELSE "check")
    /\ chk' = IF pend[streams[chk]] = 0 /\ chk < Len(streams) THEN chk + 1 ELSE chk

\* Variant: the names of the sub-buffers stay.
ReleaseOnly ==
    /\ mpc = "destroy"
    /\ MonitorEndsAs("done")
    /\ UNCHANGED <<nameVars, shm>>

\* The reader of sub-buffers removes their names.
release_shared_sub_buffers(numbers) ==
    /\ bufs' = bufs \ numbers
    /\ ctrls' = ctrls \ numbers

\* shamon_destroy detaches, and releases the buffers of the streams.
shamon_destroy ==
    /\ mpc = "destroy"
    /\ shm' = [n \in Numbers |-> IF n \in Opened THEN buffer_set_attached(shm[n], FALSE)
                                                  ELSE shm[n]]
    /\ release_shared_sub_buffers(Opened \ {0})
    /\ MonitorEndsAs("done")

-----------------------------------------------------------------------------
MonitorOver == mpc \in {"done", "failed", "hollow"}

Terminated == src # "alive" /\ MonitorOver /\ UNCHANGED vars

ThreadStep(t) ==
    \/ create_shared_control_buffer(t) \/ initialize_shared_buffer(t)
    \/ TakeNumber(t) \/ CountAndStart(t) \/ __vrd_thrd_created(t)
    \/ Access(t) \/ ExitThread(t)
    \/ \E c \in Threads : Joined(t, c)

MainStep ==
    \/ SeeAttached \/ InterruptWait \/ SleepOnceMore \/ CacheKinds
    \/ ExitMain \/ __vrd_fini \/ Crash

MonitorStep ==
    \/ OpenBuffer \/ GiveUp \/ OpenControl \/ Register \/ Attach \/ NextEv \/ Process
    \/ CheckReady \/ CheckSubStreams \/ CheckSize \/ shamon_destroy

Next ==
    \/ \E t \in Threads : ThreadStep(t)
    \/ MainStep
    \/ MonitorStep
    \/ \E n \in Numbers : Forward(n)
    \/ Terminated

Spec == Init /\ [][Next]_vars

\* The main thread of the monitor and the threads of its streams run.  What
\* the program does, and when it ends, is left open.  (Every MonitorStep
\* changes mpc and every Forward changes pend: this is fairness over vars.)
FairSpec ==
    /\ Spec
    /\ WF_mpc(MonitorStep)
    /\ \A n \in Numbers : WF_pend(Forward(n))

-----------------------------------------------------------------------------
\* Types, and what the numbers count: a sub-buffer has its number before it
\* is counted, and the monitor never opens more than were counted.
TypeOK ==
    /\ tpc \in [Threads -> {"none", "ctrl", "buf", "wait", "sleep", "cache", "run",
                            "count", "fork", "exited", "fini", "gone"}]
    /\ child \in [Threads -> Threads] /\ no \in [Threads -> Numbers]
    /\ reported \in 0..Budget
    /\ bufs \subseteq Numbers /\ ctrls \subseteq Numbers
    /\ \A n \in Numbers : /\ Len(shm[n].ring) <= Cap
                          /\ shm[n].destroyed \in BOOLEAN
                          /\ shm[n].attached \in BOOLEAN
                          /\ shm[n].registered \in BOOLEAN
    /\ substreams_no <= subbuffers_no
    /\ src = "alive" => subbuffers_no <= last_subbufer_no
    /\ src \in {"alive", "ended", "crashed"}
    /\ mpc \in {"open", "openctrl", "register", "attach", "check", "subs", "size", "next",
                "process", "destroy", "done", "failed", "hollow"}

\* A sub-buffer that was announced is there when the monitor opens it: the
\* assertion of shm_stream_create_substream can fail only if two threads
\* were in create_shared_sub_buffer at the same time, when the second may
\* raise subbuffers_no before the buffer with the lower number has a name.
\* Up to then the counts of both sides agree as TypeOK says.
SubBufferThere == TypeOK /\ (mpc = "failed" /\ cur # 0 => overlap)

\* The monitor never maps a control buffer that nobody wrote, unless the
\* source ended between its opening of the buffer and of the control buffer,
\* which takes a crash or a SIGINT that ended the wait: the monitor has not
\* attached, so it is not the sleep after the wait that was too short.
ControlWritten == mpc = "hollow" => cur = 0 /\ ~shm[0].attached /\ (hasty \/ src = "crashed")

\* Every event carries the kind that the monitor gave it (the assertion
\* "Got invalid kind" of shm_stream_get_event_record), unless SIGINT ended
\* the wait for the monitor or the sleep after it was too short for the
\* monitor to get from attaching to registering.  No other order of the
\* steps of the two makes the source cache the kinds too early.
KindsKnown ==
    ~hasty => \A n \in Numbers : \A i \in DOMAIN shm[n].ring : shm[n].ring[i]

\* When the monitor leaves its loop it has found every sub-buffer that was
\* announced and has taken every event, although it looks at the streams one
\* by one while threads and sub-buffers come and go.
NothingUnseen ==
    mpc = "destroy" =>
        \A n \in 0..subbuffers_no : n \in Opened /\ shm[n].ring = << >> /\ pend[n] = 0

\* When source and monitor have ended regularly no name is left in the
\* shared memory: the source removes the names of the top buffer, the
\* monitor those of the sub-buffers.
NoNameLeft == src = "ended" /\ mpc = "done" => bufs = {} /\ ctrls = {}

-----------------------------------------------------------------------------
(* The inductive invariant behind these properties.                        *)

Buffers == [ring : Seq(BOOLEAN), destroyed : BOOLEAN, attached : BOOLEAN,
            registered : BOOLEAN]

ShapeInv ==
    /\ tpc \in [Threads -> {"none", "ctrl", "buf", "wait", "sleep", "cache", "run",
                            "count", "fork", "exited", "fini", "gone"}]
    /\ child \in [Threads -> Threads] /\ no \in [Threads -> Numbers]
    /\ last_thread_id \in Nat /\ last_thread_id >= 1 /\ last_subbufer_no \in Nat
    /\ reported \in Nat /\ Spent <= Budget /\ cached \in BOOLEAN
    /\ src \in {"alive", "ended", "crashed"}
    /\ bufs \subseteq Numbers /\ ctrls \subseteq Numbers
    /\ shm \in [Numbers -> Buffers] /\ \A n \in Numbers : Len(shm[n].ring) <= Cap
    /\ subbuffers_no \in Numbers
    /\ mpc \in {"open", "openctrl", "register", "attach", "check", "subs", "size", "next",
                "process", "destroy", "done", "failed", "hollow"}
    /\ cur \in Numbers /\ streams \in Seq(Numbers) /\ substreams_no \in Nat
    /\ pend \in [Numbers -> Nat] /\ chk \in Nat
    /\ hasty \in BOOLEAN /\ overlap \in BOOLEAN

\* main is in __tsan_init
InInit == tpc[0] \in {"wait", "sleep", "cache"} \/ (tpc[0] \in {"ctrl", "buf"} /\ child[0] = 0)

\* the threads in create_shared_sub_buffer
Creators == {t \in Threads : child[t] # 0 /\ tpc[t] \in Creating}

\* S has as many elements as there are numbers after m up to n.
AsMany(S, m, n) ==
    /\ m <= n
    /\ \E f \in [S -> (m + 1)..n] :
          /\ \A i \in (m + 1)..n : \E t \in S : f[t] = i
          /\ \A t, u \in S : f[t] = f[u] => t = u

\* The n-th thread has the n-th sub-buffer, which it closes when it exits.
\* The sub-buffers counted, and those that are being made, are all numbers
\* taken; without an overlap only the last number is being made.
ThreadInv ==
    /\ last_subbufer_no = last_thread_id - 1
    /\ \A t \in Threads :
          /\ no[t] = IF t < last_thread_id THEN t ELSE 0
          /\ t >= last_thread_id => tpc[t] = "none"
          /\ t # 0 => tpc[t] \notin {"wait", "sleep", "cache", "fini"}
          /\ tpc[t] \in Creating \cup {"fork"} => child[t] # 0 \/ (t = 0 /\ InInit)
          /\ child[t] # 0 => /\ tpc[t] \in Creating \cup {"fork"}
                             /\ child[t] < last_thread_id
          /\ t \in Creators => tpc[child[t]] = "none"
          /\ shm[t].destroyed => tpc[t] \in {"exited", "gone", "fini"}
    /\ \A t, u \in Threads : child[t] # 0 /\ child[t] = child[u] => t = u
    /\ tpc[0] \notin {"none", "exited", "gone"}
    /\ InInit => last_thread_id = 1
    /\ tpc[0] = "fini" => shm[0].destroyed /\ Creators = {}
    /\ AsMany(Creators, subbuffers_no, last_subbufer_no)
    /\ ~overlap => \A t \in Creators : child[t] = last_subbufer_no

\* Who is there under which name.  A control buffer has its name before the
\* buffer has; only the end of either side removes names.
NameInv ==
    /\ src = "alive" =>
          /\ bufs \cup ctrls \subseteq 0..last_subbufer_no
          /\ tpc[0] \in {"ctrl", "buf"} /\ child[0] = 0 => 0 \notin bufs
          /\ 0 \in ctrls \/ tpc[0] = "fini" \/ (tpc[0] = "ctrl" /\ child[0] = 0)
          /\ ~MonitorOver => \A t \in Creators :
                /\ tpc[t] = "buf" => child[t] \in ctrls
                /\ tpc[t] = "count" => child[t] \in bufs
    /\ shm[0].destroyed /\ src # "crashed" /\ mpc # "hollow" =>
          bufs \cup ctrls \subseteq 1..subbuffers_no
    /\ ~MonitorOver => bufs \ {0} \subseteq ctrls
    /\ ~MonitorOver /\ ~overlap => 1..subbuffers_no \subseteq bufs

\* The monitor opens the buffers in the order of their numbers.
StreamsInv ==
    /\ substreams_no <= subbuffers_no
    /\ \A i \in DOMAIN streams : streams[i] = i - 1
    /\ ~MonitorOver =>
          Len(streams) = IF mpc \in {"open", "openctrl", "attach"} \/ (mpc = "register" /\ cur # 0)
                           THEN (IF cur = 0 THEN 0 ELSE substreams_no)
                           ELSE substreams_no + 1
    /\ mpc \in {"open", "openctrl", "attach", "register"} => cur = substreams_no
    /\ mpc = "openctrl" /\ cur # 0 => cur \in bufs
    /\ mpc = "failed" /\ cur # 0 => overlap

\* The source does not go on before the monitor is attached and has
\* registered its events, unless it is hasty.
Registers == shm[0].registered \/ (mpc = "register" /\ cur = 0)

KindInv ==
    /\ mpc \in {"open", "openctrl", "attach"} /\ cur = 0 =>
          /\ ~shm[0].attached
          /\ hasty \/ src = "crashed" \/ (src = "alive" /\ InInit /\ tpc[0] \notin {"sleep", "cache"})
    /\ mpc = "openctrl" /\ cur = 0 /\ src = "alive" => ~(tpc[0] \in {"ctrl", "buf"} /\ child[0] = 0)
    /\ shm[0].attached => Registers
    /\ src = "alive" /\ ~hasty =>
          /\ tpc[0] = "sleep" => Registers
          /\ tpc[0] = "cache" => shm[0].registered
          /\ ~InInit => cached
    /\ KindsKnown /\ ControlWritten

\* A stream that was looked at stays closed and empty, and when the top
\* stream is closed no sub-buffer comes any more.
Dead(n) == shm[n].destroyed /\ shm[n].ring = << >>

ReadyInv ==
    /\ mpc \in {"check", "subs", "size"} =>
          /\ chk \in 1..(substreams_no + 1)
          /\ \A n \in 0..(chk - 2) : Dead(n) /\ pend[n] = 0
          /\ mpc # "check" => Dead(chk - 1)
          /\ mpc = "size" \/ chk > 1 => subbuffers_no = substreams_no
    /\ mpc = "destroy" =>
          /\ \A n \in 0..substreams_no : Dead(n) /\ pend[n] = 0
          /\ subbuffers_no = substreams_no
    /\ mpc = "done" => shm[0].destroyed /\ (src # "crashed" => bufs \cup ctrls = {})

SourceInv == IF src = "alive" THEN ThreadInv ELSE shm[0].destroyed

SubStreamsInv ==
    ShapeInv /\ SourceInv /\ NameInv /\ StreamsInv /\ KindInv /\ ReadyInv

-----------------------------------------------------------------------------
\* A thread that waits for room in its buffer gets it as long as the monitor
\* has not failed, also when its sub-buffer has not been found yet and when
\* main has left (stated for the first sub-buffer; none is treated differently).
NoThreadStarves ==
    (src = "alive" /\ Len(shm[1].ring) = Cap)
        ~> (src # "alive" \/ Len(shm[1].ring) < Cap \/ MonitorOver)

\* The monitor ends once all buffers are closed, and they all are when the
\* source ended regularly, also with threads that nobody joined.  (Threads
\* that create threads at the same time may lose an entry of data_list, and
\* __vrd_fini then misses a buffer.)
Closed == \A n \in 0..subbuffers_no : shm[n].destroyed
MonitorLeaves == (src = "ended" /\ ~overlap) \/ (src = "crashed" /\ Closed) ~> MonitorOver
=============================================================================
