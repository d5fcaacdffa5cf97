----------------------------- MODULE ShamonLoop -----------------------------
(***************************************************************************)
(* A monitor that takes the events of one stream with shamon_get_next_ev   *)
(* (core/shamon.c, the main loop of monitors/monitor-generic.c):           *)
(*                                                                         *)
(*   while (__run && shamon_is_ready(s))                                   *)
(*       while ((ev = shamon_get_next_ev(s))) process ev                   *)
(*   shamon_destroy(s)                                                     *)
(*                                                                         *)
(* The main thread takes the arbiter's place in StreamFetch: it drops from *)
(* the arbiter buffer with shm_arbiter_buffer_drop, and when it leaves the *)
(* loop it joins the buffer manager thread.                                *)
(***************************************************************************)
EXTENDS StreamFetch

VARIABLES mpc,        \* main thread: where it is
          run,        \* __run, cleared by the signal handler
          qsize,      \* main thread: the size that peek1 returned
          ev,         \* main thread: shmn->_ev
          delivered   \* all events handed to the monitor

mainVars == <<mpc, run, qsize, ev, delivered>>
shamonVars == <<vars, mainVars>>

(* malloc gives memory with any content. *)
Uninitialised == [kind |-> "none", id |-> 0, n |-> 0]

ShamonInit ==
    /\ Init
    /\ mpc = "ready" /\ run = TRUE /\ qsize = 0
    /\ ev = Uninitialised /\ delivered = << >>

-----------------------------------------------------------------------------
MainStep(from, to) ==
    /\ mpc = from /\ mpc' = to
    /\ UNCHANGED <<vars, run, qsize, ev, delivered>>

(* Variants: the arbiter buffer is looked at before the shared memory, or  *)
(* not at all.                                                             *)
IsReadyBufferFirst ==
    \/ MainStep("ready", IF ~run THEN "join" ELSE IF destroyed THEN "bufsize" ELSE "next")
    \/ MainStep("bufsize", IF buf # << >> THEN "next" ELSE "shmsize")
    \/ MainStep("shmsize", IF shm # << >> THEN "next" ELSE "join")

IsReadyStreamOnly ==
    \/ MainStep("ready", IF ~run THEN "join" ELSE IF destroyed THEN "shmsize" ELSE "next")
    \/ MainStep("shmsize", IF shm # << >> THEN "next" ELSE "join")

(* shamon_is_ready: the flag of the shared buffer, its size, and the size  *)
(* of the arbiter buffer, one after the other.                             *)
IsReady ==
    \/ MainStep("ready", IF ~run THEN "join" ELSE IF destroyed THEN "shmsize" ELSE "next")
    \/ MainStep("shmsize", IF shm # << >> THEN "next" ELSE "bufsize")
    \/ MainStep("bufsize", IF buf # << >> THEN "next" ELSE "join")

(* default_process_events looks at the first event.  The size it sees is   *)
(* that of a cached head and may be smaller than the queue is by now.      *)
PeekFirst ==
    /\ mpc = "next"
    /\ IF buf = << >>
         THEN mpc' = "ready" /\ UNCHANGED qsize
         ELSE mpc' = "take" /\ qsize' \in 1 .. Len(buf)
    /\ UNCHANGED <<vars, run, ev, delivered>>

(* The buffer is almost full: half of it is dropped.  The event returned   *)
(* gets the first dropped id and keeps the kind that is in shmn->_ev.      *)
TakeHalf ==
    /\ mpc = "take" /\ 5 * qsize > 4 * BufCapacity
    /\ Drop(BufCapacity \div 2)
    /\ ev' = [ev EXCEPT !.id = buf[1].id]
    /\ mpc' = "notify"
    /\ UNCHANGED <<run, qsize, delivered>>

TakeOne ==
    /\ mpc = "take" /\ ~(5 * qsize > 4 * BufCapacity)
    /\ Drop(1)
    /\ ev' = buf[1]
    /\ mpc' = "notify"
    /\ UNCHANGED <<run, qsize, delivered>>

(* The end of shm_arbiter_buffer_drop. *)
TakeNotify ==
    /\ mpc = "notify"
    /\ NotifyProcessed
    /\ mpc' = "deliver"
    /\ UNCHANGED <<run, qsize, ev, delivered>>

Deliver ==
    /\ mpc = "deliver"
    /\ delivered' = Append(delivered, ev)
    /\ mpc' = "next"
    /\ UNCHANGED <<vars, run, qsize, ev>>

(* shamon_destroy joins the buffer manager. *)
Join ==
    /\ bpc = "done"
    /\ MainStep("join", "exit")

(* The signal handler. *)
Interrupt ==
    /\ run /\ mpc # "exit"
    /\ run' = FALSE
    /\ UNCHANGED <<vars, mpc, qsize, ev, delivered>>

MainNext ==
    \/ IsReady \/ PeekFirst \/ TakeHalf \/ TakeOne \/ TakeNotify \/ Deliver \/ Join

(* The program has ended, or was interrupted and its main thread waits for *)
(* a buffer manager for which nobody makes room any more.                  *)
Stopped ==
    /\ mpc = "exit" \/ (mpc = "join" /\ ~run)
    /\ UNCHANGED shamonVars

ShamonNext ==
    \/ (SourcePush \/ SourceDestroy \/ BmmNext) /\ UNCHANGED mainVars
    \/ MainNext
    \/ Interrupt
    \/ Stopped

(* The main thread and the buffer manager run; the source need not. *)
ShamonSpec ==
    /\ ShamonInit /\ [][ShamonNext]_shamonVars
    /\ WF_shamonVars(BmmNext /\ UNCHANGED mainVars)
    /\ WF_shamonVars(MainNext)

-----------------------------------------------------------------------------
(* The main thread leaves the loop by itself only when no event is left in *)
(* the arbiter buffer or on its way there: is_ready looks at the shared    *)
(* memory before it looks at the buffer.  The hole for the events dropped  *)
(* last may come later.                                                    *)
NoEventLeftBehind ==
    mpc \in {"join", "exit"} /\ run =>
       /\ shm = << >>
       /\ bpc \in {"get", "ready", "size", "end", "endhole", "endholed", "done", "start"}
       /\ \A i \in DOMAIN buf : buf[i].kind = "hole"

(* The ids the monitor sees never go back, holes and halves included. *)
MonitorSeesOrder ==
    \A i, j \in DOMAIN delivered : i < j => delivered[i].id <= delivered[j].id

(* The inductive invariant behind them, next to that of the stream.  Once  *)
(* the source is gone and the shared memory is empty, only a hole can come *)
(* to the arbiter buffer any more.                                         *)
Deliverable == [kind : {"none", "event", "hole"}, id : 0 .. MaxEvents, n : 0 .. MaxEvents]

LeftLoop == mpc \in {"join", "exit"} /\ run

LeaveInv ==
    /\ mpc = "shmsize" => destroyed
    /\ mpc = "bufsize" \/ LeftLoop => destroyed /\ shm = << >>
    /\ LeftLoop => \A i \in DOMAIN buf : buf[i].kind = "hole"

(* The id of the event at hand lies between those handed out and those in  *)
(* the arbiter buffer.                                                     *)
OrderInv ==
    /\ qsize \in Nat /\ ev \in Deliverable /\ delivered \in Seq(Deliverable)
    /\ \A i \in DOMAIN delivered : delivered[i].id <= ev.id
    /\ \A i \in DOMAIN buf : ev.id <= buf[i].id
    /\ ev.id <= IF written = << >> THEN 0 ELSE written[Len(written)].id
    /\ MonitorSeesOrder

LoopInv == LeaveInv /\ OrderInv

(* Without an interrupt, the program ends once its source did: the thread  *)
(* that shamon_destroy joins never waits for room in a buffer from which   *)
(* the main thread no longer takes.                                        *)
ProgramEnds == []run => (destroyed ~> mpc = "exit")
=============================================================================
