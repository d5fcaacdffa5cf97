--------------------------- MODULE MonitorBuffer ---------------------------
(***************************************************************************)
(* The buffer between the arbiter and the monitor (core/monitor.c) with    *)
(* its two users in a generated program: the arbiter thread yields events, *)
(* waiting for room, and marks the buffer finished when it exits; the main *)
(* thread runs the monitor: it fetches, processes and consumes one event   *)
(* after the other and ends when fetch_arbiter_stream returns NULL.        *)
(* An event is its number in the order of the yields.                      *)
(***************************************************************************)
EXTENDS Naturals, Sequences

CONSTANTS MonCapacity,  \* elements the monitor buffer holds
          MaxYields     \* bound on the events the arbiter yields

ASSUME MonitorAssumption == MonCapacity \in Nat \ {0} /\ MaxYields \in Nat

VARIABLES queue,      \* the buffer
          finished,   \* the arbiter has finished
          apc,        \* arbiter: "run", "ptr" (wants a pointer), "write", "exit"
          yielded,    \* arbiter: number of events yielded
          mpc,        \* monitor: "top", "finished?", "process", "end"
          delivered   \* the events the monitor processed

monitorVars == <<queue, finished, apc, yielded, mpc, delivered>>

MonitorInit ==
    /\ queue = << >> /\ finished = FALSE
    /\ apc = "run" /\ yielded = 0
    /\ mpc = "top" /\ delivered = << >>

-----------------------------------------------------------------------------
(* A rule yields an event: shm_monitor_buffer_write_ptr ... *)
Yield ==
    /\ apc = "run" /\ yielded < MaxYields
    /\ apc' = "ptr"
    /\ UNCHANGED <<queue, finished, yielded, mpc, delivered>>

(* ... returns when there is room ... *)
WritePtr ==
    /\ apc = "ptr" /\ Len(queue) < MonCapacity
    /\ apc' = "write"
    /\ UNCHANGED <<queue, finished, yielded, mpc, delivered>>

(* ... and shm_monitor_buffer_write_finish publishes the event. *)
MonitorWriteFinish ==
    /\ apc = "write"
    /\ queue' = Append(queue, yielded + 1)
    /\ yielded' = yielded + 1
    /\ apc' = "run"
    /\ UNCHANGED <<finished, mpc, delivered>>

(* All streams are done: shm_monitor_set_finished. *)
SetFinished ==
    /\ apc = "run"
    /\ finished' = TRUE
    /\ apc' = "exit"
    /\ UNCHANGED <<queue, yielded, mpc, delivered>>

ArbiterNext == Yield \/ WritePtr \/ MonitorWriteFinish \/ SetFinished

-----------------------------------------------------------------------------
(* fetch_arbiter_stream: is there an event? *)
Top ==
    /\ mpc = "top"
    /\ mpc' = IF queue # << >> THEN "process" ELSE "finished?"
    /\ UNCHANGED <<queue, finished, apc, yielded, delivered>>

(* Variants: an empty buffer ends the monitor; nothing does. *)
CheckFinishedEmptyEnds ==
    /\ mpc = "finished?"
    /\ mpc' = "end"
    /\ UNCHANGED <<queue, finished, apc, yielded, delivered>>

CheckFinishedNever ==
    /\ mpc = "finished?"
    /\ mpc' = "top"
    /\ UNCHANGED <<queue, finished, apc, yielded, delivered>>

(* If there was none: has the arbiter finished by now? *)
CheckFinished ==
    /\ mpc = "finished?"
    /\ mpc' = IF finished THEN "end" ELSE "top"
    /\ UNCHANGED <<queue, finished, apc, yielded, delivered>>

(* Variant: the event is not consumed. *)
ProcessNoConsume ==
    /\ mpc = "process"
    /\ delivered' = Append(delivered, Head(queue))
    /\ mpc' = "top"
    /\ UNCHANGED <<queue, finished, apc, yielded>>

(* The monitor processes the event and shm_monitor_buffer_consume drops it. *)
Process ==
    /\ mpc = "process"
    /\ delivered' = Append(delivered, Head(queue))
    /\ queue' = Tail(queue)
    /\ mpc' = "top"
    /\ UNCHANGED <<finished, apc, yielded>>

MonitorNext == Top \/ CheckFinished \/ Process

(* Both threads have ended. *)
Ended ==
    /\ apc = "exit" /\ mpc = "end"
    /\ UNCHANGED monitorVars

MonitorBufferNext == ArbiterNext \/ MonitorNext \/ Ended

MonitorSpec == MonitorInit /\ [][MonitorBufferNext]_monitorVars

(* Both threads run.  That the arbiter exits is not assumed. *)
MonitorFairSpec ==
    /\ MonitorSpec
    /\ WF_monitorVars(WritePtr \/ MonitorWriteFinish)
    /\ WF_monitorVars(MonitorNext)

-----------------------------------------------------------------------------
(* The values the variables of the monitor buffer take. *)
MonitorTypeOK ==
    /\ queue \in Seq(Nat) /\ Len(queue) <= MonCapacity
    /\ finished \in BOOLEAN
    /\ apc \in {"run", "ptr", "write", "exit"} /\ yielded \in 0 .. MaxYields
    /\ mpc \in {"top", "finished?", "process", "end"}
    /\ delivered \in Seq(Nat)

(* What the monitor processed, followed by what waits in the buffer, is    *)
(* exactly what the arbiter yielded, in order.                             *)
InOrderOnce ==
    /\ Len(delivered) + Len(queue) = yielded
    /\ \A i \in 1 .. Len(delivered) : delivered[i] = i
    /\ \A i \in 1 .. Len(queue) : queue[i] = Len(delivered) + i

(* The assertion "Asking a pointer from a finished buffer", and that the   *)
(* slot a pointer was given for is still free when the event is published. *)
WriteNotLate ==
    /\ finished => apc = "exit"
    /\ apc = "write" => Len(queue) < MonCapacity
    /\ mpc = "process" => queue # << >>

(* An arbiter that waits for room gets it: the monitor cannot stop while   *)
(* the arbiter has more to yield.                                          *)
YieldReturns == apc = "ptr" ~> apc = "run"

(* The monitor ends after the arbiter did. *)
MonitorEnds == finished ~> mpc = "end"

(* "return NULL if the stream ended" (fetch_arbiter_stream): when the      *)
(* monitor ends it has seen every event.                                   *)
EndSeesAll == mpc = "end" => queue = << >>
=============================================================================
