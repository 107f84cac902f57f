------------------------------- MODULE Monitor -------------------------------
(***************************************************************************)
(* The monitoring path of a node: the stub of one simulation process       *)
(* writes the monitor buffer, the schedulers of the analytics processes    *)
(* read it. All of them run in signal handlers, in processes of their own, *)
(* and share nothing but the buffer and its lock.                          *)
(***************************************************************************)
EXTENDS Stub, Scheduler

vars == <<buffer, stubvars, proc>>

Init == BufferInit /\ StubInit /\ SchedInit

Next ==
  \/ StubNext /\ UNCHANGED proc
  \/ SchedNext /\ UNCHANGED stubvars

Spec == Init /\ [][Next]_vars

(***************************************************************************)
(* A handler that has been entered goes on running as long as its process  *)
(* may. Nothing is assumed of the rest: the simulation need not start      *)
(* another phase, a stopped process need not be continued.                 *)
(***************************************************************************)
Fairness ==
  /\ WF_vars(HandlerStep /\ UNCHANGED proc)
  /\ \A a \in Analytics : WF_vars(SchedHandlerStep(a) /\ UNCHANGED stubvars)

FairSpec == Spec /\ Fairness

-----------------------------------------------------------------------------
(***************************************************************************)
(* The two sides agree: what a scheduler has copied when it gives the lock *)
(* back is one record as the stub published it, phase and counts together. *)
(***************************************************************************)
SnapshotIsWhole ==
  \A a \in Analytics :
    proc[a].handler = "unlock" => proc[a].copied = shown

(***************************************************************************)
(* Neither side waits for the other. The handler of the simulation comes   *)
(* to its end although a scheduler was stopped with the lock in its hands, *)
(* and a scheduler comes to its end unless it is stopped or faults.        *)
(***************************************************************************)
SimulationIsNotHeldUp ==
  handler # "none" ~> handler = "none"

SchedulerIsNotHeldUp ==
  \A a \in Analytics :
    proc[a].handler # "none" ~> proc[a].handler = "none" \/ ~Runs(a)

-----------------------------------------------------------------------------
(***************************************************************************)
(* The two handlers, the lock and the pointers implement MonitorFeed:      *)
(* readers cannot tell that a record is written field by field, and what   *)
(* the pointers exchange is the start of the interval in progress. A       *)
(* record is published where its phase_id is written, and received where   *)
(* the last field is copied. No auxiliary variable is used in the mapping. *)
(***************************************************************************)
IntervalStart ==
  IF main = "reset" THEN start_value
  ELSE IF handler \in {"subtract", "try", "put_id", "put_value", "unlock", "swap"}
       THEN perfctr_values[current_pctr]
       ELSE perfctr_values[old_pctr]

Measured ==
  CASE handler = "subtract" -> {perfctr_values[current_pctr] - perfctr_values[old_pctr]}
    [] handler \in {"try", "put_id"} -> {perfctr_values[old_pctr]}
    [] OTHER -> {}

Published ==
  IF handler = "put_value" THEN record(monitor_buffer.phase_id, perfctr_values[old_pctr])
                           ELSE monitor_buffer

Received ==
  [a \in Analytics |-> IF proc[a].handler = "copy_value" THEN NothingCopied
                                                         ELSE proc[a].copied]

Feed == INSTANCE MonitorFeed
          WITH phase <- current_phase_id, monitored <- main = "open",
               from <- IntervalStart, measured <- Measured,
               published <- Published, received <- Received

ImplementsFeed == Feed!Spec
=============================================================================
