------------------------------ MODULE Programs ------------------------------
(***************************************************************************)
(* The programs of a node, together: simulation and analytics processes    *)
(* that use the runtime from gr_init to gr_finalize, and the two sampling  *)
(* programs, which use only its counters.                                  *)
(***************************************************************************)
EXTENDS LifeCycle, Probe

(* Which programs run on the node, the events that each of them names in   *)
(* its environment, GR_DO_PHASE_PERFCTR and GR_DO_STUB, and how often each *)
(* process calls gr_init, and gr_finalize, at most.                        *)
CONSTANT Casts

ASSUME CastsAssumption ==
  \A cast \in Casts :
    /\ cast.program \in [Procs -> {"simulation", "analytics", "none"} \cup Samplers]
    /\ cast.events \in [Procs -> EventCounts]
    /\ cast.do_perfctr \in BOOLEAN /\ cast.do_stub \in BOOLEAN
    /\ cast.lives \in [Procs -> Nat]

vars == <<lifevars, probe>>

Init ==
  /\ \E cast \in Casts :
       /\ program = cast.program
       /\ perf = [p \in Procs |-> NewCounters(cast.events[p])]
       /\ proc = [p \in Procs |-> NewProcess(cast.do_perfctr, cast.do_stub, cast.lives[p])]
  /\ senders = FALSE
  /\ regions = [p \in Procs |-> "none"]
  /\ probe = [p \in Procs |-> NewProbe]

Next ==
  \/ (RegisterSender \/ \E p \in Procs : LifeStep(p)) /\ UNCHANGED probe
  \/ \E s \in Procs :
       /\ program[s] \in Samplers
       /\ SamplerStep(s, program[s])
       /\ UNCHANGED <<program, proc, senders, regions>>

Spec == Init /\ [][Next]_vars

(***************************************************************************)
(* The loops in which gr_load_scheduler waits look again once a second, as *)
(* long as the process runs. Nobody has to do anything else.               *)
(***************************************************************************)
Fairness ==
  \A p \in Procs :
    WF_vars((gr_get_sender(p) \/ gr_attach_monitor_buffer(p)) /\ UNCHANGED probe)

FairSpec == Spec /\ Fairness

TypeOK ==
  /\ perf \in [Procs -> CountersRecord]
  /\ proc \in [Procs -> ProcessRecord]
  /\ senders \in BOOLEAN
  /\ regions \in [Procs -> {"none", "raw", "ready"}]
  /\ probe \in [Procs -> ProbeRecord]
=============================================================================
