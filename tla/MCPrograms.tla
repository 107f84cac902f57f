----------------------------- MODULE MCPrograms -----------------------------
(* Constants for checking Programs: one process alone, one or two          *)
(* simulation processes with an analytics process, and a sampler alone.    *)
EXTENDS Programs, TLC

CONSTANTS p1, p2, p3, p4

FourProcs == {p1, p2, p3, p4}
Ranks == (p1 :> 0) @@ (p2 :> 0) @@ (p3 :> 1) @@ (p4 :> 2)

(* What runs, which is nothing in the processes that are not mentioned.    *)
Cast(run, n, do_perfctr, do_stub, lives) ==
  [program |-> run @@ [p \in Procs |-> "none"],
   events  |-> [p \in Procs |-> n],
   do_perfctr |-> do_perfctr, do_stub |-> do_stub,
   lives |-> [p \in Procs |-> lives]]

(* Beside one simulation process only the first of the analytics is        *)
(* served; beside two also the third.                                      *)
AllCasts ==
  {Cast(p1 :> "simulation", n, do_perfctr, do_stub, 2) :
     n \in EventCounts, do_perfctr \in BOOLEAN, do_stub \in BOOLEAN}
  \cup {Cast(p1 :> a, n, TRUE, TRUE, 2) :
          a \in {"analytics"} \cup Samplers, n \in EventCounts}
  \cup {Cast((p1 :> "simulation") @@ (p :> "analytics"), 0, FALSE, TRUE, 2) :
          p \in {p2, p3}}
  \cup {Cast((p1 :> "simulation") @@ (p3 :> "simulation") @@ (p4 :> "analytics"),
             0, FALSE, TRUE, 1)}
=============================================================================
