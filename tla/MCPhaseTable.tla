---------------------------- MODULE MCPhaseTable ----------------------------
(* The phase tracker on a small instance; call sites are interchangeable. *)
EXTENDS PhaseTable, TLC

(* A run of no length with many events, and a longer one with few.         *)
TwoRuns == {[length |-> 0, events |-> 2], [length |-> 2, events |-> 0]}
OneRun  == {[length |-> 2, events |-> 0]}
Symmetry == Permutations(StartSites) \cup Permutations(EndSites)
=============================================================================
