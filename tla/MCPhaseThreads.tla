--------------------------- MODULE MCPhaseThreads ---------------------------
(* The team of threads on a small instance; the workers are interchangeable. *)
EXTENDS PhaseThreads, TLC

OneRun == {[length |-> 2, events |-> 0]}
Symmetry == Permutations(Workers)
=============================================================================
