----------------------------- MODULE MCFileTable -----------------------------
(* Constants for checking FileTable. The threads are interchangeable.      *)
EXTENDS FileTable, TLC

Symmetry == Permutations(Threads)
=============================================================================
