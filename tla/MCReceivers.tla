---------------------------- MODULE MCReceivers ----------------------------
(* Constants for checking Receivers: a program with more processes than    *)
(* there are simulation processes, and one with fewer.                     *)
EXTENDS Receivers

CONSTANTS viz, stats

TwoPrograms == [a \in {viz, stats} |-> IF a = viz THEN 3 ELSE 1]
OneProgram  == [a \in {viz} |-> 2]
=============================================================================
