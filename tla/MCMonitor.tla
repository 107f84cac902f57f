------------------------------ MODULE MCMonitor ------------------------------
(* Constants for checking Monitor on one simulation process and one        *)
(* analytics process.                                                      *)
EXTENDS Monitor

AllNames == {"greedy", "contention", "default", "unknown", "NULL"}
=============================================================================
