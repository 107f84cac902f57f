---------------------------- MODULE PhaseRecords ----------------------------
(***************************************************************************)
(* The records of gr_phase.h and the pure functions of gr_phase.c that the *)
(* phase tracker is built from.                                            *)
(*                                                                         *)
(* A call site, the pair (file, line) that the code only ever compares for *)
(* equality, is one element of StartSites (arguments of gr_phase_start) or *)
(* of EndSites (arguments of gr_phase_end).                                *)
(***************************************************************************)
EXTENDS Integers

CONSTANTS
  StartSites,      \* call sites of gr_phase_start
  EndSites,        \* call sites of gr_phase_end
  NoSite,          \* what a slot holds before a site is stored in it
  Measurements,    \* what may be measured of a run, see below
  CountMod         \* count is a uint32_t: 2^32 in the code

ASSUME SitesAssumption ==
  NoSite \notin StartSites \cup EndSites

(* Of a run of a phase: its length in clock() ticks, which rdtsc() tells,  *)
(* and by how much the hardware counters moved in it, their events being   *)
(* one number here. Both only grow, and reading them succeeds.             *)
ASSUME MeasurementsAssumption ==
  Measurements \subseteq [length : Nat, events : Nat]

ASSUME CountModAssumption ==
  CountMod \in Nat /\ CountMod > 1

(* gr_phase: the two call sites that delimit a phase and how often it ran. *)
PhaseRecord ==
  [start : StartSites \cup {NoSite},
   end   : EndSites \cup {NoSite},
   count : 0 .. CountMod - 1]

(* gr_perfctr: how often the counter was read, the sum of what it moved by *)
(* and the extremes, where -1 stands for "none yet".                       *)
CounterRecord == [count : Nat, avg : Int, min : Int, max : Int]

(* gr_phase_perf: the length statistics kept for a phase.                  *)
PerfRecord == [avg : Nat, max : Nat, min : Nat, perf_counter : CounterRecord]

(* A slot as calloc (or realloc) leaves it; nothing reads it before it is  *)
(* written, except avg in gr_phase_start, which finds 0 in calloc memory.  *)
FreshPhase(start, end) == [start |-> start, end |-> end, count |-> 0]
BlankPhase == FreshPhase(NoSite, NoSite)
gr_perfctr_init_counter == [count |-> 0, avg |-> 0, min |-> -1, max |-> -1]
BlankPerf ==
  [avg |-> 0, max |-> 0, min |-> 0, perf_counter |-> gr_perfctr_init_counter]

compare_phase(p, start, end) == p.start = start /\ p.end = end

(* Mutation: -1 is a minimum like any other.                               *)
UpdatedCounterFromInit(c, value) ==
  [count |-> c.count + 1,
   avg |-> c.avg + value,
   min |-> IF value < c.min THEN value ELSE c.min,
   max |-> IF value > c.max THEN value ELSE c.max]

gr_perfctr_update(c, value) ==
  [count |-> c.count + 1,
   avg |-> c.avg + value,
   min |-> IF value < c.min \/ c.min = -1 THEN value ELSE c.min,
   max |-> IF value > c.max THEN value ELSE c.max]

(* The statistics after one more run, where count already includes it. The *)
(* code adds length/count to the old mean. The events of the run count if  *)
(* it ends in the main loop.                                               *)
UpdatedPerf(pp, count, run, in_mainloop) ==
  [avg |-> (pp.avg * count + run.length) \div count,
   max |-> IF run.length > pp.max THEN run.length ELSE pp.max,
   min |-> IF pp.min = 0 \/ run.length < pp.min THEN run.length ELSE pp.min,
   perf_counter |-> IF in_mainloop
                    THEN gr_perfctr_update(pp.perf_counter, run.events)
                    ELSE pp.perf_counter]

(* The result of realloc(array, (n + 1) elements) for an array of n.       *)
Grown(array, n, blank) ==
  [i \in 0 .. n |-> IF i < n THEN array[i] ELSE blank]
=============================================================================
