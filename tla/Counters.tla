------------------------------ MODULE Counters ------------------------------
(***************************************************************************)
(* gr_perfctr.c: starting, reading and stopping the hardware counters of a *)
(* process through PAPI, which may refuse any call. A call is an operator  *)
(* from what the file keeps to the set of what it may keep afterwards;     *)
(* none of the callers looks at the result.                                *)
(***************************************************************************)
EXTENDS Integers

CONSTANTS
  Procs,         \* the processes of a node that use the runtime
  NUM_EVENTS,    \* elements in the arrays for the values of the events
  EventCounts    \* how many events GR_PERFCTR_EVENTS may name

ASSUME CountersAssumption ==
  /\ NUM_EVENTS \in Nat
  /\ EventCounts \subseteq Nat

VARIABLE perf    \* perf[p]: the counters of process p

(***************************************************************************)
(* eventset, in_set and running are gr_PAPI_eventset, and how many events  *)
(* are in it and whether it counts; arrays is gr_PAPI_events together with *)
(* gr_PAPI_enames, "lost" when there are events and gr_PAPI_enames is      *)
(* NULL; env is how many events the variable names. fault is the first     *)
(* undefined access. The rest is auxiliary: how many events the user       *)
(* named, whether memory was refused, and whether PAPI refused a call.     *)
(***************************************************************************)
CountersRecord ==
  [eventset : {"null", "made"}, in_set : Nat, running : BOOLEAN,
   gr_num_events : Nat, arrays : {"null", "live", "lost", "freed"},
   is_counting : BOOLEAN, env : Nat,
   fault : {"none", "null", "dangling", "overrun", "no_file"},
   named : EventCounts, no_memory : BOOLEAN, refused : BOOLEAN]

NewCounters(n) ==
  [eventset |-> "null", in_set |-> 0, running |-> FALSE,
   gr_num_events |-> 0, arrays |-> "null", is_counting |-> FALSE,
   env |-> n, fault |-> "none", named |-> n, no_memory |-> FALSE, refused |-> FALSE]

Refused(c) == [c EXCEPT !.refused = TRUE]

-----------------------------------------------------------------------------
(* gr_perfctr_init. The new event set is empty; cutting the first name off *)
(* the list writes into the environment itself, where one name is left.    *)
MadeSet(c) == [c EXCEPT !.eventset = "made", !.env = IF @ > 1 THEN 1 ELSE @]

(* Mutation: the last event is not counted.                                *)
AddedUncounted(c, k) ==
  IF k = 0 THEN c
  ELSE [c EXCEPT !.in_set = k, !.gr_num_events = @ + k - 1, !.arrays = "live"]

Added(c, k) ==
  IF k = 0 THEN c
  ELSE [c EXCEPT !.in_set = k, !.gr_num_events = @ + k, !.arrays = "live"]

(* The event is in the set already when there is no memory to record it.   *)
NoMemory(c, array) ==
  [c EXCEPT !.in_set = @ + 1, !.no_memory = TRUE,
            !.arrays = CASE array = "names" /\ c.gr_num_events > 0 -> "lost"
                         [] array = "events" /\ c.gr_num_events = 0 -> "null"
                         [] OTHER -> "live"]

AddEvents(c) ==
  IF c.arrays = "freed" /\ c.env > 0
  THEN {Refused(MadeSet(c)), [MadeSet(c) EXCEPT !.fault = "dangling"]}
  ELSE {Added(MadeSet(c), c.env)}
       \cup {Refused(Added(MadeSet(c), k)) : k \in 0 .. c.env - 1}
       \cup {NoMemory(Added(MadeSet(c), k), array) :
               k \in 0 .. c.env - 1, array \in {"events", "names"}}

(* PAPI_create_eventset refuses a variable that holds a set.               *)
gr_perfctr_init(c) ==
  {Refused(c)} \cup (IF c.eventset = "made" THEN {} ELSE AddEvents(c))

(* PAPI_start refuses a set without events.                                *)
gr_perfctr_start(c) ==
  IF c.is_counting THEN {c}
  ELSE {Refused(c)} \cup
       (IF c.in_set = 0 THEN {}
        ELSE {[c EXCEPT !.running = TRUE, !.is_counting = TRUE]})

(* What init and start do together; the result of init is not looked at.   *)
InitAndStart(c) ==
  UNION {IF d.fault = "none" THEN gr_perfctr_start(d) ELSE {d} : d \in gr_perfctr_init(c)}

(* Mutation: the flag goes down before PAPI agrees.                        *)
StopUnchecked(c) ==
  IF ~c.is_counting THEN {c}
  ELSE {[Refused(c) EXCEPT !.is_counting = FALSE],
        [c EXCEPT !.running = FALSE, !.is_counting = FALSE]}

(* PAPI_stop stores the value of every event in an array for those that    *)
(* were recorded.                                                          *)
gr_perfctr_stop(c) ==
  IF ~c.is_counting THEN {c}
  ELSE {Refused(c),
        [c EXCEPT !.running = FALSE, !.is_counting = FALSE,
                  !.fault = IF c.in_set > c.gr_num_events THEN "overrun" ELSE @]}

(* PAPI does not clean up a set that counts. The freed arrays keep their   *)
(* addresses and gr_num_events its value.                                  *)
Freed(c) ==
  [c EXCEPT !.eventset = "null", !.in_set = 0,
            !.arrays = IF @ = "live" THEN "freed" ELSE @,
            !.fault = CASE c.arrays = "freed" -> "dangling"
                        [] c.arrays = "lost"  -> "null"
                        [] OTHER -> @]

gr_perfctr_finalize(c) ==
  IF c.fault # "none" THEN {c} ELSE
  UNION {IF d.fault # "none" THEN {d}
         ELSE {Refused(d)} \cup
              (IF d.eventset = "null" \/ d.running THEN {}
               ELSE {Refused([d EXCEPT !.in_set = 0]), Freed(d)})
           : d \in gr_perfctr_stop(c)}

(* Reading into an array of NUM_EVENTS, and going through such arrays for  *)
(* every recorded event. (gr_perfctr_read, gr_perfctr_phase_start.)        *)
gr_perfctr_read(c) ==
  [c EXCEPT !.fault = IF c.in_set > NUM_EVENTS \/ c.gr_num_events > NUM_EVENTS
                      THEN "overrun" ELSE @]

(* gr_perfctr_phase_end reads into an array for the recorded events.       *)
gr_perfctr_phase_end(c) ==
  [c EXCEPT !.fault = IF c.in_set > c.gr_num_events \/ c.gr_num_events > NUM_EVENTS
                      THEN "overrun" ELSE @]

(* Printing goes through the names of the events.                          *)
gr_perfctr_print(c) ==
  [c EXCEPT !.fault = IF @ = "none" /\ c.arrays = "lost" THEN "null" ELSE @]

(***************************************************************************)
(* The flag and PAPI agree, whichever calls PAPI has refused in between:   *)
(* a set that still counts could never be cleaned up, a start that is      *)
(* skipped would leave readings that stand still.                          *)
(***************************************************************************)
CountingMeansRunning ==
  \A p \in Procs :
    perf[p].is_counting <=> perf[p].running /\ perf[p].eventset = "made"
=============================================================================
