-------------------------------- MODULE Probe --------------------------------
(***************************************************************************)
(* The sampling programs gr_dummy_analytics.c and gr_perf_probe.c, which   *)
(* have one text but for a return. They count hardware events over one     *)
(* interval after another, keep the samples in perf_buffer, and write the  *)
(* buffer to a file when it is full and at the end. A sample is known by   *)
(* its number.                                                             *)
(***************************************************************************)
EXTENDS Counters, Sequences

CONSTANTS
  PERF_BUFFER_SIZE,
  MaxSamples           \* bound on the samples of a process

ASSUME ProbeAssumption ==
  /\ PERF_BUFFER_SIZE \in Nat \ {0}
  /\ MaxSamples \in Nat

Samplers == {"gr_dummy_analytics", "gr_perf_probe"}
Entries  == 0 .. PERF_BUFFER_SIZE - 1

VARIABLE probe    \* what a process that runs such a program keeps

(***************************************************************************)
(* at is the place in main. The parts of an entry of perf_buffer are       *)
(* wtime, the sample its time belongs to, and count, from its counter; log *)
(* is what has been written to the file, pairs of the two. The number of   *)
(* samples taken is auxiliary.                                             *)
(***************************************************************************)
NewProbe ==
  [at |-> "main", perf_idx |-> 0, wtime |-> [e \in Entries |-> 0],
   count |-> [e \in Entries |-> 0], log |-> <<>>, taken |-> 0]

SamplerAt(s, place) == probe[s].at = place /\ perf[s].fault = "none"

(* The file, the counters, and a line with the time, which is written even *)
(* if there is no file. gr_perf_probe returns before that.                 *)
StartSampling(s, program) ==
  /\ SamplerAt(s, "main")
  /\ \E c \in InitAndStart(perf[s]), opened \in BOOLEAN :
       perf' = [perf EXCEPT ![s] =
                  IF c.fault = "none" /\ ~opened /\ program = "gr_dummy_analytics"
                  THEN [c EXCEPT !.fault = "no_file"] ELSE c]
  /\ probe' = [probe EXCEPT ![s].at =
                 IF program = "gr_perf_probe" THEN "end" ELSE "loop"]

(* Mutation: one entry too many.                                           *)
WrittenToo(q, n) ==
  q.log \o [i \in 1 .. n + 1 |-> <<q.wtime[(i - 1) % PERF_BUFFER_SIZE],
                                   q.count[(i - 1) % PERF_BUFFER_SIZE]>>]

(* The file when the first n entries have been added to it.                *)
Written(q, n) ==
  q.log \o [i \in 1 .. n |-> <<q.wtime[i - 1], q.count[i - 1]>>]

(* Nobody sets the counters of the entries back, neither at first nor when *)
(* an entry is used again.                                                 *)
Entered(q, counted) ==
  [q EXCEPT !.taken = @ + 1, !.wtime[q.perf_idx] = q.taken + 1,
            !.count[q.perf_idx] = IF counted THEN @ + 1 ELSE @]

(* Mutation: the buffer is not begun again.                                *)
FlushedOnly(q) ==
  IF q.perf_idx + 1 < PERF_BUFFER_SIZE THEN [q EXCEPT !.perf_idx = @ + 1]
  ELSE [q EXCEPT !.log = Written(q, PERF_BUFFER_SIZE), !.perf_idx = @ + 1]

Flushed(q) ==
  IF q.perf_idx + 1 < PERF_BUFFER_SIZE THEN [q EXCEPT !.perf_idx = @ + 1]
  ELSE [q EXCEPT !.log = Written(q, PERF_BUFFER_SIZE), !.perf_idx = 0]

(* One turn of the loop. Either reading may fail; without the second one   *)
(* the sample is not counted. The time may be over afterwards.             *)
Reading(c, counted) ==
  IF counted THEN gr_perfctr_phase_end(gr_perfctr_read(c)) ELSE Refused(c)

Sample(s) ==
  /\ SamplerAt(s, "loop")
  /\ probe[s].taken < MaxSamples
  /\ \E counted \in IF perf[s].eventset = "null" THEN {FALSE} ELSE BOOLEAN,
        over \in BOOLEAN :
       /\ perf' = [perf EXCEPT ![s] =
                     IF probe[s].perf_idx + 1 < PERF_BUFFER_SIZE
                     THEN Reading(@, counted) ELSE gr_perfctr_print(Reading(@, counted))]
       /\ probe' = [probe EXCEPT ![s] =
                      [Flushed(Entered(@, counted)) EXCEPT
                         !.at = IF over THEN "dump" ELSE "loop"]]

(* What is left in the buffer is written, before the counters are stopped. *)
EndSampling(s) ==
  /\ SamplerAt(s, "dump")
  /\ \E c \in gr_perfctr_finalize(
          IF probe[s].perf_idx = 0 THEN perf[s] ELSE gr_perfctr_print(perf[s])) :
       /\ perf' = [perf EXCEPT ![s] = c]
       /\ probe' = [probe EXCEPT ![s].log = Written(probe[s], probe[s].perf_idx),
                                 ![s].at = "end"]

SamplerStep(s, program) == StartSampling(s, program) \/ Sample(s) \/ EndSampling(s)

-----------------------------------------------------------------------------
ProbeRecord ==
  [at : {"main", "loop", "dump", "end"}, perf_idx : Entries,
   wtime : [Entries -> Nat], count : [Entries -> Nat],
   log : Seq(Nat \X Nat), taken : Nat]

(***************************************************************************)
(* Every sample is written once and in its turn, though the buffer is used *)
(* again and again: nothing is lost between a flush and the end. The count *)
(* that is written with it is of all samples that its entry has held.      *)
(***************************************************************************)
SamplesAreLoggedInOrder ==
  \A s \in Procs :
    LET log == probe[s].log IN
    /\ \A i \in 1 .. Len(log) :
         /\ log[i][1] = i
         /\ log[i][2] <= (i - 1) \div PERF_BUFFER_SIZE + 1
         /\ ~perf[s].refused => log[i][2] = (i - 1) \div PERF_BUFFER_SIZE + 1
    /\ Len(log) = probe[s].taken - (IF probe[s].at = "end" THEN 0 ELSE probe[s].perf_idx)
=============================================================================
