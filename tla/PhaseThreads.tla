---------------------------- MODULE PhaseThreads ----------------------------
(***************************************************************************)
(* gr_phase_start as the threads of an OpenMP team call it. Every thread   *)
(* runs gr_find_phase, on the same static variables and without a lock;    *)
(* the workers do so to learn whether the coming phase is worth handing    *)
(* their cores to the analytics. Only the main thread ends a phase.        *)
(*                                                                         *)
(* One action is one access to shared memory that another thread can tell  *)
(* apart; accesses take effect in program order. The threads run through   *)
(* the same sequence of phases, the plan, in one of two ways:              *)
(*                                                                         *)
(*   ForkJoin = TRUE   every thread has returned from gr_phase_start when  *)
(*                     the main thread calls gr_phase_end, and no thread   *)
(*                     calls gr_phase_start again before it has returned   *)
(*                     (a parallel region per phase);                      *)
(*   ForkJoin = FALSE  nobody waits (one region for all phases, nowait).   *)
(***************************************************************************)
EXTENDS PhaseRecords, FiniteSets

CONSTANTS
  DefaultNumPhases,  \* GR_DEFAULT_NUM_PHASES
  Main, Workers,     \* thread 0 of the team, and the others
  Rounds,            \* how many phases the program runs: a bound
  MinPhaseLength,    \* min_phase_length
  ForkJoin

ASSUME TeamAssumption ==
  Main \notin Workers

(* A count of runs never wraps: it has 32 bits.                            *)
ASSUME RoundsAssumption ==
  /\ Rounds \in Nat /\ Rounds < CountMod
  /\ DefaultNumPhases \in Nat \ {0}

ASSUME LengthAssumption ==   \* a setting of 0 or more ticks
  MinPhaseLength \in Nat

VARIABLES
  gr_phases, gr_phases_perf, gr_num_phases, gr_max_num_phases,
  previous_phase, current_phase, new_phase, current_site,
  has_start_phase, is_in_mainloop, status,     \* as in PhaseTable, shared by the team
  current_phase_id,  \* the guess that is published for the monitor
  is_resumed,        \* a worker handed its core to the analytics
  plan,              \* the call sites of phases 1 .. Rounds
  round,             \* round[t]: the phase that thread t is in
  pc,                \* pc[t]: where in that phase it is
  idx,               \* idx[t]: the loop index i of gr_find_phase
  should_run         \* should_run[t] of gr_phase_start

(* The program marks no main loop: is_in_mainloop stays FALSE.             *)
Table == INSTANCE PhaseTable

tracker == <<gr_phases, gr_phases_perf, gr_num_phases, gr_max_num_phases,
             previous_phase, current_phase, new_phase, current_site,
             has_start_phase, is_in_mainloop, status>>
vars == <<tracker, current_phase_id, is_resumed, plan, round, pc, idx, should_run>>

(* What no step of gr_phase_start writes. *)
readonly == <<gr_phases_perf, gr_num_phases, gr_max_num_phases, previous_phase,
              is_in_mainloop, status, plan, round>>

Team == {Main} \cup Workers
Site(t) == plan[round[t]].start

(* A program with fewer phases, pairs of call sites that it runs, than the *)
(* 256 slots there are at first: the table never has to grow.              *)
FitsTable(p) ==
  Cardinality({p[r] : r \in 1 .. Rounds}) < DefaultNumPhases

Init ==
  /\ Table!Init
  /\ current_phase_id = 0
  /\ is_resumed = FALSE
  /\ plan \in [1 .. Rounds -> [start : StartSites, end : EndSites]] /\ FitsTable(plan)
  /\ round = [t \in Team |-> 1]
  /\ pc = [t \in Team |-> "out"]
  /\ idx = [t \in Team |-> 0]
  /\ should_run = [t \in Team |-> FALSE]

Goto(t, from, to) == pc[t] = from /\ pc' = [pc EXCEPT ![t] = to]

-----------------------------------------------------------------------------
(* gr_find_phase: new_phase = 1, then the loop over the table.             *)
Enter(t) ==
  /\ round[t] <= Rounds
  /\ Goto(t, "out", "scan")
  /\ new_phase' = TRUE
  /\ idx' = [idx EXCEPT ![t] = 0]
  /\ UNCHANGED <<readonly, gr_phases, current_phase, current_site,
                 has_start_phase, current_phase_id, is_resumed, should_run>>

Skip(t) ==
  /\ pc[t] = "scan"
  /\ idx[t] < gr_num_phases
  /\ gr_phases[idx[t]].start # Site(t)
  /\ idx' = [idx EXCEPT ![t] = @ + 1]
  /\ UNCHANGED <<readonly, pc, gr_phases, current_phase, new_phase, current_site,
                 has_start_phase, current_phase_id, is_resumed, should_run>>

(* A candidate: its index is stored first, the flag is cleared after that. *)
Candidate(t) ==
  /\ Goto(t, "scan", "clear")
  /\ idx[t] < gr_num_phases
  /\ gr_phases[idx[t]].start = Site(t)
  /\ current_phase' = IF gr_phases[idx[t]].count > 0 THEN idx[t] ELSE current_phase
  /\ UNCHANGED <<readonly, gr_phases, new_phase, current_site,
                 has_start_phase, current_phase_id, is_resumed, idx, should_run>>

(* Mutation: a thread that finds a candidate leaves the loop with it, and  *)
(* the flag as it is.                                                      *)
ClearNothing(t) ==
  /\ Goto(t, "clear", "scan")
  /\ idx' = [idx EXCEPT ![t] = @ + 1]
  /\ UNCHANGED <<readonly, gr_phases, current_phase, new_phase, current_site,
                 has_start_phase, current_phase_id, is_resumed, should_run>>

Clear(t) ==
  /\ Goto(t, "clear", "scan")
  /\ new_phase' = FALSE
  /\ idx' = [idx EXCEPT ![t] = @ + 1]
  /\ UNCHANGED <<readonly, gr_phases, current_phase, current_site,
                 has_start_phase, current_phase_id, is_resumed, should_run>>

(* "first time we see this phase": the flag is read again after the loop.  *)
ScanDone(t) ==
  /\ idx[t] >= gr_num_phases
  /\ Goto(t, "scan", IF new_phase THEN "claim" ELSE "predict")
  /\ UNCHANGED <<readonly, gr_phases, current_phase, new_phase, current_site,
                 has_start_phase, current_phase_id, is_resumed, idx, should_run>>

Claim(t) ==
  /\ Goto(t, "claim", "guess")
  /\ gr_phases' = [gr_phases EXCEPT ![gr_num_phases].start = Site(t)]
  /\ UNCHANGED <<readonly, current_phase, new_phase, current_site,
                 has_start_phase, current_phase_id, is_resumed, idx, should_run>>

(* Mutation: a new phase keeps the guess of the phase before.              *)
GuessNothing(t) ==
  /\ Goto(t, "guess", "predict")
  /\ current_phase' = IF current_phase = -1 THEN 0 ELSE current_phase
  /\ UNCHANGED <<readonly, gr_phases, new_phase, current_site,
                 has_start_phase, current_phase_id, is_resumed, idx, should_run>>

Guess(t) ==
  /\ Goto(t, "guess", "predict")
  /\ current_phase' = gr_num_phases
  /\ UNCHANGED <<readonly, gr_phases, new_phase, current_site,
                 has_start_phase, current_phase_id, is_resumed, idx, should_run>>

(* Mutation: the null test and the threshold without the test for history. *)
LongEnoughOrNew(i) ==
  gr_phases_perf[i].avg = 0 \/ gr_phases_perf[i].avg >= MinPhaseLength

LongEnough(i) ==
  gr_phases_perf[i].avg # 0 /\ gr_phases_perf[i].avg >= MinPhaseLength

(* Mutation: the phase that ended last is published.                       *)
PredictPrevious(t) ==
  /\ Goto(t, "predict", "record")
  /\ current_phase_id' = previous_phase
  /\ should_run' = [should_run EXCEPT ![t] = LongEnough(current_phase)]
  /\ UNCHANGED <<tracker, is_resumed, plan, round, idx>>

(* The guess is published and its average length is looked up.             *)
Predict(t) ==
  /\ Goto(t, "predict", "record")
  /\ current_phase_id' = current_phase
  /\ should_run' = [should_run EXCEPT ![t] = LongEnough(current_phase)]
  /\ UNCHANGED <<readonly, gr_phases, current_phase, new_phase, current_site,
                 has_start_phase, is_resumed, idx>>

-----------------------------------------------------------------------------
(* The rest of gr_phase_start. A worker with a phase that is long enough   *)
(* yields its core to the analytics; the main thread opens the phase.      *)
AfterRecord(t) ==
  CASE t = Main      -> "mark"
    [] should_run[t] -> "resume"
    [] OTHER         -> "opened"

Record(t) ==
  /\ Goto(t, "record", AfterRecord(t))
  /\ current_site' = Site(t)
  /\ UNCHANGED <<readonly, gr_phases, current_phase, new_phase,
                 has_start_phase, current_phase_id, is_resumed, idx, should_run>>

Resume(t) ==
  /\ Goto(t, "resume", "opened")
  /\ is_resumed' = TRUE
  /\ UNCHANGED <<readonly, gr_phases, current_phase, new_phase, current_site,
                 has_start_phase, current_phase_id, idx, should_run>>

Mark ==
  /\ Goto(Main, "mark", "opened")
  /\ has_start_phase' = TRUE
  /\ UNCHANGED <<readonly, gr_phases, current_phase, new_phase, current_site,
                 current_phase_id, is_resumed, idx, should_run>>

-----------------------------------------------------------------------------
(* gr_phase_end. A worker's call returns at once; in a fork-join program   *)
(* it is the main thread that lets the workers go on.                      *)
EveryoneOpened == \A t \in Team : pc[t] = "opened" /\ round[t] = round[Main]

NextRound(t) ==
  /\ Goto(t, "opened", "out")
  /\ round' = [round EXCEPT ![t] = @ + 1]
  /\ should_run' = [should_run EXCEPT ![t] = FALSE]
  /\ UNCHANGED <<idx, plan, current_phase_id>>

End ==
  /\ ForkJoin => EveryoneOpened
  /\ NextRound(Main)
  /\ \E run \in Measurements : Table!gr_phase_end(plan[round[Main]].end, run)
  /\ is_resumed' = FALSE

WorkerEnd(t) ==
  /\ ForkJoin => round[Main] > round[t]
  /\ NextRound(t)
  /\ UNCHANGED <<tracker, is_resumed>>

Done ==
  /\ \A t \in Team : round[t] > Rounds
  /\ UNCHANGED vars

Find(t) ==
  Enter(t) \/ Skip(t) \/ Candidate(t) \/ Clear(t) \/ ScanDone(t)
    \/ Claim(t) \/ Guess(t) \/ Predict(t)

Next ==
  \/ \E t \in Team : Find(t) \/ Record(t)
  \/ \E t \in Workers : Resume(t) \/ WorkerEnd(t)
  \/ Mark
  \/ End
  \/ Done

Spec == Init /\ [][Next]_vars

-----------------------------------------------------------------------------
(* Types.                                                                  *)
Labels ==
  {"out", "scan", "clear", "claim", "guess", "predict", "record", "mark",
   "resume", "opened"}

TypeOK ==
  /\ Table!TypeOK
  /\ current_phase_id \in 0 .. gr_max_num_phases - 1
  /\ is_resumed \in BOOLEAN
  /\ plan \in [1 .. Rounds -> [start : StartSites, end : EndSites]]
  /\ round \in [Team -> 1 .. Rounds + 1]
  /\ pc \in [Team -> Labels]
  /\ idx \in [Team -> 0 .. DefaultNumPhases]
  /\ should_run \in [Team -> BOOLEAN]

(***************************************************************************)
(* "Precisely find a phase or allocate one if not found" (gr_get_phase):   *)
(* the table is the history of the plan. Each pair of call sites that the  *)
(* main thread has completed has one entry, which counts its runs, however *)
(* the other threads interfered with the search.                           *)
(***************************************************************************)
Completed == 1 .. round[Main] - 1

Runs(pair) == Cardinality({r \in Completed : plan[r] = pair})

TableIsHistoryOfPlan ==
  LET rows == {gr_phases[i] : i \in Table!Registered}
  IN  /\ rows = {[start |-> plan[r].start, end |-> plan[r].end,
                  count |-> Runs(plan[r])] : r \in Completed}
      /\ Cardinality(rows) = gr_num_phases

(***************************************************************************)
(* When the main thread calls gr_phase_end, the start site and the         *)
(* new_phase flag are those of its own phase. As long as the phase is      *)
(* open, the guess that is published for the monitor, which late workers   *)
(* go on changing, is a phase that starts where this one does.             *)
(***************************************************************************)
ReadyToEnd == pc[Main] = "opened" /\ (ForkJoin => EveryoneOpened)

EndSeesItsOwnStart ==
  /\ ReadyToEnd =>
       /\ current_site = Site(Main)
       /\ new_phase <=> Table!Candidates(current_site) = {}
       /\ new_phase => gr_phases[gr_num_phases].start = current_site
  /\ pc[Main] \in {"mark", "opened"} =>
       gr_phases[current_phase_id].start = Site(Main)

(***************************************************************************)
(* "find a phase with average length larger than minimal requirement"      *)
(* (gr_phase_start): a worker only gives up its core in a phase whose      *)
(* start site has a phase in the table with such an average.               *)
(***************************************************************************)
ResumedInLongPhase ==
  \A t \in Workers :
    pc[t] \in {"resume", "opened"} /\ should_run[t] =>
      \E i \in Table!Candidates(Site(t)) : gr_phases_perf[i].avg >= MinPhaseLength

-----------------------------------------------------------------------------
(***************************************************************************)
(* A fork-join team of threads implements the map from pairs of call sites *)
(* to summaries of PhaseHistory, as the single thread of PhaseTable does,  *)
(* statistics included: a phase opens when the main thread marks it, with  *)
(* the main thread's start site, and all that the threads read and write   *)
(* in gr_find_phase before, between and after is invisible in the history. *)
(***************************************************************************)
History == INSTANCE PhaseHistory
             WITH history <- Table!Rows, open <- Table!OpenSite, alive <- status = "ok",
                  counting <- is_in_mainloop,
                  MaxCount <- CountMod - 1, Room <- DefaultNumPhases

ImplementsHistory == History!Spec
=============================================================================
