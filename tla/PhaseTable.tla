----------------------------- MODULE PhaseTable -----------------------------
(***************************************************************************)
(* The phase tracker of gr_phase.c as one thread drives it through         *)
(* gr_phase_start and gr_phase_end of goldrush.c: each call is one atomic  *)
(* action. PhaseThreads takes the calls apart for several threads.         *)
(*                                                                         *)
(* gr_phase_end only learns at the end of a phase which phase it was. In   *)
(* between, gr_find_phase guesses one from the start site alone, and       *)
(* leaves its guess and the fact "this start site is new" in two static    *)
(* variables that gr_get_phase trusts.                                     *)
(***************************************************************************)
EXTENDS PhaseRecords

CONSTANT
  DefaultNumPhases  \* GR_DEFAULT_NUM_PHASES: 256 in the code

ASSUME DefaultNumPhasesAssumption ==
  DefaultNumPhases \in Nat /\ DefaultNumPhases > 0

VARIABLES
  gr_phases,         \* the table: a function on 0 .. (slots - 1)
  gr_phases_perf,    \* the statistics, a second array with the same indices
  gr_num_phases,     \* number of registered phases
  gr_max_num_phases, \* number of slots the code believes both arrays have
  previous_phase,    \* index that gr_get_phase returned last, or -1
  current_phase,     \* index that gr_find_phase guessed last, or -1
  new_phase,         \* no registered phase starts at the last start site
  current_site,      \* current_phase_file and current_phase_line
  has_start_phase,   \* a phase is open
  is_in_mainloop,    \* between gr_mainloop_start and gr_mainloop_end
  status             \* what became of the two arrays, see Status

table == <<gr_phases, gr_phases_perf, gr_num_phases, gr_max_num_phases>>
vars  == <<table, previous_phase, current_phase, new_phase,
           current_site, has_start_phase, is_in_mainloop, status>>

(***************************************************************************)
(* A failed realloc leaves gr_phases ("no_phases") or gr_phases_perf       *)
(* ("no_perf") NULL. "fault" is the end of the defined behaviour: NULL was *)
(* dereferenced, an array was written out of bounds, or an integer was     *)
(* divided by zero. Nothing happens after it.                              *)
(***************************************************************************)
Status == {"ok", "no_phases", "no_perf", "fault"}

Registered == 0 .. gr_num_phases - 1

Init ==
  /\ gr_phases = [i \in 0 .. DefaultNumPhases - 1 |-> BlankPhase]
  /\ gr_phases_perf = [i \in 0 .. DefaultNumPhases - 1 |-> BlankPerf]
  /\ gr_num_phases = 0
  /\ gr_max_num_phases = DefaultNumPhases
  /\ previous_phase = -1
  /\ current_phase = -1
  /\ new_phase = TRUE
  /\ current_site = NoSite
  /\ has_start_phase = FALSE
  /\ is_in_mainloop = FALSE
  /\ status = "ok"

-----------------------------------------------------------------------------
(* gr_find_phase: guess the phase that starts at site s.                   *)

Candidates(s) == {i \in Registered : gr_phases[i].start = s}

(* Every candidate with a positive count beats current_score, which the    *)
(* loop never raises: the last such candidate stays.                       *)
(* Mutation: a candidate needs more than one run to be guessed.            *)
ScoredTwice(s) == {i \in Candidates(s) : gr_phases[i].count > 1}

Scored(s) == {i \in Candidates(s) : gr_phases[i].count > 0}

FindKnown(s) ==
  /\ Candidates(s) # {}
  /\ new_phase' = FALSE
  /\ IF Scored(s) = {}
     THEN UNCHANGED current_phase
     ELSE \E i \in Scored(s) : /\ \A j \in Scored(s) : j <= i
                               /\ current_phase' = i
  /\ UNCHANGED table

(* The first time this start site is seen: its slot is the next free one,  *)
(* which gr_get_phase will fill in.                                        *)
FindNew(s) ==
  /\ Candidates(s) = {}
  /\ gr_num_phases < gr_max_num_phases
  /\ new_phase' = TRUE
  /\ gr_phases' = [gr_phases EXCEPT ![gr_num_phases].start = s]
  /\ current_phase' = gr_num_phases
  /\ UNCHANGED <<gr_phases_perf, gr_num_phases, gr_max_num_phases>>

(* Mutation: grow one of the two arrays only, as gr_get_phase does.        *)
FindNewGrownPhasesOnly(s) ==
  /\ Candidates(s) = {}
  /\ gr_num_phases = gr_max_num_phases
  /\ new_phase' = TRUE
  /\ gr_max_num_phases' = gr_max_num_phases + 1
  /\ gr_phases' = Grown(gr_phases, gr_num_phases, FreshPhase(s, NoSite))
  /\ current_phase' = gr_num_phases
  /\ UNCHANGED <<gr_phases_perf, gr_num_phases>>

FindNewGrown(s) ==
  /\ Candidates(s) = {}
  /\ gr_num_phases = gr_max_num_phases
  /\ new_phase' = TRUE
  /\ gr_max_num_phases' = gr_max_num_phases + 1
  /\ gr_phases' = Grown(gr_phases, gr_num_phases, FreshPhase(s, NoSite))
  /\ gr_phases_perf' = Grown(gr_phases_perf, gr_num_phases, BlankPerf)
  /\ current_phase' = gr_num_phases
  /\ UNCHANGED gr_num_phases

(* The same when one of the two realloc calls fails and NULL is returned.  *)
FindNewNoMemory(s) ==
  /\ Candidates(s) = {}
  /\ gr_num_phases = gr_max_num_phases
  /\ new_phase' = TRUE
  /\ gr_max_num_phases' = gr_max_num_phases + 1
  /\ \/ status' = "no_phases" /\ UNCHANGED gr_phases
     \/ status' = "no_perf" /\ gr_phases' = Grown(gr_phases, gr_num_phases, BlankPhase)
  /\ UNCHANGED <<gr_phases_perf, gr_num_phases, current_phase>>

(* gr_phase_start reads avg_length through the guess, which only index 0   *)
(* survives when gr_phases_perf is NULL: &NULL[0] fails the null test.     *)
gr_phase_start(s) ==
  /\ status \in {"ok", "no_perf"}
  /\ \/ /\ FindKnown(s) \/ FindNew(s) \/ FindNewGrown(s)
        /\ status' = IF status = "no_perf" /\ current_phase' # 0
                     THEN "fault" ELSE status
     \/ FindNewNoMemory(s)
  /\ current_site' = s
  /\ has_start_phase' = TRUE
  /\ UNCHANGED <<previous_phase, is_in_mainloop>>

-----------------------------------------------------------------------------
(* gr_get_phase and gr_update_phase, called by gr_phase_end(e).            *)

(* Mutation: scan from previous_phase on, and forget the wrap-around.      *)
MatchesAhead(e) ==
  {i \in Registered : i >= previous_phase
                      /\ compare_phase(gr_phases[i], current_site, e)}

Matches(e) ==
  {i \in Registered : compare_phase(gr_phases[i], current_site, e)}

(* gr_get_phase scans from previous_phase to the end, then from 0.         *)
ScanRank(i) == IF i >= previous_phase THEN i ELSE i + gr_num_phases

(* Mutation: trust the cached guess without comparing the end site.        *)
LocatedByGuess(i, e) ==
  IF current_phase # -1
  THEN i = current_phase
  ELSE i \in Matches(e) /\ \A j \in Matches(e) : ScanRank(i) <= ScanRank(j)

(* The cached guess if it matches, else the first match of the scan.       *)
Located(i, e) ==
  IF current_phase # -1 /\ compare_phase(gr_phases[current_phase], current_site, e)
  THEN i = current_phase
  ELSE i \in Matches(e) /\ \A j \in Matches(e) : ScanRank(i) <= ScanRank(j)

(* gr_update_phase on entry i of the given arrays, then the tail of        *)
(* gr_phase_end. A count that wraps to 0 is the divisor of the new mean.   *)
Update(i, phases, perf, run) ==
  LET count == (phases[i].count + 1) % CountMod
  IN  /\ gr_phases' = [phases EXCEPT ![i].count = count]
      /\ previous_phase' = i
      /\ IF count = 0
         THEN /\ status' = "fault"
              /\ gr_phases_perf' = perf
              /\ UNCHANGED has_start_phase
         ELSE /\ gr_phases_perf' =
                   [perf EXCEPT ![i] = UpdatedPerf(@, count, run, is_in_mainloop)]
              /\ has_start_phase' = FALSE
              /\ UNCHANGED status

(* new_phase: register the slot that gr_find_phase prepared.               *)
EndFirst(e, run) ==
  /\ new_phase
  /\ Update(gr_num_phases,
            [gr_phases EXCEPT ![gr_num_phases] = FreshPhase(@.start, e)],
            [gr_phases_perf EXCEPT ![gr_num_phases] = BlankPerf],
            run)
  /\ gr_num_phases' = gr_num_phases + 1
  /\ UNCHANGED gr_max_num_phases

EndKnown(e, run) ==
  /\ ~new_phase
  /\ Matches(e) # {}
  /\ \E i \in Registered :
       Located(i, e) /\ Update(i, gr_phases, gr_phases_perf, run)
  /\ UNCHANGED <<gr_num_phases, gr_max_num_phases>>

(* A known start site with an end site it never had: a slot of its own.    *)
(* Mutation: give the guessed phase the new end site.                      *)
EndSplitInPlace(e, run) ==
  /\ ~new_phase
  /\ Matches(e) = {}
  /\ gr_num_phases < gr_max_num_phases
  /\ Update(current_phase,
            [gr_phases EXCEPT ![current_phase] = FreshPhase(current_site, e)],
            gr_phases_perf,
            run)
  /\ UNCHANGED <<gr_num_phases, gr_max_num_phases>>

EndSplit(e, run) ==
  /\ ~new_phase
  /\ Matches(e) = {}
  /\ gr_num_phases < gr_max_num_phases
  /\ Update(gr_num_phases,
            [gr_phases EXCEPT ![gr_num_phases] = FreshPhase(current_site, e)],
            [gr_phases_perf EXCEPT ![gr_num_phases] = BlankPerf],
            run)
  /\ gr_num_phases' = gr_num_phases + 1
  /\ UNCHANGED gr_max_num_phases

(* The same in a full table. Only gr_phases is reallocated here, so that   *)
(* the statistics are written one slot behind the end of gr_phases_perf.   *)
EndSplitGrown(e) ==
  /\ ~new_phase
  /\ Matches(e) = {}
  /\ gr_num_phases = gr_max_num_phases
  /\ gr_max_num_phases' = gr_max_num_phases + 1
  /\ gr_phases' = Grown(gr_phases, gr_num_phases, FreshPhase(current_site, e))
  /\ gr_num_phases' = gr_num_phases + 1
  /\ previous_phase' = gr_num_phases
  /\ status' = "fault"
  /\ UNCHANGED <<gr_phases_perf, has_start_phase>>

(* ... and when that realloc fails: gr_phase_end returns -1 and leaves     *)
(* has_start_phase set.                                                    *)
EndSplitNoMemory(e) ==
  /\ ~new_phase
  /\ Matches(e) = {}
  /\ gr_num_phases = gr_max_num_phases
  /\ gr_max_num_phases' = gr_max_num_phases + 1
  /\ status' = "no_phases"
  /\ UNCHANGED <<gr_phases, gr_phases_perf, gr_num_phases, previous_phase,
                 has_start_phase>>

(* Without an open phase gr_phase_end returns -1 and changes nothing.      *)
gr_phase_end(e, run) ==
  /\ status = "ok"
  /\ has_start_phase
  /\ \/ EndFirst(e, run)
     \/ EndKnown(e, run)
     \/ EndSplit(e, run)
     \/ EndSplitGrown(e)
     \/ EndSplitNoMemory(e)
  /\ UNCHANGED <<current_phase, new_phase, current_site, is_in_mainloop>>

-----------------------------------------------------------------------------
(* Calls after a failed realloc that dereference NULL: gr_phase_start once *)
(* gr_phases is gone, gr_phase_end once either array is.                   *)
NullDereference ==
  /\ \/ status = "no_phases"
     \/ status = "no_perf" /\ has_start_phase
  /\ status' = "fault"
  /\ UNCHANGED <<table, previous_phase, current_phase, new_phase,
                 current_site, has_start_phase, is_in_mainloop>>

(* gr_mainloop_start and gr_mainloop_end, at any time, even in a phase.    *)
Mainloop(in) ==
  /\ status # "fault"
  /\ is_in_mainloop' = in
  /\ UNCHANGED <<table, previous_phase, current_phase, new_phase,
                 current_site, has_start_phase, status>>

gr_mainloop_start == Mainloop(TRUE)
gr_mainloop_end   == Mainloop(FALSE)

(* The process is gone.                                                    *)
Halted == status = "fault" /\ UNCHANGED vars

Next ==
  \/ \E s \in StartSites : gr_phase_start(s)
  \/ \E e \in EndSites, run \in Measurements : gr_phase_end(e, run)
  \/ gr_mainloop_start \/ gr_mainloop_end
  \/ NullDereference
  \/ Halted

Spec == Init /\ [][Next]_vars

-----------------------------------------------------------------------------
(***************************************************************************)
(* Types: as long as both arrays are there, they have the slots that       *)
(* gr_max_num_phases promises, and the registered phases fit into them.    *)
(***************************************************************************)
SlotsOf(array) == DOMAIN array = 0 .. gr_max_num_phases - 1

TypeOK ==
  /\ gr_num_phases \in Nat
  /\ gr_max_num_phases \in Nat
  /\ gr_phases \in [DOMAIN gr_phases -> PhaseRecord]
  /\ gr_phases_perf \in [DOMAIN gr_phases_perf -> PerfRecord]
  /\ status = "ok" => /\ SlotsOf(gr_phases)
                      /\ SlotsOf(gr_phases_perf)
                      /\ gr_num_phases <= gr_max_num_phases
  /\ previous_phase \in Int
  /\ current_phase \in Int
  /\ new_phase \in BOOLEAN
  /\ current_site \in StartSites \cup {NoSite}
  /\ has_start_phase \in BOOLEAN
  /\ is_in_mainloop \in BOOLEAN
  /\ status \in Status

(***************************************************************************)
(* "Precisely find a phase or allocate one if not found" (gr_get_phase):   *)
(* a pair of call sites is registered at most once, however the calls      *)
(* interleave known and new sites, and whatever the two caches hold.       *)
(***************************************************************************)
NoDuplicatePhase ==
  \A i, j \in Registered :
    compare_phase(gr_phases[i], gr_phases[j].start, gr_phases[j].end) => i = j

(***************************************************************************)
(* What gr_get_phase trusts without a check. An open phase that is called  *)
(* new starts where no registered phase does, and its site waits in a free *)
(* slot that both arrays have. Otherwise the guess is a registered phase   *)
(* that starts at the open site.                                           *)
(***************************************************************************)
OpenPhaseIsLocated ==
  has_start_phase /\ status = "ok" =>
    IF new_phase
    THEN /\ Candidates(current_site) = {}
         /\ gr_num_phases \in DOMAIN gr_phases
         /\ gr_num_phases \in DOMAIN gr_phases_perf
         /\ gr_phases[gr_num_phases].start = current_site
    ELSE current_phase \in Candidates(current_site)

(***************************************************************************)
(* The wrap-around scan of gr_get_phase starts at previous_phase: once a   *)
(* phase is registered it is never the initial -1 nor beyond the table.    *)
(***************************************************************************)
ScanStartsInTable ==
  gr_num_phases > 0 => previous_phase \in Registered

(***************************************************************************)
(* The table only grows, a registered phase never moves and never changes  *)
(* its sites, and one call completes at most one phase: an index handed    *)
(* out once (current_phase_id) names the same phase forever.               *)
(***************************************************************************)
PhasesAreStable ==
  [][/\ gr_num_phases' \in {gr_num_phases, gr_num_phases + 1}
     /\ \A i \in Registered : /\ gr_phases'[i].start = gr_phases[i].start
                              /\ gr_phases'[i].end = gr_phases[i].end
     /\ \A i, j \in Registered : gr_phases'[i].count # gr_phases[i].count
                                 /\ gr_phases'[j].count # gr_phases[j].count => i = j]_vars

(***************************************************************************)
(* A run is counted for the two call sites that delimit it, whatever the   *)
(* guess was at its start: the entry gr_get_phase returns has the open     *)
(* start site and the caller's end site, and its count goes up by one.     *)
(***************************************************************************)
RunsAreAttributed ==
  [][\A e \in EndSites, run \in Measurements :
       gr_phase_end(e, run) /\ status' = "ok" =>
         LET p == gr_phases'[previous_phase']
         IN  /\ compare_phase(p, current_site, e)
             /\ p.count = 1 + IF previous_phase' \in Registered
                              THEN gr_phases[previous_phase'].count
                              ELSE 0]_vars

-----------------------------------------------------------------------------
(***************************************************************************)
(* The table with its guesses, caches and reallocation implements the      *)
(* plain map from pairs of call sites to summaries of PhaseHistory, for    *)
(* as long as it is alive; and it only stops being alive when a count or   *)
(* the initial number of slots is exhausted.                               *)
(***************************************************************************)
Events(c) ==
  [runs |-> c.count, sum |-> c.avg,
   most |-> IF c.count = 0 THEN 0 ELSE c.max,
   least |-> IF c.count = 0 THEN 0 ELSE c.min]

Row(i) ==
  [start |-> gr_phases[i].start, end |-> gr_phases[i].end,
   count |-> gr_phases[i].count,
   longest |-> gr_phases_perf[i].max, shortest |-> gr_phases_perf[i].min,
   events |-> Events(gr_phases_perf[i].perf_counter)]

Rows == IF status = "ok" THEN {Row(i) : i \in Registered} ELSE {}

OpenSite == IF status = "ok" /\ has_start_phase THEN current_site ELSE NoSite

History == INSTANCE PhaseHistory
             WITH history <- Rows, open <- OpenSite, alive <- status = "ok",
                  counting <- is_in_mainloop,
                  MaxCount <- CountMod - 1, Room <- DefaultNumPhases

ImplementsHistory == History!Spec

-----------------------------------------------------------------------------
(***************************************************************************)
(* Three statements of the comments that the code does not keep.           *)
(*                                                                         *)
(* gr_find_phase: "we use a simple scoring system to pick one: pick the    *)
(* most frequent one".                                                     *)
(***************************************************************************)
GuessIsMostFrequent ==
  has_start_phase /\ status = "ok" /\ ~new_phase =>
    \A i \in Candidates(current_site) :
      gr_phases[i].count <= gr_phases[current_phase].count

(***************************************************************************)
(* gr_phase_start: "find a phase with average length larger than minimal   *)
(* requirement". An average lies between the extremes (a recorded minimum  *)
(* of 0 stands for "none yet").                                            *)
(***************************************************************************)
AverageIsWithinExtremes ==
  status = "ok" =>
    \A i \in Registered :
      /\ gr_phases_perf[i].min <= gr_phases_perf[i].avg
      /\ gr_phases_perf[i].avg <= gr_phases_perf[i].max

(***************************************************************************)
(* gr_get_phase: "Precisely find a phase or allocate one if not found".    *)
(* A phase it allocated has a slot in both arrays.                         *)
(***************************************************************************)
AllocatedPhaseHasStatistics ==
  status # "no_perf" => Registered \subseteq DOMAIN gr_phases_perf
=============================================================================
