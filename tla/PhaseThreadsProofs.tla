-------------------------- MODULE PhaseThreadsProofs --------------------------
(***************************************************************************)
(* The races in gr_phase_start are harmless for a fork-join program, for   *)
(* every team, every plan, every set of call sites and every measurement:  *)
(* the table is the history of the phases that the main thread completed.  *)
(***************************************************************************)
EXTENDS PhaseThreads, FiniteSetTheorems, TLAPS

(***************************************************************************)
(* The argument. In one phase all threads look for the same start site,    *)
(* and nobody registers anything: whatever they write over each other, the *)
(* guesses are slots with this site, be it a registered phase or the free  *)
(* slot. The flag new_phase may be wrong for a while, but if a phase with  *)
(* the site is registered then every thread clears the flag after it has   *)
(* set it, and the last one does so after everybody has set it.            *)
(***************************************************************************)
Here      == round[Main]
Entries   == 0 .. gr_num_phases - 1
Known     == {i \in Entries : gr_phases[i].start = plan[Here].start}

(* The slot i of the table p, registered or free, has the site of phase h. *)
HasSite(p, h, i) == i \in 0 .. gr_num_phases /\ p[i].start = plan[h].start
Sited(i)         == HasSite(gr_phases, Here, i)

(* The shared arrays: only slots that nobody has registered are free, and  *)
(* there is always one.                                                    *)
Arrays ==
  /\ gr_phases \in [0 .. DefaultNumPhases - 1 -> PhaseRecord]
  /\ gr_phases_perf \in [0 .. DefaultNumPhases - 1 -> PerfRecord]
  /\ gr_num_phases \in Nat
  /\ gr_max_num_phases = DefaultNumPhases
  /\ gr_num_phases < DefaultNumPhases
  /\ \A i \in gr_num_phases .. DefaultNumPhases - 1 : gr_phases_perf[i].avg = 0

Scalars ==
  /\ previous_phase \in Int /\ current_phase \in Int
  /\ current_phase_id \in 0 .. DefaultNumPhases - 1
  /\ new_phase \in BOOLEAN /\ current_site \in StartSites \cup {NoSite}
  /\ has_start_phase \in BOOLEAN /\ is_in_mainloop = FALSE /\ status = "ok"
  /\ is_resumed \in BOOLEAN

Locals ==
  /\ plan \in [1 .. Rounds -> [start : StartSites, end : EndSites]] /\ FitsTable(plan)
  /\ round \in [Team -> 1 .. Rounds + 1]
  /\ pc \in [Team -> Labels]
  /\ idx \in [Team -> 0 .. gr_num_phases]
  /\ should_run \in [Team -> BOOLEAN]

(* The table is the history: one entry for each pair of call sites that    *)
(* has been completed, with the number of its runs.                        *)
Finished(p, h, i) == {r \in 1 .. h - 1 : p[r].start = i.start /\ p[r].end = i.end}

HistoryInv ==
  /\ \A i \in Entries : /\ Finished(plan, Here, gr_phases[i]) # {}
                        /\ gr_phases[i].count = Cardinality(Finished(plan, Here, gr_phases[i]))
  /\ \A r \in 1 .. Here - 1 : \E i \in Entries : r \in Finished(plan, Here, gr_phases[i])
  /\ \A i, j \in Entries :
       gr_phases[i].start = gr_phases[j].start /\ gr_phases[i].end = gr_phases[j].end => i = j

-----------------------------------------------------------------------------
(* What holds of a thread that is in the phase of the main thread.         *)
Guessed   == {"predict", "record", "mark", "resume", "opened"}
Published == Guessed \ {"predict"}
Recorded  == Published \ {"record"}

(* It has stored a guess in this phase.                                    *)
HasGuess(t) ==
  \/ pc[t] \in Guessed \cup {"clear"}
  \/ pc[t] = "scan" /\ \E i \in Known : i < idx[t]

InPhase(t) ==
  /\ pc[t] = "clear" => idx[t] \in Known
  /\ pc[t] = "guess" => Sited(gr_num_phases)
  /\ HasGuess(t) => Sited(current_phase)
  /\ pc[t] \in Guessed /\ Known = {} => Sited(gr_num_phases)
  /\ pc[t] \in Published => Sited(current_phase_id)
  /\ pc[t] \in Recorded => current_site = plan[Here].start

(* It has yet to clear the flag that it sets, or has set.                  *)
Pending(t) ==
  /\ round[t] = Here
  /\ \/ pc[t] = "out"
     \/ pc[t] \in {"scan", "clear"} /\ \A i \in Known : i >= idx[t]

FlagInv ==
  \A t \in Team : round[t] = Here /\ pc[t] # "out" =>
    IF Known = {} THEN new_phase
                  ELSE new_phase => \E u \in Team : Pending(u)

(* A worker that runs the analytics has found a long phase.                *)
LongPhase(n, p, perf, s) ==
  \E i \in 0 .. n - 1 : p[i].start = s /\ perf[i].avg >= MinPhaseLength

ThreadInv ==
  \A t \in Team :
    /\ pc[t] # "out" => round[t] <= Rounds
    /\ round[t] = Here \/ (t # Main /\ pc[t] = "opened" /\ round[t] = Here - 1)
    /\ round[t] = Here => InPhase(t)
    /\ pc[t] \in Published /\ should_run[t] =>
         LongPhase(gr_num_phases, gr_phases, gr_phases_perf, plan[round[t]].start)

IInv == Arrays /\ Scalars /\ Locals /\ HistoryInv /\ FlagInv /\ ThreadInv

-----------------------------------------------------------------------------
LEMMA BlankTypes ==
  /\ \A s \in StartSites \cup {NoSite}, e \in EndSites \cup {NoSite} :
       FreshPhase(s, e) = [start |-> s, end |-> e, count |-> 0]
  /\ BlankPhase \in PhaseRecord
  /\ BlankPerf \in PerfRecord /\ BlankPerf.avg = 0
BY CountModAssumption
DEF FreshPhase, BlankPhase, BlankPerf, PhaseRecord, PerfRecord, CounterRecord,
    gr_perfctr_init_counter

LEMMA InitIInv == Init => IInv
<1> SUFFICES ASSUME Init PROVE IInv
  OBVIOUS
<1> USE DEF Init, Here, Entries
<1>1. gr_num_phases = 0 /\ Main \in Team /\ Here = 1 /\ DefaultNumPhases \in Nat \ {0}
  BY RoundsAssumption DEF Table!Init, Team
<1>2. Arrays
  <2>1. /\ gr_phases = [i \in 0 .. DefaultNumPhases - 1 |-> BlankPhase]
        /\ gr_phases_perf = [i \in 0 .. DefaultNumPhases - 1 |-> BlankPerf]
        /\ gr_max_num_phases = DefaultNumPhases
    BY DEF Table!Init, Table!BlankPhase, Table!BlankPerf, Table!FreshPhase,
           Table!gr_perfctr_init_counter, BlankPhase, BlankPerf, FreshPhase,
           gr_perfctr_init_counter
  <2> QED
    BY <1>1, <2>1, BlankTypes DEF Arrays
<1>3. Scalars
  <2>1. /\ previous_phase = -1 /\ current_phase = -1 /\ new_phase = TRUE
        /\ current_site = NoSite /\ has_start_phase = FALSE
        /\ is_in_mainloop = FALSE /\ status = "ok"
    BY DEF Table!Init
  <2>2. current_phase_id = 0 /\ is_resumed = FALSE /\ 0 \in 0 .. DefaultNumPhases - 1
    BY <1>1
  <2>3. 0 - 1 \in Int /\ -1 \in Int
    OBVIOUS
  <2> QED
    BY <2>1, <2>2, <2>3, Zenon DEF Scalars
<1>4. Locals
  BY <1>1, RoundsAssumption DEF Locals, Labels
<1>5. HistoryInv
  BY <1>1 DEF HistoryInv
<1>6. FlagInv
  BY DEF FlagInv
<1>7. ThreadInv
  BY <1>1 DEF ThreadInv, InPhase, HasGuess, Guessed, Published, Recorded
<1> QED
  BY <1>2, <1>3, <1>4, <1>5, <1>6, <1>7 DEF IInv

-----------------------------------------------------------------------------
(* What a thread in gr_phase_start finds.                                  *)
LEMMA ThreadFacts ==
  ASSUME IInv, NEW t \in Team, pc[t] \notin {"out", "opened"}
  PROVE  /\ round[t] = Here /\ Here \in 1 .. Rounds /\ Site(t) = plan[Here].start
         /\ plan[Here].start \in StartSites
         /\ InPhase(t) /\ idx[t] \in 0 .. gr_num_phases /\ should_run[t] \in BOOLEAN
         /\ Main \in Team /\ gr_num_phases \in Nat
<1>1. /\ Main \in Team /\ round[t] \in 1 .. Rounds + 1 /\ round[Main] \in 1 .. Rounds + 1
      /\ idx[t] \in 0 .. gr_num_phases /\ should_run[t] \in BOOLEAN /\ gr_num_phases \in Nat
  BY DEF IInv, Locals, Team, Arrays
<1>2. round[t] <= Rounds /\ round[t] = Here /\ InPhase(t)
  BY DEF IInv, ThreadInv
<1>3. Here \in 1 .. Rounds
  BY <1>1, <1>2, RoundsAssumption DEF Here
<1>4. plan[Here].start \in StartSites
  BY <1>3 DEF IInv, Locals
<1> QED
  BY <1>1, <1>2, <1>3, <1>4 DEF Site

(* A step of gr_phase_start in the thread t, which is at p, n and s after  *)
(* it. It registers nothing, and what it stores is of the phase.           *)
LEMMA SearchKeeps ==
  ASSUME IInv, NEW t \in Team, round[t] = Here, Here <= Rounds, UNCHANGED readonly,
         NEW p \in Labels, NEW n \in 0 .. gr_num_phases, NEW s \in BOOLEAN, p # "out",
         pc' = [pc EXCEPT ![t] = p], idx' = [idx EXCEPT ![t] = n],
         should_run' = [should_run EXCEPT ![t] = s],
         gr_phases' \in [0 .. DefaultNumPhases - 1 -> PhaseRecord],
         \A i \in Entries : gr_phases'[i] = gr_phases[i],
         \A i : Sited(i) => HasSite(gr_phases', Here, i),
         current_phase' \in Int,
         current_phase' = current_phase \/ HasSite(gr_phases', Here, current_phase'),
         current_phase_id' = current_phase_id \/ HasSite(gr_phases', Here, current_phase_id'),
         current_site' \in {current_site, plan[Here].start},
         new_phase' \in BOOLEAN, has_start_phase' \in BOOLEAN, is_resumed' \in BOOLEAN,
         InPhase(t)', FlagInv',
         p \in Published /\ s =>
           LongPhase(gr_num_phases, gr_phases, gr_phases_perf, plan[Here].start)
  PROVE  IInv'
<1> DEFINE Long(x) == LongPhase(gr_num_phases, gr_phases, gr_phases_perf, x)
<1>1. /\ UNCHANGED <<gr_phases_perf, gr_num_phases, gr_max_num_phases, previous_phase,
                     is_in_mainloop, status, plan, round>>
      /\ Entries' = Entries /\ Here' = Here
  BY DEF readonly, Entries, Here
<1>2. Known' = Known
  BY <1>1 DEF Known
<1>3. Arrays'
  BY <1>1 DEF IInv, Arrays, Here
<1>4. Scalars'
  <2>1. /\ gr_num_phases \in Nat /\ gr_num_phases < DefaultNumPhases /\ Here \in Nat
        /\ current_phase_id \in 0 .. DefaultNumPhases - 1
    BY DEF IInv, Arrays, Scalars, Locals, Team, Here
  <2>2. current_phase_id' \in 0 .. DefaultNumPhases - 1
    BY <2>1, RoundsAssumption DEF HasSite
  <2>3. plan[Here].start \in StartSites
    <3>1. Here \in 1 .. Rounds
      BY RoundsAssumption DEF IInv, Locals, Team, Here
    <3> QED
      BY <3>1 DEF IInv, Locals
  <2> QED
    BY <1>1, <2>2, <2>3 DEF IInv, Scalars
<1>5. Locals'
  BY <1>1 DEF IInv, Locals
<1>6. HistoryInv'
  <2>1. \A i \in Entries :
          Finished(plan', Here', gr_phases'[i]) = Finished(plan, Here, gr_phases[i])
    BY <1>1
  <2> QED
    BY <1>1, <2>1 DEF IInv, HistoryInv
<1>7. pc'[t] = p /\ should_run'[t] = s
  BY DEF IInv, Locals
<1>8. ASSUME NEW x
      PROVE  Long(x) => LongPhase(gr_num_phases', gr_phases', gr_phases_perf', x)
  BY <1>1 DEF LongPhase, Entries
<1>9. ASSUME NEW u \in Team, u # t, round[u] = Here, InPhase(u)
      PROVE  InPhase(u)'
  <2>1. pc'[u] = pc[u] /\ idx'[u] = idx[u]
    BY <1>9 DEF IInv, Locals
  <2>2. HasGuess(u)' = HasGuess(u)
    BY <1>2, <2>1 DEF HasGuess
  <2>3. \A i : Sited(i)' <=> HasSite(gr_phases', Here, i)
    BY <1>1 DEF Sited, HasSite
  <2>4. Sited(current_phase) => Sited(current_phase)'
    BY <1>1 DEF Sited, HasSite
  <2>5. Sited(current_phase_id) => Sited(current_phase_id)'
    BY <1>1 DEF Sited, HasSite
  <2>6. Sited(gr_num_phases) => Sited(gr_num_phases)'
    BY <1>1 DEF Sited, HasSite
  <2> QED
    BY <1>1, <1>2, <1>9, <2>1, <2>2, <2>4, <2>5, <2>6 DEF InPhase
<1>10. ThreadInv'
  <2> SUFFICES ASSUME NEW u \in Team
               PROVE  /\ pc'[u] # "out" => round[u] <= Rounds
                      /\ round[u] = Here \/ (u # Main /\ pc'[u] = "opened" /\ round[u] = Here - 1)
                      /\ round[u] = Here => InPhase(u)'
                      /\ pc'[u] \in Published /\ should_run'[u] =>
                           LongPhase(gr_num_phases', gr_phases', gr_phases_perf',
                                     plan[round[u]].start)
    BY <1>1 DEF ThreadInv
  <2>1. CASE u = t
    BY <1>7, <1>8, <2>1
  <2>2. CASE u # t
    <3>1. /\ pc[u] # "out" => round[u] <= Rounds
          /\ round[u] = Here \/ (u # Main /\ pc[u] = "opened" /\ round[u] = Here - 1)
          /\ round[u] = Here => InPhase(u)
          /\ pc[u] \in Published /\ should_run[u] => Long(plan[round[u]].start)
      BY DEF IInv, ThreadInv
    <3>2. pc'[u] = pc[u] /\ should_run'[u] = should_run[u]
      BY <2>2 DEF IInv, Locals
    <3> HIDE DEF Long
    <3>3. round[u] = Here => InPhase(u)'
      BY <1>9, <2>2, <3>1
    <3>4. pc'[u] \in Published /\ should_run'[u] =>
            LongPhase(gr_num_phases', gr_phases', gr_phases_perf', plan[round[u]].start)
      BY <1>8, <3>1, <3>2
    <3> QED
      BY <3>1, <3>2, <3>3, <3>4
  <2> QED
    BY <2>1, <2>2
<1> QED
  BY <1>3, <1>4, <1>5, <1>6, <1>10 DEF IInv

(* A step that leaves the flag alone, and a thread that is to clear it.    *)
LEMMA FlagStays ==
  ASSUME IInv, NEW t \in Team, round[t] = Here, pc[t] # "out",
         NEW p, NEW n, pc' = [pc EXCEPT ![t] = p], idx' = [idx EXCEPT ![t] = n],
         UNCHANGED <<new_phase, round>>, Known' = Known,
         Known # {} /\ Pending(t) => p \in {"scan", "clear"} /\ \A i \in Known : i >= n
  PROVE  FlagInv'
<1>1. /\ pc'[t] = p /\ idx'[t] = n /\ Here' = Here
      /\ \A u \in Team : u # t => pc'[u] = pc[u] /\ idx'[u] = idx[u]
  BY DEF IInv, Locals, Here
<1>2. \A u \in Team : Known # {} /\ Pending(u) => Pending(u)'
  BY <1>1 DEF Pending
<1>3. IF Known = {} THEN new_phase ELSE new_phase => \E u \in Team : Pending(u)
  BY DEF IInv, FlagInv
<1> QED
  BY <1>1, <1>2, <1>3 DEF FlagInv

(* The same of a step that neither writes the table nor moves the loop.    *)
LEMMA QuietKeeps ==
  ASSUME IInv, NEW t \in Team, round[t] = Here, Here <= Rounds,
         UNCHANGED <<readonly, gr_phases>>,
         NEW p \in Labels, NEW n \in 0 .. gr_num_phases, NEW s \in BOOLEAN, p # "out",
         pc' = [pc EXCEPT ![t] = p], idx' = [idx EXCEPT ![t] = n],
         should_run' = [should_run EXCEPT ![t] = s],
         current_phase' \in Int, current_phase' = current_phase \/ Sited(current_phase'),
         current_phase_id' = current_phase_id \/ Sited(current_phase_id'),
         current_site' \in {current_site, plan[Here].start},
         new_phase' \in BOOLEAN, has_start_phase' \in BOOLEAN, is_resumed' \in BOOLEAN,
         p = "clear" => n \in Known,
         p = "guess" => Sited(gr_num_phases),
         p \in Guessed \cup {"clear"} \/ (p = "scan" /\ \E i \in Known : i < n)
           => Sited(current_phase'),
         p \in Guessed /\ Known = {} => Sited(gr_num_phases),
         p \in Published => Sited(current_phase_id'),
         p \in Recorded => current_site' = plan[Here].start,
         \/ FlagInv'
         \/ /\ pc[t] # "out" /\ new_phase' = new_phase
            /\ Known # {} /\ Pending(t) => p \in {"scan", "clear"} /\ \A i \in Known : i >= n,
         p \in Published /\ s =>
           LongPhase(gr_num_phases, gr_phases, gr_phases_perf, plan[Here].start)
  PROVE  IInv'
<1>1. /\ Here' = Here /\ Known' = Known
      /\ UNCHANGED <<gr_phases_perf, gr_num_phases, plan, round>>
  BY DEF readonly, Here, Known, Entries
<1>2. pc'[t] = p /\ idx'[t] = n
  BY DEF IInv, Locals
<1>3. InPhase(t)'
  <2>1. HasGuess(t)' <=> p \in Guessed \cup {"clear"} \/ (p = "scan" /\ \E i \in Known : i < n)
    BY <1>1, <1>2 DEF HasGuess
  <2>2. Sited(gr_num_phases)' = Sited(gr_num_phases)
    BY <1>1 DEF Sited, HasSite
  <2>3. Sited(current_phase)' = Sited(current_phase')
    BY <1>1 DEF Sited, HasSite
  <2>4. Sited(current_phase_id)' = Sited(current_phase_id')
    BY <1>1 DEF Sited, HasSite
  <2> QED
    BY <1>1, <1>2, <2>1, <2>2, <2>3, <2>4 DEF InPhase
<1>4. FlagInv'
  BY <1>1, FlagStays
<1>5. \A i : Sited(i) <=> HasSite(gr_phases', Here, i)
  BY DEF Sited
<1>6. gr_phases' \in [0 .. DefaultNumPhases - 1 -> PhaseRecord]
  BY DEF IInv, Arrays
<1> QED
  BY <1>1, <1>3, <1>4, <1>5, <1>6, SearchKeeps

-----------------------------------------------------------------------------
LEMMA EnterKeeps ==
  ASSUME IInv, NEW t \in Team, Enter(t)
  PROVE  IInv'
<1>1. /\ pc[t] = "out" /\ round[t] <= Rounds /\ new_phase' = TRUE
      /\ pc' = [pc EXCEPT ![t] = "scan"] /\ idx' = [idx EXCEPT ![t] = 0]
      /\ UNCHANGED <<readonly, gr_phases, current_phase, current_site,
                     has_start_phase, current_phase_id, is_resumed, should_run>>
  BY DEF Enter, Goto
<1>2. round[t] = Here /\ should_run[t] \in BOOLEAN /\ gr_num_phases \in Nat
  BY <1>1 DEF IInv, ThreadInv, Locals, Arrays
<1>3. should_run' = [should_run EXCEPT ![t] = should_run[t]]
  BY <1>1 DEF IInv, Locals
<1>4. Known \subseteq Nat
  BY <1>2 DEF Known, Entries
<1>5. FlagInv'
  <2>1. Here' = Here /\ Known' = Known /\ round' = round
    BY <1>1 DEF readonly, Here, Known, Entries
  <2>2. Pending(t)'
    BY <1>1, <1>2, <1>4, <2>1 DEF Pending, IInv, Locals
  <2> QED
    BY <1>1, <2>1, <2>2 DEF FlagInv
<1>6. /\ ~(\E i \in Known : i < 0) /\ 0 \in 0 .. gr_num_phases
      /\ Here <= Rounds /\ current_phase \in Int
  <2>1. current_phase \in Int
    BY DEF IInv, Scalars
  <2>2. 0 \in 0 .. gr_num_phases
    BY <1>2
  <2>3. ~(\E i \in Known : i < 0)
    BY <1>4
  <2> QED
    BY <1>1, <1>2, <2>1, <2>2, <2>3
<1>7. has_start_phase \in BOOLEAN /\ is_resumed \in BOOLEAN
  BY DEF IInv, Scalars
<1>8. "scan" \in Labels /\ "scan" \notin Guessed \cup Published \cup Recorded
  BY DEF Labels, Guessed, Published, Recorded
<1> QED
  BY <1>1, <1>2, <1>3, <1>5, <1>6, <1>7, <1>8, QuietKeeps

LEMMA SkipKeeps ==
  ASSUME IInv, NEW t \in Team, Skip(t)
  PROVE  IInv'
<1>1. /\ pc[t] = "scan" /\ idx[t] < gr_num_phases /\ gr_phases[idx[t]].start # Site(t)
      /\ idx' = [idx EXCEPT ![t] = idx[t] + 1]
      /\ UNCHANGED <<readonly, pc, gr_phases, current_phase, new_phase, current_site,
                     has_start_phase, current_phase_id, is_resumed, should_run>>
  BY DEF Skip
<1>2. /\ round[t] = Here /\ Here <= Rounds /\ InPhase(t) /\ idx[t] + 1 \in 0 .. gr_num_phases
      /\ idx[t] \in Nat /\ should_run[t] \in BOOLEAN /\ idx[t] \notin Known
  BY <1>1, ThreadFacts DEF Known
<1>3. /\ should_run' = [should_run EXCEPT ![t] = should_run[t]]
      /\ pc' = [pc EXCEPT ![t] = "scan"]
  BY <1>1 DEF IInv, Locals
<1>4. \A i \in Known : /\ i \in Int /\ (i < idx[t] + 1 => i < idx[t])
                       /\ (i >= idx[t] => i >= idx[t] + 1)
  BY <1>2 DEF Known, Entries
<1>5. (\E i \in Known : i < idx[t] + 1) => Sited(current_phase)
  BY <1>1, <1>2, <1>4 DEF InPhase, HasGuess
<1>6. Pending(t) => \A i \in Known : i >= idx[t] + 1
  BY <1>1, <1>4 DEF Pending
<1> QED
  BY <1>1, <1>2, <1>3, <1>5, <1>6, QuietKeeps
  DEF Labels, Guessed, Published, Recorded, IInv, Scalars

(* Each registered phase has been run, but never as often as to wrap.      *)
LEMMA CountFacts ==
  ASSUME IInv, NEW i \in Entries
  PROVE  gr_phases[i].count \in 1 .. Rounds
<1> DEFINE F == Finished(plan, Here, gr_phases[i])
<1>1. F # {} /\ gr_phases[i].count = Cardinality(F) /\ Here \in 1 .. Rounds + 1
  BY DEF IInv, HistoryInv, Locals, Here, Team
<1>2. F \in SUBSET (1 .. Here - 1)
  BY DEF Finished
<1>3. IsFiniteSet(1 .. Here - 1) /\ Cardinality(1 .. Here - 1) <= Rounds
  <2>1. Here - 1 \in Int /\ 1 \in Int /\ Rounds \in Nat
    BY <1>1, RoundsAssumption
  <2>2. /\ IsFiniteSet(1 .. Here - 1)
        /\ Cardinality(1 .. Here - 1) =
             IF 1 > Here - 1 THEN 0 ELSE Here - 1 - 1 + 1
    BY <2>1, FS_Interval
  <2> QED
    BY <1>1, <2>1, <2>2
<1>4. IsFiniteSet(F) /\ Cardinality(F) <= Cardinality(1 .. Here - 1)
  BY <1>2, <1>3, FS_Subset
<1>5. Cardinality(F) \in Nat /\ Cardinality(F) # 0 /\ Cardinality(1 .. Here - 1) \in Nat
  BY <1>1, <1>3, <1>4, FS_CardinalityType, FS_EmptySet
<1> QED
  BY <1>1, <1>3, <1>4, <1>5, RoundsAssumption

LEMMA CandidateKeeps ==
  ASSUME IInv, NEW t \in Team, Candidate(t)
  PROVE  IInv'
<1>1. /\ pc[t] = "scan" /\ pc' = [pc EXCEPT ![t] = "clear"]
      /\ idx[t] < gr_num_phases /\ gr_phases[idx[t]].start = Site(t)
      /\ current_phase' = IF gr_phases[idx[t]].count > 0 THEN idx[t] ELSE current_phase
      /\ UNCHANGED <<readonly, gr_phases, new_phase, current_site,
                     has_start_phase, current_phase_id, is_resumed, idx, should_run>>
  BY DEF Candidate, Goto
<1>2. /\ round[t] = Here /\ Here <= Rounds /\ idx[t] \in 0 .. gr_num_phases
      /\ should_run[t] \in BOOLEAN /\ idx[t] \in Known /\ idx[t] \in Entries
      /\ Sited(idx[t]) /\ idx[t] \in Int
  BY <1>1, ThreadFacts DEF Known, Entries, Sited, HasSite
<1>3. /\ should_run' = [should_run EXCEPT ![t] = should_run[t]]
      /\ idx' = [idx EXCEPT ![t] = idx[t]]
  BY <1>1 DEF IInv, Locals
<1>4. current_phase' = idx[t]
  BY <1>1, <1>2, CountFacts
<1>5. Pending(t) => \A i \in Known : i >= idx[t]
  BY <1>1 DEF Pending
<1>6. has_start_phase \in BOOLEAN /\ is_resumed \in BOOLEAN /\ new_phase \in BOOLEAN
  BY DEF IInv, Scalars
<1>7. "clear" \in Labels /\ "clear" \notin Guessed \cup Published \cup Recorded
  BY DEF Labels, Guessed, Published, Recorded
<1> QED
  BY <1>1, <1>2, <1>3, <1>4, <1>5, <1>6, <1>7, QuietKeeps

LEMMA ClearKeeps ==
  ASSUME IInv, NEW t \in Team, Clear(t)
  PROVE  IInv'
<1>1. /\ pc[t] = "clear" /\ pc' = [pc EXCEPT ![t] = "scan"] /\ new_phase' = FALSE
      /\ idx' = [idx EXCEPT ![t] = idx[t] + 1]
      /\ UNCHANGED <<readonly, gr_phases, current_phase, current_site,
                     has_start_phase, current_phase_id, is_resumed, should_run>>
  BY DEF Clear, Goto
<1>2. /\ round[t] = Here /\ Here <= Rounds /\ InPhase(t) /\ idx[t] \in Known
      /\ idx[t] + 1 \in 0 .. gr_num_phases /\ should_run[t] \in BOOLEAN
  BY <1>1, ThreadFacts DEF InPhase, Known, Entries
<1>3. should_run' = [should_run EXCEPT ![t] = should_run[t]]
  BY <1>1 DEF IInv, Locals
<1>4. FlagInv'
  <2>1. Known' = Known
    BY <1>1 DEF readonly, Here, Known, Entries
  <2> QED
    BY <1>1, <1>2, <2>1 DEF FlagInv
<1>5. Sited(current_phase) /\ current_phase \in Int
  BY <1>1, <1>2 DEF InPhase, HasGuess, IInv, Scalars
<1>6. has_start_phase \in BOOLEAN /\ is_resumed \in BOOLEAN
  BY DEF IInv, Scalars
<1>7. "scan" \in Labels /\ "scan" \notin Guessed \cup Published \cup Recorded
  BY DEF Labels, Guessed, Published, Recorded
<1> QED
  BY <1>1, <1>2, <1>3, <1>4, <1>5, <1>6, <1>7, QuietKeeps

(* A thread that has looked at the whole table and finds the flag cleared  *)
(* has stored a guess itself.                                              *)
LEMMA ScanDoneKeeps ==
  ASSUME IInv, NEW t \in Team, ScanDone(t)
  PROVE  IInv'
<1> DEFINE p == IF new_phase THEN "claim" ELSE "predict"
<1>1. /\ pc[t] = "scan" /\ pc' = [pc EXCEPT ![t] = p] /\ idx[t] >= gr_num_phases
      /\ UNCHANGED <<readonly, gr_phases, current_phase, new_phase, current_site,
                     has_start_phase, current_phase_id, is_resumed, idx, should_run>>
  BY DEF ScanDone, Goto
<1>2. /\ round[t] = Here /\ Here <= Rounds /\ InPhase(t) /\ idx[t] \in 0 .. gr_num_phases
      /\ should_run[t] \in BOOLEAN /\ gr_num_phases \in Nat
  BY <1>1, ThreadFacts
<1>3. /\ should_run' = [should_run EXCEPT ![t] = should_run[t]]
      /\ idx' = [idx EXCEPT ![t] = idx[t]]
  BY <1>1 DEF IInv, Locals
<1>4. \A i \in Known : i < idx[t] /\ ~(i >= idx[t])
  BY <1>1, <1>2 DEF Known, Entries
<1>5. p = "predict" => Known # {} /\ Sited(current_phase)
  <2> SUFFICES ASSUME ~new_phase PROVE Known # {} /\ Sited(current_phase)
    OBVIOUS
  <2>1. Known # {}
    BY <1>1, <1>2 DEF IInv, FlagInv
  <2> QED
    BY <1>1, <1>2, <1>4, <2>1 DEF InPhase, HasGuess
<1>6. ~(Known # {} /\ Pending(t))
  BY <1>1, <1>4 DEF Pending
<1>7. /\ p \in {"claim", "predict"} /\ p \in Labels \ {"out"}
      /\ p \notin Published \cup Recorded \cup {"clear", "scan", "guess"}
      /\ "claim" \notin Guessed
  BY DEF Labels, Guessed, Published, Recorded
<1>8. /\ has_start_phase \in BOOLEAN /\ is_resumed \in BOOLEAN /\ new_phase \in BOOLEAN
      /\ current_phase \in Int
  BY DEF IInv, Scalars
<1> HIDE DEF p
<1>9. p \in Guessed => p = "predict"
  BY <1>7
<1> QED
  BY <1>1, <1>2, <1>3, <1>5, <1>6, <1>7, <1>8, <1>9, QuietKeeps

(* The site is stored in the free slot, by any number of threads.          *)
LEMMA ClaimKeeps ==
  ASSUME IInv, NEW t \in Team, Claim(t)
  PROVE  IInv'
<1> DEFINE site == plan[Here].start
<1>1. /\ round[t] = Here /\ Here \in 1 .. Rounds /\ site \in StartSites
      /\ Site(t) = site /\ idx[t] \in 0 .. gr_num_phases
      /\ should_run[t] \in BOOLEAN /\ gr_num_phases \in Nat /\ InPhase(t)
  BY ThreadFacts DEF Claim, Goto
<1>2. /\ pc[t] = "claim" /\ pc' = [pc EXCEPT ![t] = "guess"]
      /\ gr_phases' = [gr_phases EXCEPT ![gr_num_phases].start = site]
      /\ UNCHANGED <<readonly, current_phase, new_phase, current_site,
                     has_start_phase, current_phase_id, is_resumed, idx, should_run>>
  BY <1>1 DEF Claim, Goto
<1> HIDE DEF site
<1>3. /\ should_run' = [should_run EXCEPT ![t] = should_run[t]]
      /\ idx' = [idx EXCEPT ![t] = idx[t]]
  BY <1>2 DEF IInv, Locals
<1>4. /\ gr_phases \in [0 .. DefaultNumPhases - 1 -> PhaseRecord]
      /\ gr_num_phases \in 0 .. DefaultNumPhases - 1
  BY <1>1, RoundsAssumption DEF IInv, Arrays
<1>5. /\ gr_phases' \in [0 .. DefaultNumPhases - 1 -> PhaseRecord]
      /\ gr_phases'[gr_num_phases].start = site
      /\ \A i \in 0 .. DefaultNumPhases - 1 : i # gr_num_phases => gr_phases'[i] = gr_phases[i]
  BY <1>1, <1>2, <1>4 DEF PhaseRecord
<1>6. /\ \A i \in 0 .. gr_num_phases : i \in 0 .. DefaultNumPhases - 1
      /\ \A i \in Entries : i # gr_num_phases /\ i \in 0 .. DefaultNumPhases - 1
  BY <1>1, <1>4, RoundsAssumption DEF Entries
<1>7. \A i \in Entries : gr_phases'[i] = gr_phases[i]
  BY <1>5, <1>6
<1>8. /\ HasSite(gr_phases', Here, gr_num_phases)
      /\ \A i : Sited(i) => HasSite(gr_phases', Here, i)
  BY <1>1, <1>5, <1>6 DEF HasSite, Sited, site
<1>9. /\ Here' = Here /\ Entries' = Entries /\ plan' = plan /\ round' = round
      /\ gr_num_phases' = gr_num_phases
  BY <1>2 DEF readonly, Here, Entries
<1>10. Known' = Known
  BY <1>7, <1>9 DEF Known
<1>11. "guess" \in Labels /\ "guess" \notin Guessed \cup Published \cup Recorded
  BY DEF Labels, Guessed, Published, Recorded
<1>12. InPhase(t)'
  <2>1. pc'[t] = "guess" /\ ~HasGuess(t)'
    BY <1>2, <1>11 DEF IInv, Locals, HasGuess
  <2>2. Sited(gr_num_phases)'
    BY <1>8, <1>9 DEF Sited, HasSite
  <2> QED
    BY <1>11, <2>1, <2>2 DEF InPhase
<1>13. FlagInv'
  <2>1. ~Pending(t)
    BY <1>2 DEF Pending
  <2> QED
    BY <1>1, <1>2, <1>3, <1>9, <1>10, <2>1, FlagStays
<1>14. /\ has_start_phase \in BOOLEAN /\ is_resumed \in BOOLEAN /\ new_phase \in BOOLEAN
       /\ current_phase \in Int
  BY DEF IInv, Scalars
<1>15. /\ UNCHANGED readonly /\ pc' = [pc EXCEPT ![t] = "guess"]
       /\ UNCHANGED <<current_phase, new_phase, current_site, has_start_phase,
                      current_phase_id, is_resumed>>
       /\ round[t] = Here /\ Here <= Rounds
  BY <1>1, <1>2
<1>16. "guess" # "out" /\ "guess" \in Labels /\ "guess" \notin Published
  BY <1>11
<1>17. gr_phases' \in [0 .. DefaultNumPhases - 1 -> PhaseRecord]
  BY <1>5
<1>18. should_run[t] \in BOOLEAN /\ idx[t] \in 0 .. gr_num_phases
  BY <1>1
<1> QED
  BY <1>3, <1>7, <1>8, <1>12, <1>13, <1>14, <1>15, <1>16, <1>17, <1>18, SearchKeeps

LEMMA GuessKeeps ==
  ASSUME IInv, NEW t \in Team, Guess(t)
  PROVE  IInv'
<1>1. /\ pc[t] = "guess" /\ pc' = [pc EXCEPT ![t] = "predict"]
      /\ current_phase' = gr_num_phases
      /\ UNCHANGED <<readonly, gr_phases, new_phase, current_site,
                     has_start_phase, current_phase_id, is_resumed, idx, should_run>>
  BY DEF Guess, Goto
<1>2. /\ round[t] = Here /\ Here <= Rounds /\ InPhase(t) /\ idx[t] \in 0 .. gr_num_phases
      /\ should_run[t] \in BOOLEAN /\ gr_num_phases \in Int
  BY <1>1, ThreadFacts
<1>3. /\ should_run' = [should_run EXCEPT ![t] = should_run[t]]
      /\ idx' = [idx EXCEPT ![t] = idx[t]]
  BY <1>1 DEF IInv, Locals
<1>4. Sited(gr_num_phases) /\ ~Pending(t)
  BY <1>1, <1>2 DEF InPhase, Pending
<1>5. /\ has_start_phase \in BOOLEAN /\ is_resumed \in BOOLEAN /\ new_phase \in BOOLEAN
  BY DEF IInv, Scalars
<1>6. "predict" \in Labels /\ "predict" \notin Published \cup Recorded
  BY DEF Labels, Guessed, Published, Recorded
<1> QED
  BY <1>1, <1>2, <1>3, <1>4, <1>5, <1>6, QuietKeeps

(* The guess is published. The free slot has no statistics yet: a phase    *)
(* that is long enough is a registered one.                                *)
LEMMA PredictKeeps ==
  ASSUME IInv, NEW t \in Team, Predict(t)
  PROVE  IInv'
<1> DEFINE s == LongEnough(current_phase)
<1>1. /\ pc[t] = "predict" /\ pc' = [pc EXCEPT ![t] = "record"]
      /\ current_phase_id' = current_phase
      /\ should_run' = [should_run EXCEPT ![t] = s]
      /\ UNCHANGED <<readonly, gr_phases, current_phase, new_phase, current_site,
                     has_start_phase, is_resumed, idx>>
  BY DEF Predict, Goto
<1>2. /\ round[t] = Here /\ Here <= Rounds /\ InPhase(t) /\ idx[t] \in 0 .. gr_num_phases
      /\ gr_num_phases \in Nat
  BY <1>1, ThreadFacts
<1>3. idx' = [idx EXCEPT ![t] = idx[t]]
  BY <1>1 DEF IInv, Locals
<1>4. /\ Sited(current_phase) /\ (Known = {} => Sited(gr_num_phases)) /\ ~Pending(t)
  BY <1>1, <1>2 DEF InPhase, HasGuess, Guessed, Pending
<1>5. s => LongPhase(gr_num_phases, gr_phases, gr_phases_perf, plan[Here].start)
  <2> SUFFICES ASSUME s
               PROVE  LongPhase(gr_num_phases, gr_phases, gr_phases_perf, plan[Here].start)
    OBVIOUS
  <2>1. gr_num_phases \in gr_num_phases .. DefaultNumPhases - 1
    <3>1. gr_num_phases < DefaultNumPhases /\ Here \in Int
      BY DEF IInv, Arrays, Locals, Team, Here
    <3> QED
      BY <1>2, <3>1, RoundsAssumption
  <2>2. gr_phases_perf[gr_num_phases].avg = 0
    BY <2>1 DEF IInv, Arrays
  <2>3. current_phase # gr_num_phases
    BY <2>2 DEF LongEnough
  <2>4. current_phase \in 0 .. gr_num_phases - 1 /\ gr_phases[current_phase].start = plan[Here].start
    BY <1>2, <1>4, <2>3 DEF Sited, HasSite
  <2> QED
    BY <2>4 DEF LongPhase, LongEnough
<1>6. /\ has_start_phase \in BOOLEAN /\ is_resumed \in BOOLEAN /\ new_phase \in BOOLEAN
      /\ current_phase \in Int /\ s \in BOOLEAN
  BY DEF IInv, Scalars, LongEnough
<1>7. "record" \in Labels /\ "record" \notin Recorded
  BY DEF Labels, Guessed, Published, Recorded
<1> HIDE DEF s
<1> QED
  BY <1>1, <1>2, <1>3, <1>4, <1>5, <1>6, <1>7, QuietKeeps

(* The steps after gr_find_phase: the site is recorded, and the core is    *)
(* handed over, or the phase marked as open.                               *)
LEMMA RestKeeps ==
  ASSUME IInv, NEW t \in Team, Record(t) \/ Resume(t) \/ (t = Main /\ Mark)
  PROVE  IInv'
<1>1. PICK p \in Recorded :
        /\ pc[t] \in Published /\ pc' = [pc EXCEPT ![t] = p]
        /\ UNCHANGED <<readonly, gr_phases, current_phase, new_phase,
                       current_phase_id, idx, should_run>>
        /\ has_start_phase' \in {TRUE, has_start_phase} /\ is_resumed' \in {TRUE, is_resumed}
        /\ \/ current_site' = Site(t)
           \/ pc[t] \in Recorded /\ current_site' = current_site
  <2>1. CASE Record(t)
    <3>1. AfterRecord(t) \in Recorded /\ pc[t] \in Published
      BY <2>1 DEF Record, Goto, AfterRecord, Guessed, Published, Recorded
    <3> QED
      BY <2>1, <3>1 DEF Record, Goto
  <2>2. CASE Resume(t)
    BY <2>2 DEF Resume, Goto, Guessed, Published, Recorded
  <2>3. CASE t = Main /\ Mark
    BY <2>3 DEF Mark, Goto, Guessed, Published, Recorded
  <2> QED
    BY <2>1, <2>2, <2>3
<1>2. pc[t] \notin {"out", "opened"}
  BY DEF Record, Resume, Mark, Goto
<1>3. /\ round[t] = Here /\ Here <= Rounds /\ InPhase(t) /\ idx[t] \in 0 .. gr_num_phases
      /\ should_run[t] \in BOOLEAN /\ Site(t) = plan[Here].start
  BY <1>2, ThreadFacts
<1>4. /\ should_run' = [should_run EXCEPT ![t] = should_run[t]]
      /\ idx' = [idx EXCEPT ![t] = idx[t]]
  BY <1>1 DEF IInv, Locals
<1>5. /\ Sited(current_phase) /\ Sited(current_phase_id) /\ (Known = {} => Sited(gr_num_phases))
      /\ ~Pending(t) /\ current_site' = plan[Here].start
  BY <1>1, <1>2, <1>3
  DEF InPhase, HasGuess, Pending, Guessed, Published, Recorded
<1>6. should_run[t] => LongPhase(gr_num_phases, gr_phases, gr_phases_perf, plan[Here].start)
  BY <1>1, <1>3 DEF IInv, ThreadInv
<1>7. /\ has_start_phase' \in BOOLEAN /\ is_resumed' \in BOOLEAN /\ new_phase \in BOOLEAN
      /\ current_phase \in Int
  BY <1>1 DEF IInv, Scalars
<1>8. p \in Labels /\ p \notin {"out", "scan", "clear", "guess"} /\ p \in Guessed
  BY <1>1 DEF Labels, Guessed, Published, Recorded
<1> QED
  BY <1>1, <1>2, <1>3, <1>4, <1>5, <1>6, <1>7, <1>8, QuietKeeps

(* A worker goes on to the phase that the main thread has begun.           *)
LEMMA WorkerEndKeeps ==
  ASSUME ForkJoin, IInv, NEW t \in Workers, WorkerEnd(t)
  PROVE  IInv'
<1>1. /\ pc[t] = "opened" /\ pc' = [pc EXCEPT ![t] = "out"] /\ round[Main] > round[t]
      /\ round' = [round EXCEPT ![t] = round[t] + 1]
      /\ should_run' = [should_run EXCEPT ![t] = FALSE]
      /\ UNCHANGED <<tracker, is_resumed, idx, plan, current_phase_id>>
  BY DEF WorkerEnd, NextRound, Goto
<1>2. /\ t \in Team /\ t # Main /\ Main \in Team
      /\ round \in [Team -> 1 .. Rounds + 1] /\ pc \in [Team -> Labels]
      /\ should_run \in [Team -> BOOLEAN]
  BY TeamAssumption DEF Team, IInv, Locals
<1>3. round[t] = Here - 1 /\ round[t] <= Rounds /\ round[t] \in Nat /\ Here \in Nat
  BY <1>1, <1>2 DEF IInv, ThreadInv, Here
<1>4. /\ UNCHANGED <<gr_phases, gr_phases_perf, gr_num_phases, gr_max_num_phases,
                     previous_phase, current_phase, new_phase, current_site,
                     has_start_phase, is_in_mainloop, status, idx, plan, is_resumed,
                     current_phase_id>>
      /\ Here' = Here /\ Known' = Known /\ Entries' = Entries
  BY <1>1, <1>2 DEF tracker, Here, Known, Entries
<1>5. /\ pc'[t] = "out" /\ round'[t] = Here
      /\ \A u \in Team : u # t => /\ pc'[u] = pc[u] /\ round'[u] = round[u]
                                  /\ should_run'[u] = should_run[u]
  BY <1>1, <1>2, <1>3
<1>6. Arrays' /\ Scalars'
  BY <1>4 DEF IInv, Arrays, Scalars
<1>7. Locals'
  BY <1>1, <1>2, <1>3, <1>4, RoundsAssumption DEF IInv, Locals, Labels
<1>8. HistoryInv'
  BY <1>4 DEF IInv, HistoryInv
<1>9. FlagInv'
  <2>1. \A u \in Team : Pending(u) => Pending(u)'
    BY <1>3, <1>4, <1>5 DEF Pending
  <2>2. ASSUME NEW u \in Team, round'[u] = Here, pc'[u] # "out"
        PROVE  IF Known = {} THEN new_phase ELSE new_phase => \E v \in Team : Pending(v)
    BY <1>5, <2>2 DEF IInv, FlagInv
  <2> QED
    BY <1>4, <2>1, <2>2 DEF FlagInv
<1>10. ASSUME NEW u \in Team
       PROVE  /\ pc'[u] # "out" => round'[u] <= Rounds
              /\ round'[u] = Here \/ (u # Main /\ pc'[u] = "opened" /\ round'[u] = Here - 1)
              /\ round'[u] = Here => InPhase(u)'
              /\ pc'[u] \in Published /\ should_run'[u] =>
                   LongPhase(gr_num_phases, gr_phases, gr_phases_perf, plan[round'[u]].start)
  <2>1. CASE u = t
    <3>1. pc'[u] = "out"
      BY <1>5, <2>1
    <3>2. "out" \notin Guessed \cup Published \cup Recorded
      BY DEF Guessed, Published, Recorded
    <3>3. InPhase(u)'
      BY <3>1, <3>2 DEF InPhase, HasGuess
    <3> QED
      BY <1>5, <2>1, <3>1, <3>2, <3>3
  <2>2. CASE u # t
    <3>1. /\ pc[u] # "out" => round[u] <= Rounds
          /\ round[u] = Here \/ (u # Main /\ pc[u] = "opened" /\ round[u] = Here - 1)
          /\ round[u] = Here => InPhase(u)
          /\ pc[u] \in Published /\ should_run[u] =>
               LongPhase(gr_num_phases, gr_phases, gr_phases_perf, plan[round[u]].start)
      BY DEF IInv, ThreadInv
    <3>2. InPhase(u)' <=> InPhase(u)
      BY <1>4, <1>5, <2>2 DEF InPhase, HasGuess, Sited, HasSite
    <3> QED
      BY <1>5, <2>2, <3>1, <3>2
  <2> QED
    BY <2>1, <2>2
<1>11. ThreadInv'
  BY <1>4, <1>10 DEF ThreadInv
<1> QED
  BY <1>6, <1>7, <1>8, <1>9, <1>11 DEF IInv

-----------------------------------------------------------------------------
(* The mean that the code computes is never below the one before.          *)
LEMMA MeanGrows ==
  ASSUME NEW a \in Nat, NEW c \in Nat, NEW l \in Nat, c > 0
  PROVE  (a * c + l) \div c \in Nat /\ (a * c + l) \div c >= a
<1> DEFINE q == (a * c + l) \div c
<1>1. a * c \in Nat /\ a * c + l \in Nat
  OBVIOUS
<1>2. q \in Int /\ c * q <= a * c + l /\ a * c + l < c * (q + 1)
  BY <1>1
<1> HIDE DEF q
<1>3. q >= a
  <2> SUFFICES ASSUME ~(q >= a) PROVE FALSE
    OBVIOUS
  <2>1. a * c < c * (q + 1)
    BY <1>1, <1>2
  <2>2. q + 1 <= a
    BY <1>2
  <2>3. c * (q + 1) <= c * a
    BY <1>2, <2>2
  <2> QED
    BY <1>1, <1>2, <2>1, <2>3
<1> QED
  BY <1>2, <1>3 DEF q

(* Outside a main loop a run adds to the lengths only.                     *)
LEMMA PerfGrows ==
  ASSUME NEW pp \in PerfRecord, NEW n \in Nat, n > 0, NEW run \in Measurements
  PROVE  /\ UpdatedPerf(pp, n, run, FALSE) \in PerfRecord
         /\ UpdatedPerf(pp, n, run, FALSE).avg >= pp.avg
<1>1. /\ pp.avg \in Nat /\ pp.max \in Nat /\ pp.min \in Nat
      /\ pp.perf_counter \in CounterRecord
  BY DEF PerfRecord
<1>2. run.length \in Nat
  BY MeasurementsAssumption
<1>3. (pp.avg * n + run.length) \div n \in Nat /\ (pp.avg * n + run.length) \div n >= pp.avg
  BY <1>1, <1>2, MeanGrows
<1> QED
  BY <1>1, <1>2, <1>3 DEF UpdatedPerf, PerfRecord

(* The records and the operators of the table are those of this module.    *)
LEMMA TableRecords ==
  /\ \A s, e : Table!FreshPhase(s, e) = FreshPhase(s, e)
  /\ Table!BlankPerf = BlankPerf
  /\ \A pp, n, run, in : Table!UpdatedPerf(pp, n, run, in) = UpdatedPerf(pp, n, run, in)
  /\ \A p, s, e : Table!compare_phase(p, s, e) <=> (p.start = s /\ p.end = e)
BY DEF Table!FreshPhase, FreshPhase, Table!BlankPerf, BlankPerf, Table!UpdatedPerf,
       UpdatedPerf, Table!gr_perfctr_init_counter, gr_perfctr_init_counter,
       Table!gr_perfctr_update, gr_perfctr_update, Table!compare_phase

-----------------------------------------------------------------------------
(* The runs of one pair of call sites in the phases before h.              *)
LEMMA FinishedFacts ==
  ASSUME NEW h \in Nat, h > 0, NEW i
  PROVE  /\ IsFiniteSet(Finished(plan, h, i))
         /\ Cardinality(Finished(plan, h, i)) \in 0 .. h - 1
         /\ plan[h].start = i.start /\ plan[h].end = i.end =>
              /\ Finished(plan, h + 1, i) = Finished(plan, h, i) \cup {h}
              /\ Cardinality(Finished(plan, h + 1, i)) = Cardinality(Finished(plan, h, i)) + 1
         /\ ~(plan[h].start = i.start /\ plan[h].end = i.end) =>
              Finished(plan, h + 1, i) = Finished(plan, h, i)
<1> DEFINE F == Finished(plan, h, i)
<1>1. F \in SUBSET (1 .. h - 1) /\ h \notin F
  BY DEF Finished
<1>2. IsFiniteSet(1 .. h - 1) /\ Cardinality(1 .. h - 1) = h - 1
  <2>1. /\ IsFiniteSet(1 .. h - 1)
        /\ Cardinality(1 .. h - 1) = IF 1 > h - 1 THEN 0 ELSE h - 1 - 1 + 1
    <3>1. 1 \in Int /\ h - 1 \in Int
      OBVIOUS
    <3> QED
      BY <3>1, FS_Interval
  <2> QED
    BY <2>1
<1>3. IsFiniteSet(F) /\ Cardinality(F) <= h - 1
  BY <1>1, <1>2, FS_Subset
<1>4. Cardinality(F) \in Nat
  BY <1>3, FS_CardinalityType
<1>5. 1 .. h + 1 - 1 = 1 .. h - 1 \cup {h} /\ h \notin 1 .. h - 1
  OBVIOUS
<1>6. ASSUME plan[h].start = i.start, plan[h].end = i.end
      PROVE  Finished(plan, h + 1, i) = F \cup {h}
  BY <1>5, <1>6 DEF Finished
<1>7. ASSUME ~(plan[h].start = i.start /\ plan[h].end = i.end)
      PROVE  Finished(plan, h + 1, i) = F
  BY <1>5, <1>7 DEF Finished
<1> HIDE DEF F
<1>8. Cardinality(F \cup {h}) = Cardinality(F) + 1
  BY <1>1, <1>3, FS_AddElement
<1>9. Cardinality(F) \in 0 .. h - 1
  BY <1>3, <1>4
<1> QED
  BY <1>3, <1>6, <1>7, <1>8, <1>9 DEF F

(* What the main thread finds when everybody has returned.                 *)
LEMMA EveryoneAgrees ==
  ASSUME IInv, EveryoneOpened
  PROVE  /\ Main \in Team /\ Here \in 1 .. Rounds
         /\ plan[Here] \in [start : StartSites, end : EndSites]
         /\ current_site = plan[Here].start
         /\ new_phase <=> Known = {}
         /\ new_phase => gr_phases[gr_num_phases].start = plan[Here].start
         /\ Sited(current_phase_id)
<1>1. Main \in Team /\ \A t \in Team : pc[t] = "opened" /\ round[t] = Here
  BY DEF EveryoneOpened, Team, Here
<1>2. Here \in 1 .. Rounds
  BY <1>1, RoundsAssumption DEF IInv, ThreadInv, Locals
<1>3. \A t \in Team : ~Pending(t)
  BY <1>1 DEF Pending
<1>4. InPhase(Main) /\ "opened" \in Guessed /\ "opened" \in Published /\ "opened" \in Recorded
  BY <1>1 DEF IInv, ThreadInv, Guessed, Published, Recorded
<1>5. new_phase <=> Known = {}
  <2>1. IF Known = {} THEN new_phase ELSE new_phase => \E u \in Team : Pending(u)
    BY <1>1 DEF IInv, FlagInv
  <2> QED
    BY <1>3, <2>1
<1>6. /\ Known = {} => Sited(gr_num_phases)
      /\ Sited(current_phase_id) /\ current_site = plan[Here].start
  BY <1>1, <1>4 DEF InPhase
<1> QED
  BY <1>1, <1>2, <1>5, <1>6 DEF Sited, HasSite, IInv, Locals

(* gr_update_phase when the count of the entry does not wrap.              *)
LEMMA UpdateStores ==
  ASSUME NEW i \in 0 .. DefaultNumPhases - 1, NEW run \in Measurements,
         NEW ph \in [0 .. DefaultNumPhases - 1 -> PhaseRecord],
         NEW pf \in [0 .. DefaultNumPhases - 1 -> PerfRecord],
         ph[i].count + 1 < CountMod, is_in_mainloop = FALSE,
         Table!Update(i, ph, pf, run)
  PROVE  /\ gr_phases' = [ph EXCEPT ![i].count = ph[i].count + 1]
         /\ gr_phases_perf' =
              [pf EXCEPT ![i] = UpdatedPerf(pf[i], ph[i].count + 1, run, FALSE)]
         /\ previous_phase' = i /\ has_start_phase' = FALSE /\ status' = status
<1> DEFINE c == ph[i].count + 1
           q == UpdatedPerf(pf[i], c, run, FALSE)
<1>1. ph[i] \in PhaseRecord
  OBVIOUS
<1>2. c \in Nat /\ c > 0 /\ c % CountMod = c
  <2>1. ph[i].count \in Nat
    BY <1>1, CountModAssumption DEF PhaseRecord
  <2> QED
    BY <2>1, CountModAssumption
<1>3. Table!UpdatedPerf(pf[i], c, run, FALSE) = q
  BY TableRecords
<1>4. /\ gr_phases' = [ph EXCEPT ![i].count = c % CountMod] /\ previous_phase' = i
      /\ c % CountMod # 0 =>
           /\ gr_phases_perf' =
                [pf EXCEPT ![i] = Table!UpdatedPerf(pf[i], c % CountMod, run, FALSE)]
           /\ has_start_phase' = FALSE /\ status' = status
  BY DEF Table!Update
<1> HIDE DEF c, q
<1>5. c # 0
  BY <1>2
<1>6. gr_phases_perf' = [pf EXCEPT ![i] = q]
  BY <1>2, <1>3, <1>4, <1>5
<1>7. gr_phases' = [ph EXCEPT ![i].count = c]
  BY <1>2, <1>4
<1> QED
  BY <1>2, <1>4, <1>5, <1>6, <1>7 DEF c, q

(* What gr_phase_end does to the tables: it counts the run in the entry i  *)
(* of its pair of call sites, which is the free slot if there is no entry. *)
NewCount(i) == IF i = gr_num_phases THEN 1 ELSE gr_phases[i].count + 1
OldPerf(i)  == IF i = gr_num_phases THEN BlankPerf ELSE gr_phases_perf[i]

Stores(i, run) ==
  /\ i \in 0 .. gr_num_phases
  /\ \A j \in Entries :
       i = j <=> gr_phases[j].start = plan[Here].start /\ gr_phases[j].end = plan[Here].end
  /\ gr_phases' = [gr_phases EXCEPT ![i] =
       [start |-> plan[Here].start, end |-> plan[Here].end, count |-> NewCount(i)]]
  /\ gr_phases_perf' = [gr_phases_perf EXCEPT ![i] =
       UpdatedPerf(OldPerf(i), NewCount(i), run, FALSE)]
  /\ gr_num_phases' = IF i = gr_num_phases THEN gr_num_phases + 1 ELSE gr_num_phases
  /\ previous_phase' = i /\ has_start_phase' = FALSE

LEMMA EndStores ==
  ASSUME IInv, EveryoneOpened, NEW run \in Measurements,
         Table!gr_phase_end(plan[Here].end, run)
  PROVE  /\ \E i : Stores(i, run)
         /\ UNCHANGED <<current_phase, new_phase, current_site, is_in_mainloop,
                        gr_max_num_phases, status>>
<1> DEFINE s == plan[Here].start
           e == plan[Here].end
           P == 0 .. DefaultNumPhases - 1
           fresh == [gr_phases EXCEPT ![gr_num_phases] = [start |-> s, end |-> e, count |-> 0]]
           blank == [gr_phases_perf EXCEPT ![gr_num_phases] = BlankPerf]
<1>1. /\ Here \in 1 .. Rounds /\ s \in StartSites /\ e \in EndSites
      /\ current_site = s /\ (new_phase <=> Known = {})
      /\ new_phase => gr_phases[gr_num_phases].start = s
  BY EveryoneAgrees
<1>2. /\ gr_phases \in [P -> PhaseRecord] /\ gr_phases_perf \in [P -> PerfRecord]
      /\ gr_num_phases \in Nat /\ gr_num_phases < DefaultNumPhases
      /\ gr_max_num_phases = DefaultNumPhases /\ is_in_mainloop = FALSE
  BY DEF IInv, Arrays, Scalars
<1>3. gr_num_phases \in P /\ gr_num_phases < gr_max_num_phases
  BY <1>1, <1>2, RoundsAssumption
<1>4. /\ UNCHANGED <<current_phase, new_phase, current_site, is_in_mainloop>>
      /\ \/ Table!EndFirst(e, run) \/ Table!EndKnown(e, run) \/ Table!EndSplit(e, run)
         \/ Table!EndSplitGrown(e) \/ Table!EndSplitNoMemory(e)
  BY DEF Table!gr_phase_end
<1>5. fresh \in [P -> PhaseRecord] /\ blank \in [P -> PerfRecord]
  <2>1. [start |-> s, end |-> e, count |-> 0] \in PhaseRecord
    BY <1>1, CountModAssumption DEF PhaseRecord
  <2>2. BlankPerf \in PerfRecord
    BY BlankTypes
  <2> HIDE DEF s, e, P
  <2> QED
    BY <1>2, <2>1, <2>2
<1>6. /\ Table!FreshPhase(s, e) = [start |-> s, end |-> e, count |-> 0]
      /\ Table!BlankPerf = BlankPerf
  BY TableRecords DEF FreshPhase
<1>7. \A i : i \in Table!Matches(e) <=>
               i \in Entries /\ gr_phases[i].start = s /\ gr_phases[i].end = e
  BY <1>1, TableRecords DEF Table!Matches, Table!Registered, Entries
<1>8. ASSUME Table!Update(gr_num_phases, fresh, blank, run),
             gr_num_phases' = gr_num_phases + 1,
             \A j \in Entries : ~(gr_phases[j].start = s /\ gr_phases[j].end = e)
      PROVE  Stores(gr_num_phases, run) /\ status' = status
  <2>1. fresh[gr_num_phases] = [start |-> s, end |-> e, count |-> 0]
    BY <1>2, <1>3
  <2>2. fresh[gr_num_phases].count + 1 < CountMod
    BY <2>1, CountModAssumption
  <2>3. /\ gr_num_phases \in 0 .. DefaultNumPhases - 1 /\ is_in_mainloop = FALSE
        /\ fresh \in [0 .. DefaultNumPhases - 1 -> PhaseRecord]
        /\ blank \in [0 .. DefaultNumPhases - 1 -> PerfRecord]
        /\ fresh[gr_num_phases].count = 0 /\ blank[gr_num_phases] = BlankPerf
        /\ Table!Update(gr_num_phases, fresh, blank, run)
    BY <1>2, <1>3, <1>5, <1>8, <2>1
  <2>4. /\ gr_phases' = [fresh EXCEPT ![gr_num_phases].count = 1]
        /\ gr_phases_perf' =
             [blank EXCEPT ![gr_num_phases] = UpdatedPerf(BlankPerf, 1, run, FALSE)]
        /\ previous_phase' = gr_num_phases /\ has_start_phase' = FALSE /\ status' = status
    <3> HIDE DEF fresh, blank
    <3>1. /\ gr_phases' = [fresh EXCEPT ![gr_num_phases].count = fresh[gr_num_phases].count + 1]
          /\ gr_phases_perf' =
               [blank EXCEPT ![gr_num_phases] =
                  UpdatedPerf(blank[gr_num_phases], fresh[gr_num_phases].count + 1, run, FALSE)]
          /\ previous_phase' = gr_num_phases /\ has_start_phase' = FALSE /\ status' = status
      BY <2>2, <2>3, UpdateStores
    <3>2. fresh[gr_num_phases].count + 1 = 1
      BY <2>3
    <3> QED
      BY <2>3, <3>1, <3>2
  <2>5. /\ gr_phases' =
             [gr_phases EXCEPT ![gr_num_phases] = [start |-> s, end |-> e, count |-> 1]]
        /\ gr_phases_perf' =
             [gr_phases_perf EXCEPT ![gr_num_phases] = UpdatedPerf(BlankPerf, 1, run, FALSE)]
    BY <1>2, <1>3, <2>4
  <2>6. gr_num_phases \notin Entries /\ gr_num_phases \in 0 .. gr_num_phases
    BY <1>2 DEF Entries
  <2> QED
    BY <1>8, <2>4, <2>5, <2>6 DEF Stores, NewCount, OldPerf
<1>9. CASE Table!EndFirst(e, run)
  <2>1. /\ new_phase /\ gr_num_phases' = gr_num_phases + 1
        /\ UNCHANGED gr_max_num_phases
        /\ Table!Update(gr_num_phases,
             [gr_phases EXCEPT ![gr_num_phases] = Table!FreshPhase(gr_phases[gr_num_phases].start, e)],
             [gr_phases_perf EXCEPT ![gr_num_phases] = Table!BlankPerf], run)
    BY <1>9 DEF Table!EndFirst
  <2>2. Table!FreshPhase(gr_phases[gr_num_phases].start, e) = [start |-> s, end |-> e, count |-> 0]
    BY <1>1, <1>6, <2>1
  <2>3. Table!Update(gr_num_phases, fresh, blank, run)
    BY <1>6, <2>1, <2>2
  <2>4. \A j \in Entries : gr_phases[j].start # s
    BY <1>1, <2>1 DEF Known
  <2> QED
    BY <1>4, <1>8, <2>1, <2>3, <2>4
<1>10. CASE Table!EndSplit(e, run)
  <2>1. /\ Table!Matches(e) = {} /\ gr_num_phases' = gr_num_phases + 1
        /\ UNCHANGED gr_max_num_phases
        /\ Table!Update(gr_num_phases, fresh, blank, run)
    BY <1>1, <1>6, <1>10 DEF Table!EndSplit
  <2> QED
    BY <1>4, <1>7, <1>8, <2>1
<1>11. CASE Table!EndKnown(e, run)
  <2>1. PICK i \in Table!Registered :
          Table!Located(i, e) /\ Table!Update(i, gr_phases, gr_phases_perf, run)
    BY <1>11 DEF Table!EndKnown
  <2>2. UNCHANGED <<gr_num_phases, gr_max_num_phases>>
    BY <1>11 DEF Table!EndKnown
  <2>3. i \in Entries /\ gr_phases[i].start = s /\ gr_phases[i].end = e
    <3>1. i \in Entries
      BY <2>1 DEF Table!Registered, Entries
    <3>2. \/ i = current_phase /\ Table!compare_phase(gr_phases[current_phase], current_site, e)
          \/ i \in Table!Matches(e)
      BY <2>1 DEF Table!Located
    <3> QED
      BY <1>1, <1>7, <3>1, <3>2, TableRecords
  <2>4. i \in P /\ i # gr_num_phases /\ i \in 0 .. gr_num_phases
    BY <1>2, <1>3, <2>3, RoundsAssumption DEF Entries
  <2>5. gr_phases[i].count + 1 < CountMod
    <3>1. gr_phases[i].count = Cardinality(Finished(plan, Here, gr_phases[i]))
      BY <2>3 DEF IInv, HistoryInv
    <3>2. Cardinality(Finished(plan, Here, gr_phases[i])) \in 0 .. Here - 1
      BY <1>1, FinishedFacts
    <3> QED
      BY <1>1, <3>1, <3>2, RoundsAssumption, CountModAssumption
  <2>6. /\ gr_phases' = [gr_phases EXCEPT ![i].count = gr_phases[i].count + 1]
        /\ gr_phases_perf' = [gr_phases_perf EXCEPT ![i] =
             UpdatedPerf(gr_phases_perf[i], gr_phases[i].count + 1, run, FALSE)]
        /\ previous_phase' = i /\ has_start_phase' = FALSE /\ status' = status
    BY <1>2, <2>1, <2>4, <2>5, UpdateStores
  <2>7. gr_phases' = [gr_phases EXCEPT ![i] =
                        [start |-> s, end |-> e, count |-> gr_phases[i].count + 1]]
    <3>1. gr_phases[i] \in PhaseRecord
      BY <1>2, <2>4
    <3>2. [gr_phases[i] EXCEPT !.count = gr_phases[i].count + 1]
            = [start |-> s, end |-> e, count |-> gr_phases[i].count + 1]
      BY <2>3, <3>1 DEF PhaseRecord
    <3>3. gr_phases' = [gr_phases EXCEPT ![i] =
                          [gr_phases[i] EXCEPT !.count = gr_phases[i].count + 1]]
      BY <1>2, <2>4, <2>6
    <3> QED
      BY <3>2, <3>3
  <2>8. \A j \in Entries : i = j <=> gr_phases[j].start = s /\ gr_phases[j].end = e
    BY <2>3 DEF IInv, HistoryInv
  <2>9. Stores(i, run)
    BY <2>2, <2>4, <2>6, <2>7, <2>8 DEF Stores, NewCount, OldPerf
  <2> QED
    BY <1>4, <2>2, <2>6, <2>9
<1>12. ~(Table!EndSplitGrown(e) \/ Table!EndSplitNoMemory(e))
  BY <1>2, <1>3 DEF Table!EndSplitGrown, Table!EndSplitNoMemory
<1> HIDE DEF fresh, blank
<1> QED
  BY <1>4, <1>9, <1>10, <1>11, <1>12

(* The history grows by the phase that ends.                               *)
LEMMA EndKeepsHistory ==
  ASSUME IInv, EveryoneOpened, NEW i, NEW run, Stores(i, run), plan' = plan, Here' = Here + 1
  PROVE  HistoryInv'
<1> DEFINE s == plan[Here].start
           e == plan[Here].end
           F(j) == Finished(plan, Here, gr_phases[j])
           G(j) == Finished(plan, Here + 1, gr_phases'[j])
<1>1. /\ Here \in Nat /\ Here > 0 /\ Here \in 1 .. Rounds /\ gr_num_phases \in Nat
      /\ gr_num_phases < DefaultNumPhases /\ gr_phases \in [0 .. DefaultNumPhases - 1 -> PhaseRecord]
  BY EveryoneAgrees DEF IInv, Arrays
<1>2. /\ i \in 0 .. gr_num_phases
      /\ \A j \in Entries : i = j <=> gr_phases[j].start = s /\ gr_phases[j].end = e
      /\ gr_phases' = [gr_phases EXCEPT ![i] =
           [start |-> s, end |-> e,
            count |-> IF i = gr_num_phases THEN 1 ELSE gr_phases[i].count + 1]]
      /\ gr_num_phases' = IF i = gr_num_phases THEN gr_num_phases + 1 ELSE gr_num_phases
  BY DEF Stores, NewCount
<1>3. /\ Entries' = Entries \cup {i}
      /\ \A j \in Entries \cup {i} : j \in 0 .. DefaultNumPhases - 1
      /\ i \in Entries <=> i # gr_num_phases
  BY <1>1, <1>2, RoundsAssumption DEF Entries
<1>4. /\ gr_phases'[i].start = s /\ gr_phases'[i].end = e
      /\ gr_phases'[i].count = IF i = gr_num_phases THEN 1 ELSE gr_phases[i].count + 1
      /\ \A j \in Entries : j # i => gr_phases'[j] = gr_phases[j]
      /\ \A j \in Entries : gr_phases'[j].start = gr_phases[j].start
                            /\ gr_phases'[j].end = gr_phases[j].end
  BY <1>1, <1>2, <1>3
<1>5. /\ \A j \in Entries : F(j) # {} /\ gr_phases[j].count = Cardinality(F(j))
      /\ \A r \in 1 .. Here - 1 : \E j \in Entries : r \in F(j)
      /\ \A j, k \in Entries :
           gr_phases[j].start = gr_phases[k].start /\ gr_phases[j].end = gr_phases[k].end => j = k
  BY DEF IInv, HistoryInv
<1>6. G(i) # {} /\ gr_phases'[i].count = Cardinality(G(i)) /\ Here \in G(i)
  <2> DEFINE H == Finished(plan, Here, gr_phases'[i])
  <2>1. /\ IsFiniteSet(H) /\ G(i) = H \cup {Here} /\ Cardinality(G(i)) = Cardinality(H) + 1
    BY <1>1, <1>4, FinishedFacts
  <2>2. CASE i \in Entries
    <3>1. H = F(i)
      BY <1>4, <2>2 DEF Finished
    <3> QED
      BY <1>3, <1>4, <1>5, <2>1, <2>2, <3>1
  <2>3. CASE i \notin Entries
    <3>1. H = {}
      <4> SUFFICES ASSUME NEW r \in H PROVE FALSE
        OBVIOUS
      <4>1. r \in 1 .. Here - 1 /\ plan[r].start = s /\ plan[r].end = e
        BY <1>4 DEF Finished
      <4>2. PICK j \in Entries : r \in F(j)
        BY <1>5, <4>1
      <4>3. gr_phases[j].start = s /\ gr_phases[j].end = e
        BY <4>1, <4>2 DEF Finished
      <4> QED
        BY <1>2, <2>3, <4>2, <4>3
    <3>2. Cardinality(H) = 0
      BY <3>1, FS_EmptySet
    <3>3. Cardinality(G(i)) = 1
      BY <2>1, <3>2
    <3> QED
      BY <1>3, <1>4, <2>1, <2>3, <3>3
  <2> QED
    BY <2>2, <2>3
<1>7. ASSUME NEW j \in Entries, j # i
      PROVE  G(j) = F(j)
  <2>1. ~(plan[Here].start = gr_phases[j].start /\ plan[Here].end = gr_phases[j].end)
    BY <1>2, <1>7
  <2>2. gr_phases'[j] = gr_phases[j]
    BY <1>4, <1>7
  <2> QED
    BY <1>1, <2>1, <2>2, FinishedFacts
<1>8. \A j \in Entries \cup {i} :
        G(j) # {} /\ gr_phases'[j].count = Cardinality(G(j))
  BY <1>4, <1>5, <1>6, <1>7
<1>9. \A r \in 1 .. Here + 1 - 1 : \E j \in Entries \cup {i} : r \in G(j)
  <2> SUFFICES ASSUME NEW r \in 1 .. Here + 1 - 1
               PROVE  \E j \in Entries \cup {i} : r \in G(j)
    OBVIOUS
  <2>1. CASE r = Here
    BY <1>6, <2>1
  <2>2. CASE r # Here
    <3>1. r \in 1 .. Here - 1
      BY <1>1, <2>2
    <3>2. PICK j \in Entries : r \in F(j)
      BY <1>5, <3>1
    <3>3. r \in G(j)
      BY <1>1, <1>4, <3>1, <3>2 DEF Finished
    <3> QED
      BY <3>3
  <2> QED
    BY <2>1, <2>2
<1>10. \A j, k \in Entries \cup {i} :
         gr_phases'[j].start = gr_phases'[k].start /\ gr_phases'[j].end = gr_phases'[k].end
           => j = k
  <2> HIDE DEF s, e, F, G
  <2> QED
    BY <1>2, <1>4, <1>5
<1>11. /\ \A j \in Entries' : /\ Finished(plan', Here', gr_phases'[j]) # {}
                              /\ gr_phases'[j].count = Cardinality(Finished(plan', Here', gr_phases'[j]))
       /\ \A r \in 1 .. Here' - 1 : \E j \in Entries' : r \in Finished(plan', Here', gr_phases'[j])
  <2>1. /\ \A j : Finished(plan', Here', gr_phases'[j]) = G(j)
        /\ Entries' = Entries \cup {i} /\ Here' = Here + 1
    BY <1>3
  <2> HIDE DEF s, e, F, G
  <2>2. ASSUME NEW j \in Entries'
        PROVE  /\ Finished(plan', Here', gr_phases'[j]) # {}
               /\ gr_phases'[j].count = Cardinality(Finished(plan', Here', gr_phases'[j]))
    BY <1>8, <2>1, Zenon
  <2>3. ASSUME NEW r \in 1 .. Here' - 1
        PROVE  \E j \in Entries' : r \in Finished(plan', Here', gr_phases'[j])
    <3>1. r \in 1 .. Here + 1 - 1
      BY <1>1, <2>1
    <3> QED
      BY <1>9, <2>1, <3>1, Zenon
  <2> QED
    BY <2>2, <2>3
<1> HIDE DEF s, e, F, G
<1> QED
  BY <1>3, <1>10, <1>11 DEF HistoryInv

(* A count is of phases before this one, and does not wrap.                *)
LEMMA NewCountFits ==
  ASSUME IInv, EveryoneOpened, NEW i \in 0 .. gr_num_phases
  PROVE  /\ NewCount(i) \in 1 .. CountMod - 1 /\ NewCount(i) \in 0 .. CountMod - 1
         /\ NewCount(i) \in Nat /\ NewCount(i) > 0
<1>1. Here \in 1 .. Rounds /\ gr_num_phases \in Nat
  BY EveryoneAgrees DEF IInv, Arrays
<1>2. CASE i = gr_num_phases
  BY <1>2, CountModAssumption DEF NewCount
<1>3. CASE i # gr_num_phases
  <2>1. i \in Entries
    BY <1>1, <1>3 DEF Entries
  <2>2. gr_phases[i].count = Cardinality(Finished(plan, Here, gr_phases[i]))
    BY <2>1 DEF IInv, HistoryInv
  <2>3. Cardinality(Finished(plan, Here, gr_phases[i])) \in 0 .. Here - 1
    BY <1>1, FinishedFacts
  <2> QED
    BY <1>1, <1>3, <2>2, <2>3, RoundsAssumption, CountModAssumption DEF NewCount
<1> QED
  BY <1>2, <1>3

LEMMA MoreEntries ==
  ASSUME NEW m \in Nat, NEW n \in Nat, m <= n
  PROVE  \A k \in 0 .. m - 1 : k \in 0 .. n - 1
<1> SUFFICES ASSUME NEW k \in 0 .. m - 1 PROVE k \in 0 .. n - 1
  OBVIOUS
<1>1. k \in Int /\ 0 <= k /\ k <= m - 1 /\ m - 1 <= n - 1
  OBVIOUS
<1> QED
  BY <1>1

(* Different entries are different pairs of call sites of the plan, so     *)
(* that a plan that fits the table leaves a slot free.                     *)
LEMMA EntriesFit ==
  ASSUME FitsTable(plan), plan \in [1 .. Rounds -> [start : StartSites, end : EndSites]],
         NEW n \in Nat, NEW p, NEW h \in 1 .. Rounds + 1,
         \A i \in 0 .. n - 1 : Finished(plan, h, p[i]) # {},
         \A i, j \in 0 .. n - 1 : p[i].start = p[j].start /\ p[i].end = p[j].end => i = j
  PROVE  n < DefaultNumPhases
<1> DEFINE P == {plan[r] : r \in 1 .. Rounds}
           run == [i \in 0 .. n - 1 |-> CHOOSE r : r \in Finished(plan, h, p[i])]
           f == [i \in 0 .. n - 1 |-> plan[run[i]]]
<1>1. IsFiniteSet(P) /\ Cardinality(P) \in Nat
  <2>1. plan \in Surjection(1 .. Rounds, P)
    BY DEF Surjection
  <2>2. IsFiniteSet(1 .. Rounds)
    BY RoundsAssumption, FS_Interval
  <2>3. IsFiniteSet(P)
    BY <2>1, <2>2, FS_Surjection
  <2> QED
    BY <2>3, FS_CardinalityType
<1>2. \A i \in 0 .. n - 1 : /\ run[i] \in 1 .. Rounds
                            /\ plan[run[i]].start = p[i].start /\ plan[run[i]].end = p[i].end
  <2> SUFFICES ASSUME NEW i \in 0 .. n - 1
               PROVE  /\ run[i] \in 1 .. Rounds
                      /\ plan[run[i]].start = p[i].start /\ plan[run[i]].end = p[i].end
    OBVIOUS
  <2>1. run[i] \in Finished(plan, h, p[i])
    OBVIOUS
  <2> HIDE DEF run
  <2> QED
    BY <2>1, RoundsAssumption DEF Finished
<1> HIDE DEF run
<1>3. f \in [0 .. n - 1 -> P] /\ \A i, j \in 0 .. n - 1 : f[i] = f[j] => i = j
  BY <1>2
<1>4. f \in Injection(0 .. n - 1, P)
  BY <1>3 DEF Injection, IsInjective
<1> HIDE DEF f, P
<1>5. Cardinality(0 .. n - 1) <= Cardinality(P)
  BY <1>1, <1>4, FS_Injection
<1>6. Cardinality(0 .. n - 1) = n
  <2>1. Cardinality(0 .. n - 1) = IF 0 > n - 1 THEN 0 ELSE n - 1 - 0 + 1
    <3>1. 0 \in Int /\ n - 1 \in Int
      OBVIOUS
    <3> QED
      BY <3>1, FS_Interval
  <2> QED
    BY <2>1
<1>7. Cardinality(P) < DefaultNumPhases
  BY DEF FitsTable, P
<1> QED
  BY <1>1, <1>5, <1>6, <1>7, RoundsAssumption

LEMMA EndKeeps ==
  ASSUME ForkJoin, IInv, End
  PROVE  IInv'
<1>1. /\ EveryoneOpened
      /\ pc[Main] = "opened" /\ pc' = [pc EXCEPT ![Main] = "out"]
      /\ round' = [round EXCEPT ![Main] = round[Main] + 1]
      /\ should_run' = [should_run EXCEPT ![Main] = FALSE]
      /\ UNCHANGED <<idx, plan, current_phase_id>> /\ is_resumed' = FALSE
  BY DEF End, NextRound, Goto
<1>2. PICK run \in Measurements : Table!gr_phase_end(plan[Here].end, run)
  BY DEF End, Here
<1>3. /\ Main \in Team /\ Here \in 1 .. Rounds
      /\ round \in [Team -> 1 .. Rounds + 1] /\ pc \in [Team -> Labels]
      /\ should_run \in [Team -> BOOLEAN] /\ idx \in [Team -> 0 .. gr_num_phases]
      /\ \A t \in Team : pc[t] = "opened" /\ round[t] = Here
  BY <1>1, EveryoneAgrees DEF IInv, Locals, EveryoneOpened, Here
<1>4. Here' = Here + 1 /\ plan' = plan
  BY <1>1, <1>3 DEF Here
<1>5. PICK i : Stores(i, run)
  BY <1>1, <1>2, EndStores
<1>6. UNCHANGED <<current_phase, new_phase, current_site, is_in_mainloop,
                  gr_max_num_phases, status>>
  BY <1>1, <1>2, EndStores
<1>7. /\ gr_phases \in [0 .. DefaultNumPhases - 1 -> PhaseRecord]
      /\ gr_phases_perf \in [0 .. DefaultNumPhases - 1 -> PerfRecord]
      /\ gr_num_phases \in Nat /\ gr_num_phases < DefaultNumPhases
      /\ gr_max_num_phases = DefaultNumPhases
      /\ \A j \in gr_num_phases .. DefaultNumPhases - 1 : gr_phases_perf[j].avg = 0
  BY DEF IInv, Arrays
<1>8. /\ i \in 0 .. gr_num_phases /\ i \in 0 .. DefaultNumPhases - 1
      /\ gr_num_phases' \in Nat /\ gr_num_phases' < DefaultNumPhases
      /\ gr_num_phases <= gr_num_phases' /\ i < gr_num_phases'
  <2>1. /\ i \in 0 .. gr_num_phases /\ i \in 0 .. DefaultNumPhases - 1
        /\ gr_num_phases' \in Nat
        /\ gr_num_phases <= gr_num_phases' /\ i < gr_num_phases'
    BY <1>7, <1>5, RoundsAssumption DEF Stores
  <2>2. HistoryInv'
    BY <1>1, <1>4, <1>5, EndKeepsHistory
  <2>3. /\ \A j \in 0 .. gr_num_phases' - 1 : Finished(plan, Here + 1, gr_phases'[j]) # {}
        /\ \A j, k \in 0 .. gr_num_phases' - 1 :
             gr_phases'[j].start = gr_phases'[k].start /\ gr_phases'[j].end = gr_phases'[k].end
             => j = k
    BY <1>4, <2>2 DEF HistoryInv, Entries
  <2>4. Here + 1 \in 1 .. Rounds + 1
    BY <1>3, RoundsAssumption
  <2>5. FitsTable(plan) /\ plan \in [1 .. Rounds -> [start : StartSites, end : EndSites]]
    BY DEF IInv, Locals
  <2>6. gr_num_phases' < DefaultNumPhases
    BY <2>1, <2>3, <2>4, <2>5, EntriesFit
  <2> QED
    BY <2>1, <2>6
<1>9. \A j \in Entries : i = j <=> gr_phases[j].start = plan[Here].start /\ gr_phases[j].end = plan[Here].end
  BY <1>5 DEF Stores
<1>10. /\ gr_phases' \in [0 .. DefaultNumPhases - 1 -> PhaseRecord]
       /\ \A j \in Entries : gr_phases'[j].start = gr_phases[j].start
  <2> DEFINE c == NewCount(i)
             row == [start |-> plan[Here].start, end |-> plan[Here].end, count |-> c]
  <2>1. gr_phases' = [gr_phases EXCEPT ![i] = row]
    BY <1>5 DEF Stores
  <2>2. c \in 0 .. CountMod - 1
    BY <1>1, <1>8, NewCountFits
  <2>3. plan[Here] \in [start : StartSites, end : EndSites]
    BY <1>1, EveryoneAgrees
  <2>4. row \in PhaseRecord
    BY <2>2, <2>3 DEF PhaseRecord
  <2>5. row.start = plan[Here].start
    OBVIOUS
  <2> HIDE DEF row
  <2>6. \A j \in Entries : j \in 0 .. DefaultNumPhases - 1
    BY <1>3, <1>7, RoundsAssumption DEF Entries
  <2>7. \A j \in Entries : gr_phases'[j] = IF j = i THEN row ELSE gr_phases[j]
    BY <1>7, <2>1, <2>6
  <2> QED
    BY <1>7, <1>8, <1>9, <2>1, <2>4, <2>5, <2>7
<1>11. /\ gr_phases_perf' \in [0 .. DefaultNumPhases - 1 -> PerfRecord]
       /\ \A j \in gr_num_phases' .. DefaultNumPhases - 1 : gr_phases_perf'[j].avg = 0
       /\ \A j \in Entries : gr_phases_perf'[j].avg >= gr_phases_perf[j].avg
  <2>1. PICK q \in PerfRecord : /\ i # gr_num_phases => q.avg >= gr_phases_perf[i].avg
                                /\ gr_phases_perf' = [gr_phases_perf EXCEPT ![i] = q]
    <3> DEFINE q == UpdatedPerf(OldPerf(i), NewCount(i), run, FALSE)
    <3>1. gr_phases_perf' = [gr_phases_perf EXCEPT ![i] = q]
      BY <1>5 DEF Stores
    <3>2. OldPerf(i) \in PerfRecord /\ (i # gr_num_phases => OldPerf(i) = gr_phases_perf[i])
      BY <1>7, <1>8, BlankTypes DEF OldPerf
    <3>3. q \in PerfRecord /\ q.avg >= OldPerf(i).avg
      BY <1>1, <1>2, <1>8, <3>2, NewCountFits, PerfGrows
    <3> HIDE DEF q
    <3> QED
      BY <3>1, <3>2, <3>3
  <2>2. gr_phases_perf' \in [0 .. DefaultNumPhases - 1 -> PerfRecord]
    BY <1>7, <2>1
  <2>3. ASSUME NEW j \in gr_num_phases' .. DefaultNumPhases - 1
        PROVE  gr_phases_perf'[j].avg = 0
    <3>1. j # i /\ j \in gr_num_phases .. DefaultNumPhases - 1 /\ j \in 0 .. DefaultNumPhases - 1
      BY <1>7, <1>8, RoundsAssumption
    <3> QED
      BY <1>7, <2>1, <3>1
  <2>4. ASSUME NEW j \in Entries
        PROVE  gr_phases_perf'[j].avg >= gr_phases_perf[j].avg
    <3>1. j \in 0 .. DefaultNumPhases - 1 /\ j # gr_num_phases
      BY <1>3, <1>7, RoundsAssumption DEF Entries
    <3>2. gr_phases_perf[j].avg \in Nat
      BY <1>7, <3>1 DEF PerfRecord
    <3> QED
      BY <1>7, <2>1, <3>1, <3>2
  <2> QED
    BY <2>2, <2>3, <2>4
<1>12. Arrays'
  BY <1>4, <1>6, <1>7, <1>8, <1>10, <1>11 DEF Arrays
<1>13. Scalars'
  <2>1. previous_phase' = i /\ has_start_phase' = FALSE
    BY <1>5 DEF Stores
  <2>2. previous_phase' \in Int /\ has_start_phase' \in BOOLEAN
    <3>1. i \in Int
      BY <1>7, <1>8
    <3> QED
      BY <2>1, <3>1
  <2> QED
    BY <1>1, <1>6, <2>2 DEF IInv, Scalars
<1>14. Locals'
  <2>1. round' \in [Team -> 1 .. Rounds + 1]
    BY <1>1, <1>3, RoundsAssumption DEF Here
  <2>2. pc' \in [Team -> Labels] /\ should_run' \in [Team -> BOOLEAN]
    BY <1>1, <1>3 DEF Labels
  <2>3. idx' \in [Team -> 0 .. gr_num_phases']
    BY <1>1, <1>3, <1>7, <1>8
  <2> QED
    BY <1>4, <2>1, <2>2, <2>3 DEF IInv, Locals
<1>15. HistoryInv'
  BY <1>1, <1>4, <1>5, EndKeepsHistory
<1>16. /\ pc'[Main] = "out" /\ round'[Main] = Here + 1 /\ Here \in Nat
       /\ \A t \in Team : t # Main => /\ pc'[t] = "opened" /\ round'[t] = Here
                                      /\ should_run'[t] = should_run[t]
  BY <1>1, <1>3 DEF Here
<1>17. FlagInv'
  BY <1>4, <1>16 DEF FlagInv
<1>18. \A k \in 0 .. gr_num_phases - 1 : k \in 0 .. gr_num_phases' - 1
  <2>1. gr_num_phases \in Nat /\ gr_num_phases' \in Nat /\ gr_num_phases <= gr_num_phases'
    BY <1>7, <1>8
  <2> QED
    BY <2>1, MoreEntries
<1>19. ASSUME NEW t \in Team
       PROVE  /\ pc'[t] # "out" => round'[t] <= Rounds
              /\ round'[t] = Here' \/ (t # Main /\ pc'[t] = "opened" /\ round'[t] = Here' - 1)
              /\ round'[t] = Here' => InPhase(t)'
              /\ pc'[t] \in Published /\ should_run'[t] =>
                   LongPhase(gr_num_phases', gr_phases', gr_phases_perf', plan[round'[t]].start)
  <2>1. CASE t = Main
    <3>1. pc'[t] = "out"
      BY <1>16, <2>1
    <3>2. "out" \notin Guessed \cup Published \cup Recorded
      BY DEF Guessed, Published, Recorded
    <3>3. InPhase(t)'
      BY <3>1, <3>2 DEF InPhase, HasGuess
    <3> QED
      BY <1>4, <1>16, <2>1, <3>1, <3>2, <3>3
  <2>2. CASE t # Main
    <3>1. pc'[t] = "opened" /\ round'[t] = Here /\ should_run'[t] = should_run[t]
      BY <1>16, <2>2
    <3>2. round'[t] # Here' /\ round'[t] = Here' - 1 /\ round'[t] <= Rounds
      BY <1>3, <1>4, <1>16, <3>1
    <3>3. ASSUME should_run[t]
          PROVE  LongPhase(gr_num_phases', gr_phases', gr_phases_perf', plan[Here].start)
      <4>1. LongPhase(gr_num_phases, gr_phases, gr_phases_perf, plan[Here].start)
        <5>1. pc[t] \in Published /\ round[t] = Here
          BY <1>3 DEF Published, Guessed
        <5> QED
          BY <3>3, <5>1 DEF IInv, ThreadInv
      <4>2. PICK j \in Entries : /\ gr_phases[j].start = plan[Here].start
                                 /\ gr_phases_perf[j].avg >= MinPhaseLength
        BY <4>1 DEF LongPhase, Entries
      <4>3. /\ gr_phases_perf[j].avg \in Nat /\ gr_phases_perf'[j].avg \in Nat
            /\ j \in 0 .. gr_num_phases' - 1
        <5>1. /\ j \in 0 .. gr_num_phases - 1 /\ gr_num_phases < DefaultNumPhases
              /\ DefaultNumPhases \in Nat
          BY <1>3, <1>7, <4>2, RoundsAssumption DEF Entries
        <5>2. j \in 0 .. DefaultNumPhases - 1
          BY <1>7, <5>1
        <5>3. j \in 0 .. gr_num_phases' - 1
          BY <1>18, <5>1, Zenon
        <5> QED
          BY <1>7, <1>11, <5>2, <5>3 DEF PerfRecord
      <4>4. gr_phases_perf'[j].avg >= MinPhaseLength
        BY <1>11, <4>2, <4>3, LengthAssumption
      <4> QED
        BY <1>10, <4>2, <4>3, <4>4 DEF LongPhase
    <3> QED
      BY <2>2, <3>1, <3>2, <3>3
  <2> QED
    BY <2>1, <2>2
<1>20. ThreadInv'
  BY <1>4, <1>19 DEF ThreadInv
<1> QED
  BY <1>12, <1>13, <1>14, <1>15, <1>17, <1>20 DEF IInv

-----------------------------------------------------------------------------
LEMMA NextKeeps ==
  ASSUME ForkJoin, IInv, [Next]_vars
  PROVE  IInv'
<1>1. ASSUME UNCHANGED vars
      PROVE  IInv'
  <2>1. /\ UNCHANGED <<gr_phases, gr_phases_perf, gr_num_phases, gr_max_num_phases,
                       previous_phase, current_phase, new_phase, current_site,
                       has_start_phase, is_in_mainloop, status, current_phase_id,
                       is_resumed, plan, round, pc, idx, should_run>>
        /\ Here' = Here /\ Known' = Known /\ Entries' = Entries
    BY <1>1 DEF vars, tracker, Here, Known, Entries
  <2>2. Arrays' /\ Scalars' /\ Locals'
    BY <2>1 DEF IInv, Arrays, Scalars, Locals
  <2>3. HistoryInv'
    BY <2>1 DEF IInv, HistoryInv
  <2>4. FlagInv'
    BY <2>1 DEF IInv, FlagInv, Pending
  <2>5. \A t : InPhase(t)' <=> InPhase(t)
    BY <2>1 DEF InPhase, HasGuess, Sited, HasSite
  <2>6. ThreadInv'
    BY <2>1, <2>5 DEF IInv, ThreadInv
  <2> QED
    BY <2>2, <2>3, <2>4, <2>6 DEF IInv
<1>2. ASSUME NEW t \in Team, Find(t) \/ Record(t)
      PROVE  IInv'
  BY <1>2, EnterKeeps, SkipKeeps, CandidateKeeps, ClearKeeps, ScanDoneKeeps, ClaimKeeps,
     GuessKeeps, PredictKeeps, RestKeeps DEF Find
<1>3. ASSUME NEW t \in Workers, Resume(t) \/ WorkerEnd(t)
      PROVE  IInv'
  <2>1. t \in Team
    BY DEF Team
  <2> QED
    BY <1>3, <2>1, RestKeeps, WorkerEndKeeps
<1>4. CASE Mark
  <2>1. Main \in Team
    BY DEF Team
  <2> QED
    BY <1>4, <2>1, RestKeeps
<1>5. CASE End
  BY <1>5, EndKeeps
<1>6. CASE Done
  BY <1>1, <1>6 DEF Done
<1> QED
  BY <1>1, <1>2, <1>3, <1>4, <1>5, <1>6 DEF Next

(***************************************************************************)
(* The inductive invariant holds in every fork-join run: gr_phase_start of *)
(* any number of threads, interleaved in any way, with gr_phase_end of the *)
(* main thread.                                                            *)
(***************************************************************************)
THEOREM IInvHolds ==
  ASSUME ForkJoin
  PROVE  Spec => []IInv
<1>1. Init => IInv
  BY InitIInv
<1>2. IInv /\ [Next]_vars => IInv'
  BY NextKeeps
<1> QED
  BY <1>1, <1>2, PTL DEF Spec

(***************************************************************************)
(* The shared variables keep their types, the published guess is a slot of *)
(* the table, and no loop of gr_find_phase runs behind it.                 *)
(***************************************************************************)
THEOREM TypeCorrect ==
  ASSUME ForkJoin
  PROVE  Spec => []TypeOK
<1>1. ASSUME IInv
      PROVE  TypeOK
  <2>1. /\ Main \in Team /\ round[Main] \in 1 .. Rounds + 1 /\ gr_num_phases \in Nat
        /\ gr_num_phases < DefaultNumPhases /\ DefaultNumPhases \in Nat
    BY <1>1, RoundsAssumption DEF IInv, Locals, Arrays, Team, Here
  <2>2. gr_num_phases <= DefaultNumPhases
    BY <2>1, RoundsAssumption
  <2>3. Table!TypeOK
    BY <1>1, <2>1, <2>2
    DEF IInv, Arrays, Scalars, Table!TypeOK, Table!SlotsOf, Table!Status, PhaseRecord,
        PerfRecord, CounterRecord, Table!PhaseRecord, Table!PerfRecord, Table!CounterRecord
  <2>4. current_phase_id \in 0 .. gr_max_num_phases - 1 /\ is_resumed \in BOOLEAN
    BY <1>1 DEF IInv, Arrays, Scalars
  <2>5. idx \in [Team -> 0 .. DefaultNumPhases]
    <3>1. \A n \in 0 .. gr_num_phases : n \in 0 .. DefaultNumPhases
      BY <2>1, <2>2
    <3> QED
      BY <1>1, <3>1 DEF IInv, Locals
  <2> QED
    BY <1>1, <2>3, <2>4, <2>5 DEF TypeOK, IInv, Locals
<1> QED
  BY <1>1, IInvHolds, PTL

(* An entry counts the runs of its pair of call sites.                     *)
LEMMA RowOfRun ==
  ASSUME IInv, NEW i \in Entries, NEW r \in Completed,
         r \in Finished(plan, Here, gr_phases[i])
  PROVE  gr_phases[i] = [start |-> plan[r].start, end |-> plan[r].end, count |-> Runs(plan[r])]
<1>1. /\ gr_phases[i] \in PhaseRecord
      /\ gr_phases[i].start = plan[r].start /\ gr_phases[i].end = plan[r].end
      /\ gr_phases[i].count = Cardinality(Finished(plan, Here, gr_phases[i]))
  <2>1. i \in 0 .. DefaultNumPhases - 1
    BY RoundsAssumption DEF IInv, Arrays, Locals, Team, Here, Entries
  <2>2. gr_phases[i] \in PhaseRecord
    BY <2>1 DEF IInv, Arrays
  <2> QED
    BY <2>2 DEF IInv, HistoryInv, Finished
<1>2. Finished(plan, Here, gr_phases[i]) = {q \in Completed : plan[q] = plan[r]}
  <2>1. \A q \in Completed : plan[q] \in [start : StartSites, end : EndSites]
    BY RoundsAssumption DEF IInv, Locals, Team, Completed
  <2>2. \A q \in Completed :
          plan[q] = plan[r] <=> plan[q].start = plan[r].start /\ plan[q].end = plan[r].end
    BY <2>1
  <2>3. Completed = 1 .. Here - 1
    BY DEF Completed, Here
  <2> QED
    BY <1>1, <2>2, <2>3 DEF Finished
<1>3. gr_phases[i].count = Runs(plan[r])
  BY <1>1, <1>2 DEF Runs
<1> QED
  BY <1>1, <1>3 DEF PhaseRecord

(***************************************************************************)
(* "Precisely find a phase or allocate one if not found" (gr_get_phase):   *)
(* with any number of threads in gr_phase_start, the table has one entry   *)
(* for each pair of call sites that the main thread has completed, with    *)
(* the number of its runs, and no other.                                   *)
(***************************************************************************)
THEOREM TableIsHistory ==
  ASSUME ForkJoin
  PROVE  Spec => []TableIsHistoryOfPlan
<1>1. ASSUME IInv
      PROVE  TableIsHistoryOfPlan
  <2> DEFINE rows == {gr_phases[i] : i \in Entries}
             Row(r) == [start |-> plan[r].start, end |-> plan[r].end, count |-> Runs(plan[r])]
             f == [i \in Entries |-> gr_phases[i]]
  <2>1. /\ \A i \in Entries : Finished(plan, Here, gr_phases[i]) # {}
        /\ \A r \in Completed : \E i \in Entries : r \in Finished(plan, Here, gr_phases[i])
        /\ \A i, j \in Entries :
             gr_phases[i].start = gr_phases[j].start /\ gr_phases[i].end = gr_phases[j].end => i = j
    BY <1>1 DEF IInv, HistoryInv, Completed, Here
  <2>2. ASSUME NEW i \in Entries
        PROVE  \E r \in Completed : gr_phases[i] = Row(r)
    <3>1. PICK r : r \in Finished(plan, Here, gr_phases[i])
      BY <2>1
    <3>2. r \in Completed
      BY <3>1 DEF Finished, Completed, Here
    <3> QED
      BY <1>1, <3>1, <3>2, RowOfRun
  <2>3. ASSUME NEW r \in Completed
        PROVE  \E i \in Entries : gr_phases[i] = Row(r)
    BY <1>1, <2>1, RowOfRun
  <2> HIDE DEF Row
  <2>4. rows = {Row(r) : r \in Completed}
    BY <2>2, <2>3
  <2>5. Cardinality(rows) = gr_num_phases
    <3>1. f \in Bijection(Entries, rows)
      <4>1. f \in [Entries -> rows] /\ \A y \in rows : \E i \in Entries : f[i] = y
        OBVIOUS
      <4>2. \A i, j \in Entries : f[i] = f[j] => i = j
        BY <2>1
      <4> QED
        BY <4>1, <4>2 DEF Bijection, Injection, Surjection, IsInjective
    <3>2. IsFiniteSet(Entries) /\ Cardinality(Entries) = gr_num_phases
      <4>1. gr_num_phases \in Nat
        BY <1>1 DEF IInv, Arrays
      <4>2. 0 \in Int /\ gr_num_phases - 1 \in Int
        BY <4>1
      <4>3. /\ IsFiniteSet(Entries)
            /\ Cardinality(Entries) =
                 IF 0 > gr_num_phases - 1 THEN 0 ELSE gr_num_phases - 1 - 0 + 1
        BY <4>2, FS_Interval DEF Entries
      <4> QED
        BY <4>1, <4>3
    <3> QED
      BY <3>1, <3>2, FS_Bijection DEF ExistsBijection
  <2>6. Table!Registered = Entries
    BY DEF Table!Registered, Entries
  <2> QED
    BY <2>4, <2>5, <2>6 DEF TableIsHistoryOfPlan, Row
<1> QED
  BY <1>1, IInvHolds, PTL

(***************************************************************************)
(* What gr_get_phase trusts when the main thread calls gr_phase_end: the   *)
(* start site, the new_phase flag and the free slot are those of the main  *)
(* thread's phase, whichever thread wrote them. The guess published in an  *)
(* open phase, which late workers go on writing, starts where it does.     *)
(***************************************************************************)
THEOREM EndSeesItsStart ==
  ASSUME ForkJoin
  PROVE  Spec => []EndSeesItsOwnStart
<1>1. ASSUME IInv, ReadyToEnd
      PROVE  /\ current_site = Site(Main)
             /\ new_phase <=> Table!Candidates(current_site) = {}
             /\ new_phase => gr_phases[gr_num_phases].start = current_site
  <2>1. /\ current_site = plan[Here].start /\ (new_phase <=> Known = {})
        /\ new_phase => gr_phases[gr_num_phases].start = plan[Here].start
    BY <1>1, EveryoneAgrees DEF ReadyToEnd
  <2>2. Table!Candidates(current_site) = Known
    BY <2>1 DEF Table!Candidates, Table!Registered, Known, Entries
  <2>3. Site(Main) = plan[Here].start
    BY DEF Site, Here
  <2> QED
    BY <2>1, <2>2, <2>3
<1>2. ASSUME IInv, pc[Main] \in {"mark", "opened"}
      PROVE  gr_phases[current_phase_id].start = Site(Main)
  <2>1. Main \in Team /\ round[Main] = Here /\ pc[Main] \in Published
    BY <1>2 DEF Team, Here, Published, Guessed
  <2>2. Sited(current_phase_id)
    BY <1>2, <2>1 DEF IInv, ThreadInv, InPhase
  <2> QED
    BY <2>1, <2>2 DEF Sited, HasSite, Site
<1>3. IInv => EndSeesItsOwnStart
  BY <1>1, <1>2 DEF EndSeesItsOwnStart
<1> QED
  BY <1>3, IInvHolds, PTL

(***************************************************************************)
(* "find a phase with average length larger than minimal requirement"      *)
(* (gr_phase_start): a worker gives up its core only in a phase whose      *)
(* start site has a registered phase with such an average, although it     *)
(* reads the average through a guess that other threads write.             *)
(***************************************************************************)
THEOREM ResumesInLongPhase ==
  ASSUME ForkJoin
  PROVE  Spec => []ResumedInLongPhase
<1>1. ASSUME IInv
      PROVE  ResumedInLongPhase
  <2> SUFFICES ASSUME NEW t \in Workers, pc[t] \in {"resume", "opened"}, should_run[t]
               PROVE  \E i \in Table!Candidates(Site(t)) :
                        gr_phases_perf[i].avg >= MinPhaseLength
    BY DEF ResumedInLongPhase
  <2>1. t \in Team /\ pc[t] \in Published
    BY DEF Team, Published, Guessed
  <2>2. LongPhase(gr_num_phases, gr_phases, gr_phases_perf, Site(t))
    BY <1>1, <2>1 DEF IInv, ThreadInv, Site
  <2> QED
    BY <2>2 DEF LongPhase, Table!Candidates, Table!Registered
<1> QED
  BY <1>1, IInvHolds, PTL

-----------------------------------------------------------------------------
(* The refinement. A phase is open from the main thread's mark to its end: *)
(* the site that the other threads go on to store is the open one.         *)
MarkInv == IInv /\ has_start_phase = (pc[Main] = "opened")

LEMMA InitMarkInv == Init => MarkInv
<1> SUFFICES ASSUME Init PROVE MarkInv
  OBVIOUS
<1>1. IInv
  BY InitIInv
<1>2. has_start_phase = FALSE /\ pc[Main] = "out"
  BY DEF Init, Table!Init, Team
<1> QED
  BY <1>1, <1>2 DEF MarkInv

(* The steps but Mark and End: they leave the registered entries alone,    *)
(* and the site of an open phase.                                          *)
LEMMA HiddenStep ==
  ASSUME MarkInv, NEW t \in Team, Find(t) \/ Record(t) \/ WorkerEnd(t) \/ Resume(t),
         t # Main \/ Find(t) \/ Record(t)
  PROVE  /\ UNCHANGED <<gr_phases_perf, gr_num_phases, is_in_mainloop, status, has_start_phase>>
         /\ \A i \in Entries : gr_phases'[i] = gr_phases[i]
         /\ has_start_phase => current_site' = current_site
         /\ pc'[Main] = "opened" <=> pc[Main] = "opened"
<1>1. /\ Main \in Team /\ gr_num_phases \in Nat /\ pc \in [Team -> Labels]
      /\ gr_phases \in [0 .. DefaultNumPhases - 1 -> PhaseRecord]
      /\ \A i \in Entries : i # gr_num_phases /\ i \in 0 .. DefaultNumPhases - 1
  <2>1. /\ Main \in Team /\ gr_num_phases \in Nat /\ pc \in [Team -> Labels]
        /\ gr_phases \in [0 .. DefaultNumPhases - 1 -> PhaseRecord]
        /\ gr_num_phases < DefaultNumPhases /\ Here \in 1 .. Rounds + 1
    BY DEF MarkInv, IInv, Arrays, Locals, Team, Here
  <2> QED
    BY <2>1, RoundsAssumption DEF Entries
<1>2. /\ UNCHANGED <<gr_phases_perf, gr_num_phases, is_in_mainloop, status, has_start_phase>>
      /\ \/ gr_phases' = gr_phases
         \/ gr_phases' = [gr_phases EXCEPT ![gr_num_phases].start = Site(t)]
      /\ current_site' = current_site \/ Record(t)
  BY DEF Find, Enter, Skip, Candidate, Clear, ScanDone, Claim, Guess, Predict, Record,
         Resume, WorkerEnd, NextRound, readonly, tracker
<1>3. \A i \in Entries : gr_phases'[i] = gr_phases[i]
  BY <1>1, <1>2
<1>4. ASSUME has_start_phase, Record(t)
      PROVE  current_site' = current_site
  <2>1. pc[Main] = "opened" /\ pc[t] = "record"
    BY <1>4 DEF MarkInv, Record, Goto
  <2>2. Site(t) = plan[Here].start /\ Here \in Nat
    BY <2>1, ThreadFacts DEF MarkInv
  <2>3. InPhase(Main)
    BY <1>1, <2>2 DEF MarkInv, IInv, ThreadInv, Here
  <2>4. current_site = plan[Here].start
    BY <2>1, <2>3 DEF InPhase, Recorded, Published, Guessed
  <2> QED
    BY <1>4, <2>2, <2>4 DEF Record
<1>5. pc'[Main] = "opened" <=> pc[Main] = "opened"
  <2>1. CASE t # Main
    <3>1. \E p : pc' = [pc EXCEPT ![t] = p] \/ pc' = pc
      BY DEF Find, Enter, Skip, Candidate, Clear, ScanDone, Claim, Guess, Predict, Record,
             Resume, WorkerEnd, NextRound, Goto
    <3> QED
      BY <1>1, <2>1, <3>1
  <2>2. CASE t = Main
    <3>1. pc[Main] # "opened"
      BY <2>2 DEF Find, Enter, Skip, Candidate, Clear, ScanDone, Claim, Guess, Predict,
                  Record, Goto
    <3>2. \E p : p # "opened" /\ (pc' = [pc EXCEPT ![Main] = p] \/ pc' = pc)
      BY <2>2 DEF Find, Enter, Skip, Candidate, Clear, ScanDone, Claim, Guess, Predict,
                  Record, AfterRecord, Goto
    <3> QED
      BY <1>1, <3>1, <3>2
  <2> QED
    BY <2>1, <2>2
<1> QED
  BY <1>2, <1>3, <1>4, <1>5

LEMMA NextKeepsMark ==
  ASSUME ForkJoin, MarkInv, [Next]_vars
  PROVE  MarkInv'
<1>1. SUFFICES has_start_phase' = (pc'[Main] = "opened")
  BY NextKeeps DEF MarkInv
<1>2. pc \in [Team -> Labels] /\ Main \in Team /\ \A t \in Workers : t \in Team /\ t # Main
  BY TeamAssumption DEF MarkInv, IInv, Locals, Team
<1>3. ASSUME NEW t \in Team, Find(t) \/ Record(t) \/ WorkerEnd(t) \/ Resume(t),
             t # Main \/ Find(t) \/ Record(t)
      PROVE  has_start_phase' = (pc'[Main] = "opened")
  BY <1>3, HiddenStep DEF MarkInv
<1>4. CASE Mark
  BY <1>2, <1>4 DEF Mark, Goto
<1>5. CASE End
  <2>1. pc'[Main] = "out"
    BY <1>2, <1>5 DEF End, NextRound, Goto
  <2>2. PICK run \in Measurements : Table!gr_phase_end(plan[Here].end, run)
    BY <1>5 DEF End, Here
  <2>3. EveryoneOpened
    BY <1>5 DEF End
  <2>4. has_start_phase' = FALSE
    BY <2>2, <2>3, EndStores DEF MarkInv, Stores
  <2> QED
    BY <2>1, <2>4
<1>6. CASE UNCHANGED vars \/ Done
  BY <1>6 DEF MarkInv, Done, vars, tracker
<1> QED
  BY <1>2, <1>3, <1>4, <1>5, <1>6 DEF Next

(* The rows of the table, and what the history is mapped to.               *)
LEMMA RowsStay ==
  ASSUME UNCHANGED <<gr_phases_perf, gr_num_phases, status>>,
         \A i \in Entries : gr_phases'[i] = gr_phases[i]
  PROVE  Table!Rows' = Table!Rows
<1>1. Table!Registered = Entries /\ Table!Registered' = Table!Registered
  BY DEF Table!Registered, Entries
<1>2. \A i \in Table!Registered : Table!Row(i)' = Table!Row(i)
  BY <1>1 DEF Table!Row
<1> QED
  BY <1>1, <1>2 DEF Table!Rows

(* The row of the entry that the end of the phase has updated.             *)
LEMMA StoredRow ==
  ASSUME MarkInv, EveryoneOpened, NEW run \in Measurements, NEW i, Stores(i, run)
  PROVE  Table!Row(i)' =
           [start |-> plan[Here].start, end |-> plan[Here].end, count |-> NewCount(i),
            longest |-> IF run.length > OldPerf(i).max THEN run.length ELSE OldPerf(i).max,
            shortest |-> IF OldPerf(i).min = 0 \/ run.length < OldPerf(i).min
                         THEN run.length ELSE OldPerf(i).min,
            events |-> Table!Events(OldPerf(i).perf_counter)]
<1> DEFINE q == UpdatedPerf(OldPerf(i), NewCount(i), run, FALSE)
           p == [start |-> plan[Here].start, end |-> plan[Here].end, count |-> NewCount(i)]
<1>1. i \in 0 .. DefaultNumPhases - 1
  <2>1. /\ i \in 0 .. gr_num_phases /\ gr_num_phases \in Nat /\ gr_num_phases < DefaultNumPhases
        /\ Here \in 1 .. Rounds
    BY EveryoneAgrees DEF MarkInv, IInv, Arrays, Stores
  <2> QED
    BY <2>1, RoundsAssumption
<1>2. gr_phases'[i] = p /\ gr_phases_perf'[i] = q
  BY <1>1 DEF MarkInv, IInv, Arrays, Stores
<1>3. /\ q.max = IF run.length > OldPerf(i).max THEN run.length ELSE OldPerf(i).max
      /\ q.min = IF OldPerf(i).min = 0 \/ run.length < OldPerf(i).min
                 THEN run.length ELSE OldPerf(i).min
      /\ q.perf_counter = OldPerf(i).perf_counter
  BY DEF UpdatedPerf
<1>4. /\ p.start = plan[Here].start /\ p.end = plan[Here].end /\ p.count = NewCount(i)
  OBVIOUS
<1>5. Table!Row(i)' =
        [start |-> gr_phases'[i].start, end |-> gr_phases'[i].end,
         count |-> gr_phases'[i].count,
         longest |-> gr_phases_perf'[i].max, shortest |-> gr_phases_perf'[i].min,
         events |-> Table!Events(gr_phases_perf'[i].perf_counter)]
  BY DEF Table!Row
<1> HIDE DEF p, q
<1> QED
  BY <1>2, <1>3, <1>4, <1>5

(* What a run makes of a summary outside of a main loop.                   *)
LEMMA AnotherRunFields ==
  ASSUME is_in_mainloop = FALSE, NEW r, NEW run
  PROVE  History!AnotherRun(r, run) =
           [r EXCEPT !.count = r.count + 1,
                     !.longest = IF run.length > r.longest THEN run.length ELSE r.longest,
                     !.shortest = IF r.shortest = 0 \/ run.length < r.shortest
                                  THEN run.length ELSE r.shortest,
                     !.events = r.events]
<1>1. History!Counted(r.events, run) = r.events
  BY DEF History!Counted
<1>2. History!AnotherRun(r, run) =
        [r EXCEPT !.count = r.count + 1,
                  !.longest = IF run.length > r.longest THEN run.length ELSE r.longest,
                  !.shortest = IF r.shortest = 0 \/ run.length < r.shortest
                               THEN run.length ELSE r.shortest,
                  !.events = History!Counted(r.events, run)]
  BY Zenon DEF History!AnotherRun
<1> QED
  BY <1>1, <1>2

LEMMA EndRefines ==
  ASSUME ForkJoin, MarkInv, End
  PROVE  History!Next
<1> DEFINE s == plan[Here].start
           e == plan[Here].end
<1>1. /\ EveryoneOpened /\ IInv /\ has_start_phase = TRUE /\ is_in_mainloop = FALSE
      /\ status = "ok"
  BY DEF End, MarkInv, NextRound, Goto, IInv, Scalars
<1>2. PICK run \in Measurements : Table!gr_phase_end(e, run)
  BY DEF End, Here
<1>3. PICK i : Stores(i, run)
  BY <1>1, <1>2, EndStores
<1>4. /\ is_in_mainloop' = FALSE /\ status' = "ok" /\ has_start_phase' = FALSE
  BY <1>1, <1>2, <1>3, EndStores DEF Stores
<1>5. /\ current_site = s /\ s \in StartSites /\ e \in EndSites /\ s # NoSite
      /\ Here \in 1 .. Rounds
  BY <1>1, EveryoneAgrees, SitesAssumption
<1>6. Table!OpenSite = s /\ Table!OpenSite' = NoSite
  BY <1>1, <1>4, <1>5 DEF Table!OpenSite
<1>7. /\ i \in 0 .. gr_num_phases
      /\ \A j \in Entries : i = j <=> gr_phases[j].start = s /\ gr_phases[j].end = e
      /\ gr_num_phases' = IF i = gr_num_phases THEN gr_num_phases + 1 ELSE gr_num_phases
  BY <1>3 DEF Stores
<1>8. /\ Table!Registered = Entries /\ Table!Registered' = Entries \cup {i}
      /\ i \in Entries <=> i # gr_num_phases
      /\ gr_num_phases \in Nat
  <2>1. gr_num_phases \in Nat
    BY <1>1 DEF IInv, Arrays
  <2> QED
    BY <1>7, <2>1 DEF Table!Registered, Entries
<1>9. \A j \in Entries : j # i => Table!Row(j)' = Table!Row(j)
  <2>1. \A j \in Entries : j \in 0 .. DefaultNumPhases - 1
    <3>1. gr_num_phases < DefaultNumPhases
      BY <1>1 DEF IInv, Arrays
    <3> QED
      BY <1>5, <1>8, <3>1, RoundsAssumption DEF Entries
  <2>2. \A j \in Entries : j # i => gr_phases'[j] = gr_phases[j]
    BY <1>1, <1>3, <2>1 DEF IInv, Arrays, Stores
  <2>3. \A j \in Entries : j # i => gr_phases_perf'[j] = gr_phases_perf[j]
    BY <1>1, <1>3, <2>1 DEF IInv, Arrays, Stores
  <2> QED
    BY <2>2, <2>3 DEF Table!Row
<1>10. /\ Table!Rows = {Table!Row(j) : j \in Entries}
       /\ Table!Rows' = {Table!Row(j)' : j \in Entries \cup {i}}
  BY <1>1, <1>4, <1>8 DEF Table!Rows
<1>11. \A j : Table!Row(j).start = gr_phases[j].start /\ Table!Row(j).end = gr_phases[j].end
              /\ Table!Row(j).count = gr_phases[j].count
  BY DEF Table!Row
<1>12. ASSUME i = gr_num_phases
       PROVE  History!Complete(e, run)
  <2>1. History!SummariesOf(s, e) = {}
    BY <1>7, <1>8, <1>10, <1>11, <1>12 DEF History!SummariesOf
  <2>2. Table!Row(i)' = History!FirstRun(s, e, run)
    <3>1. OldPerf(i) = BlankPerf /\ NewCount(i) = 1
      BY <1>12 DEF OldPerf, NewCount
    <3>2. BlankPerf.max = 0 /\ BlankPerf.min = 0
      BY DEF BlankPerf
    <3>3. Table!Events(BlankPerf.perf_counter) = History!NoEvents
      BY DEF BlankPerf, gr_perfctr_init_counter, Table!Events, History!NoEvents
    <3>4. History!FirstRun(s, e, run) =
            [start |-> s, end |-> e, count |-> 1, longest |-> run.length,
             shortest |-> run.length, events |-> History!NoEvents]
      BY <1>1 DEF History!FirstRun, History!Counted
    <3>5. (IF run.length > 0 THEN run.length ELSE 0) = run.length
      BY MeasurementsAssumption
    <3> QED
      BY <1>1, <1>3, <3>1, <3>2, <3>3, <3>4, <3>5, StoredRow
  <2>3. Table!Rows' = Table!Rows \cup {History!FirstRun(s, e, run)}
    BY <1>8, <1>9, <1>10, <1>12, <2>2
  <2> HIDE DEF s, e
  <2> QED
    BY <1>1, <1>4, <1>5, <1>6, <2>1, <2>3 DEF History!Complete
<1>13. ASSUME i # gr_num_phases
       PROVE  History!Complete(e, run)
  <2>1. i \in Entries /\ gr_phases[i].start = s /\ gr_phases[i].end = e
    BY <1>7, <1>8, <1>13
  <2>2. Table!Row(i) \in History!SummariesOf(s, e) /\ Table!Row(i).count < CountMod - 1
    <3>1. NewCount(i) \in 1 .. CountMod - 1 /\ NewCount(i) = gr_phases[i].count + 1
      BY <1>1, <1>7, <1>13, NewCountFits DEF NewCount
    <3>2. gr_phases[i].count \in 1 .. Rounds
      BY <1>1, <2>1, CountFacts
    <3> QED
      BY <1>10, <1>11, <2>1, <3>1, <3>2, CountModAssumption, RoundsAssumption
      DEF History!SummariesOf
  <2>3. Table!Row(i)' = History!AnotherRun(Table!Row(i), run)
    <3> DEFINE n == gr_phases[i].count
               long == gr_phases_perf[i].max
               short == gr_phases_perf[i].min
               v == Table!Events(gr_phases_perf[i].perf_counter)
               r == Table!Row(i)
               updated == [start |-> s, end |-> e, count |-> n + 1,
                           longest |-> IF run.length > long THEN run.length ELSE long,
                           shortest |-> IF short = 0 \/ run.length < short
                                        THEN run.length ELSE short,
                           events |-> v]
    <3>1. OldPerf(i) = gr_phases_perf[i] /\ NewCount(i) = n + 1
      BY <1>13 DEF OldPerf, NewCount
    <3>2. Table!Row(i)' = updated
      BY <1>1, <1>3, <3>1, StoredRow
    <3>3. r = [start |-> s, end |-> e, count |-> n,
               longest |-> long, shortest |-> short, events |-> v]
      BY <2>1 DEF Table!Row
    <3>4. is_in_mainloop = FALSE
      BY <1>1
    <3>5. History!AnotherRun(r, run) = updated
      <4>1. /\ r.count = n /\ r.longest = long /\ r.shortest = short /\ r.events = v
        <5> HIDE DEF s, e, n, long, short, v, r
        <5> QED
          BY <3>3
      <4>2. History!AnotherRun(r, run) =
              [r EXCEPT !.count = r.count + 1,
                        !.longest = IF run.length > r.longest THEN run.length ELSE r.longest,
                        !.shortest = IF r.shortest = 0 \/ run.length < r.shortest
                                     THEN run.length ELSE r.shortest,
                        !.events = r.events]
        <5> HIDE DEF r
        <5> QED
          BY <3>4, AnotherRunFields, Zenon
      <4> HIDE DEF s, e, n, long, short, v, r
      <4> QED
        BY <3>3, <4>1, <4>2
    <3> QED
      BY <3>2, <3>5
  <2>4. \A j \in Entries : Table!Row(j) = Table!Row(i) => j = i
    BY <1>7, <1>11, <2>1
  <2>5. Table!Rows' = (Table!Rows \ {Table!Row(i)}) \cup {History!AnotherRun(Table!Row(i), run)}
    <3> DEFINE R(j) == Table!Row(j)
    <3>1. \A j \in Entries : j # i => Table!Row(j)' = R(j)
      BY <1>9
    <3>2. \A j \in Entries : R(j) = R(i) => j = i
      BY <2>4
    <3> QED
      BY <1>10, <2>1, <2>3, <3>1, <3>2
  <2> HIDE DEF s, e
  <2> QED
    BY <1>1, <1>4, <1>5, <1>6, <2>2, <2>5 DEF History!Complete
<1> QED
  BY <1>5, <1>12, <1>13 DEF History!Next

LEMMA MarkRefines ==
  ASSUME MarkInv, Mark
  PROVE  History!Next
<1>1. /\ pc[Main] = "mark" /\ has_start_phase' = TRUE /\ current_site' = current_site
      /\ UNCHANGED <<gr_phases, gr_phases_perf, gr_num_phases, is_in_mainloop, status>>
  BY DEF Mark, Goto, readonly
<1>2. /\ Main \in Team /\ Here \in 1 .. Rounds /\ plan[Here].start \in StartSites
      /\ InPhase(Main)
  BY <1>1, ThreadFacts DEF MarkInv, Team
<1>3. current_site \in StartSites
  BY <1>1, <1>2 DEF InPhase, Recorded, Published, Guessed
<1>4. status = "ok"
  BY DEF MarkInv, IInv, Scalars
<1>5. Table!Rows' = Table!Rows
  BY <1>1, RowsStay
<1>6. Table!OpenSite' = current_site
  BY <1>1, <1>4 DEF Table!OpenSite
<1>7. History!Start(current_site)
  BY <1>1, <1>4, <1>5, <1>6 DEF History!Start
<1> QED
  BY <1>3, <1>7 DEF History!Next

LEMMA StepRefines ==
  ASSUME ForkJoin, MarkInv, [Next]_vars
  PROVE  History!Next \/ UNCHANGED History!vars
<1>1. ASSUME NEW t \in Team, Find(t) \/ Record(t) \/ WorkerEnd(t) \/ Resume(t),
             t # Main \/ Find(t) \/ Record(t)
      PROVE  UNCHANGED History!vars
  <2>1. /\ UNCHANGED <<gr_phases_perf, gr_num_phases, is_in_mainloop, status, has_start_phase>>
        /\ \A i \in Entries : gr_phases'[i] = gr_phases[i]
        /\ has_start_phase => current_site' = current_site
    BY <1>1, HiddenStep
  <2>2. Table!Rows' = Table!Rows
    BY <2>1, RowsStay
  <2>3. Table!OpenSite' = Table!OpenSite
    BY <2>1 DEF Table!OpenSite
  <2> QED
    BY <2>1, <2>2, <2>3 DEF History!vars
<1>2. ASSUME UNCHANGED vars
      PROVE  UNCHANGED History!vars
  <2>1. /\ UNCHANGED <<gr_phases, gr_phases_perf, gr_num_phases, is_in_mainloop, status,
                       has_start_phase, current_site>>
    BY <1>2 DEF vars, tracker
  <2>2. Table!Rows' = Table!Rows
    BY <2>1, RowsStay
  <2>3. Table!OpenSite' = Table!OpenSite
    BY <2>1 DEF Table!OpenSite
  <2> QED
    BY <2>1, <2>2, <2>3 DEF History!vars
<1>3. \A t \in Workers : t \in Team /\ t # Main
  BY TeamAssumption DEF Team
<1> QED
  BY <1>1, <1>2, <1>3, EndRefines, MarkRefines DEF Next, Done

LEMMA InitRefines == Init => History!Init
<1> SUFFICES ASSUME Init PROVE History!Init
  OBVIOUS
<1>1. gr_num_phases = 0 /\ has_start_phase = FALSE /\ is_in_mainloop = FALSE /\ status = "ok"
  BY DEF Init, Table!Init
<1>2. Table!Rows = {} /\ Table!OpenSite = NoSite
  BY <1>1 DEF Table!Rows, Table!Registered, Table!OpenSite
<1> QED
  BY <1>1, <1>2 DEF History!Init

(***************************************************************************)
(* With any number of threads racing through gr_find_phase the tracker is  *)
(* still the plain map from pairs of call sites to summaries: the main     *)
(* thread's mark opens a phase, its gr_phase_end counts the run once, in   *)
(* the summary of its own two call sites, and no other step of any thread  *)
(* can be seen in the map.                                                 *)
(***************************************************************************)
THEOREM TeamIsHistory ==
  ASSUME ForkJoin
  PROVE  Spec => ImplementsHistory
<1>1. Init => MarkInv /\ History!Init
  BY InitMarkInv, InitRefines
<1>2. MarkInv /\ [Next]_vars => MarkInv'
  BY NextKeepsMark
<1>3. MarkInv /\ [Next]_vars => [History!Next]_(History!vars)
  BY StepRefines
<1> QED
  BY <1>1, <1>2, <1>3, PTL DEF Spec, ImplementsHistory, History!Spec
=============================================================================
