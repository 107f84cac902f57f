-------------------------- MODULE PhaseTableProofs --------------------------
(***************************************************************************)
(* PhaseTable is correct for every set of call sites, every set of phase   *)
(* lengths, every width of the counter and every initial table size.       *)
(***************************************************************************)
EXTENDS PhaseTable, TLAPS

(***************************************************************************)
(* The inductive invariant. TypeOK alone says nothing of an entry's count  *)
(* or of the slots that remain when gr_phases_perf is lost; without the    *)
(* first, gr_find_phase could pass over every candidate and leave a stale  *)
(* guess, and without the second a later gr_phase_start could leave the    *)
(* array.                                                                  *)
(***************************************************************************)
CountsArePositive ==
  status = "ok" => \A i \in Registered : gr_phases[i].count > 0

FreeSlotWithoutStatistics ==
  status = "no_perf" => SlotsOf(gr_phases) /\ gr_num_phases < gr_max_num_phases

IInv ==
  /\ TypeOK
  /\ CountsArePositive
  /\ FreeSlotWithoutStatistics
  /\ NoDuplicatePhase
  /\ OpenPhaseIsLocated
  /\ ScanStartsInTable

-----------------------------------------------------------------------------
(* A counter that is incremented stays within its width.                   *)
LEMMA CountInRange ==
  ASSUME NEW c \in 0 .. CountMod - 1
  PROVE  (c + 1) % CountMod \in 0 .. CountMod - 1
BY CountModAssumption

(* The first run of a phase never makes its counter wrap.                  *)
LEMMA FirstCount == (0 + 1) % CountMod = 1
BY CountModAssumption

(* A mean over a positive number of runs is a number.                      *)
LEMMA QuotientIsNat ==
  ASSUME NEW a \in Nat, NEW b \in Nat, b > 0
  PROVE  a \div b \in Nat
OBVIOUS

(* Counters that move by natural numbers stay in their type.               *)
LEMMA CounterType ==
  ASSUME NEW c \in CounterRecord, NEW value \in Nat
  PROVE  gr_perfctr_update(c, value) \in CounterRecord
BY DEF CounterRecord, gr_perfctr_update

LEMMA UpdatedPerfType ==
  ASSUME NEW pp \in PerfRecord, NEW n \in Nat, n > 0,
         NEW run \in [length : Nat, events : Nat], NEW in \in BOOLEAN
  PROVE  UpdatedPerf(pp, n, run, in) \in PerfRecord
<1>1. /\ pp.avg \in Nat /\ pp.max \in Nat /\ pp.min \in Nat
      /\ pp.perf_counter \in CounterRecord
      /\ run.length \in Nat /\ run.events \in Nat
  BY DEF PerfRecord
<1>2. (pp.avg * n + run.length) \div n \in Nat
  <2>1. pp.avg * n + run.length \in Nat
    BY <1>1
  <2> QED
    BY <2>1, QuotientIsNat
<1>3. gr_perfctr_update(pp.perf_counter, run.events) \in CounterRecord
  BY <1>1, CounterType
<1> QED
  BY <1>1, <1>2, <1>3 DEF PerfRecord, UpdatedPerf

(* A grown array has one more slot, and its entries are those it had and   *)
(* the new one.                                                            *)
LEMMA GrownType ==
  ASSUME NEW S, NEW n \in Nat, NEW array \in [0 .. n - 1 -> S], NEW blank \in S
  PROVE  /\ Grown(array, n, blank) \in [0 .. n -> S]
         /\ \A i \in 0 .. n - 1 : Grown(array, n, blank)[i] = array[i]
         /\ Grown(array, n, blank)[n] = blank
BY DEF Grown

-----------------------------------------------------------------------------
LEMMA BlankTypes ==
  /\ \A s \in StartSites \cup {NoSite}, e \in EndSites \cup {NoSite} :
       /\ FreshPhase(s, e) \in PhaseRecord
       /\ FreshPhase(s, e).start = s
       /\ FreshPhase(s, e).end = e
       /\ FreshPhase(s, e).count = 0
  /\ BlankPhase \in PhaseRecord
  /\ BlankPerf \in PerfRecord
BY CountModAssumption
DEF FreshPhase, BlankPhase, BlankPerf, PhaseRecord, PerfRecord, CounterRecord,
    gr_perfctr_init_counter

LEMMA InitIInv == Init => IInv
<1> SUFFICES ASSUME Init PROVE IInv
  OBVIOUS
<1> USE DefaultNumPhasesAssumption DEF Init, Registered
<1>1. TypeOK
  <2>1. gr_phases \in [0 .. DefaultNumPhases - 1 -> PhaseRecord]
    BY BlankTypes
  <2>2. gr_phases_perf \in [0 .. DefaultNumPhases - 1 -> PerfRecord]
    BY BlankTypes
  <2>3. SlotsOf(gr_phases) /\ SlotsOf(gr_phases_perf)
    BY DEF SlotsOf
  <2>4. /\ gr_phases \in [DOMAIN gr_phases -> PhaseRecord]
        /\ gr_phases_perf \in [DOMAIN gr_phases_perf -> PerfRecord]
    BY <2>1, <2>2
  <2>5. /\ gr_num_phases \in Nat /\ gr_max_num_phases \in Nat
        /\ gr_num_phases <= gr_max_num_phases
        /\ previous_phase \in Int /\ current_phase \in Int
    OBVIOUS
  <2>6. /\ new_phase \in BOOLEAN /\ has_start_phase \in BOOLEAN
        /\ is_in_mainloop \in BOOLEAN
    OBVIOUS
  <2>7. current_site \in StartSites \cup {NoSite} /\ status \in Status
    BY DEF Status
  <2> QED
    BY <2>3, <2>4, <2>5, <2>6, <2>7, Zenon DEF TypeOK
<1>2. CountsArePositive /\ FreeSlotWithoutStatistics /\ NoDuplicatePhase
  BY DEF CountsArePositive, FreeSlotWithoutStatistics, NoDuplicatePhase
<1>3. OpenPhaseIsLocated /\ ScanStartsInTable
  BY DEF OpenPhaseIsLocated, ScanStartsInTable
<1> QED
  BY <1>1, <1>2, <1>3 DEF IInv

-----------------------------------------------------------------------------
(* gr_phase_start registers nothing: it writes at most the free slot.      *)
LEMMA StartPreserves ==
  ASSUME IInv, NEW s \in StartSites, gr_phase_start(s)
  PROVE  IInv'
<1> USE CountModAssumption DEF Registered
<1>0. /\ TypeOK /\ status \in {"ok", "no_perf"}
      /\ gr_num_phases' = gr_num_phases
      /\ current_site' = s /\ has_start_phase' = TRUE
      /\ previous_phase' = previous_phase /\ is_in_mainloop' = is_in_mainloop
      /\ SlotsOf(gr_phases) /\ gr_num_phases <= gr_max_num_phases
      /\ gr_num_phases \in Nat /\ gr_max_num_phases \in Nat
  BY DEF IInv, TypeOK, FreeSlotWithoutStatistics, gr_phase_start, FindKnown, FindNew,
         FindNewGrown, FindNewNoMemory, table
<1>1. CASE FindKnown(s) /\ status' = IF status = "no_perf" /\ current_phase' # 0
                                     THEN "fault" ELSE status
  <2>1. /\ UNCHANGED table /\ new_phase' = FALSE
        /\ current_phase' = current_phase \/ current_phase' \in Scored(s)
        /\ status = "ok" /\ Scored(s) # {} => current_phase' \in Scored(s)
    BY <1>1 DEF FindKnown
  <2>2. status = "ok" => Scored(s) # {}
    BY <1>0, <1>1 DEF IInv, CountsArePositive, FindKnown, Scored, Candidates
  <2>3. current_phase' \in Int
    BY <1>0, <2>1 DEF TypeOK, Scored, Candidates
  <2>4. TypeOK' /\ FreeSlotWithoutStatistics'
    BY <1>0, <1>1, <2>1, <2>3
    DEF IInv, TypeOK, table, SlotsOf, Status, FreeSlotWithoutStatistics
  <2>5. CountsArePositive' /\ NoDuplicatePhase' /\ ScanStartsInTable'
    BY <1>0, <1>1, <2>1
    DEF IInv, CountsArePositive, NoDuplicatePhase, ScanStartsInTable, table, compare_phase
  <2>6. OpenPhaseIsLocated'
    BY <1>0, <1>1, <2>1, <2>2 DEF OpenPhaseIsLocated, Scored, Candidates, table
  <2> QED
    BY <2>4, <2>5, <2>6 DEF IInv
<1>2. CASE FindNew(s) /\ status' = IF status = "no_perf" /\ current_phase' # 0
                                   THEN "fault" ELSE status
  <2>1. /\ gr_phases' = [gr_phases EXCEPT ![gr_num_phases].start = s]
        /\ gr_num_phases \in DOMAIN gr_phases
        /\ gr_num_phases < gr_max_num_phases
        /\ UNCHANGED <<gr_phases_perf, gr_max_num_phases>>
        /\ new_phase' = TRUE /\ current_phase' = gr_num_phases
        /\ Candidates(s) = {}
    BY <1>0, <1>2 DEF FindNew, SlotsOf
  <2>2. \A i \in Registered : gr_phases'[i] = gr_phases[i]
    BY <1>0, <2>1
  <2>3. gr_phases' \in [DOMAIN gr_phases -> PhaseRecord]
    BY <1>0, <2>1 DEF TypeOK, PhaseRecord
  <2>4. TypeOK' /\ FreeSlotWithoutStatistics'
    BY <1>0, <1>2, <2>1, <2>3 DEF IInv, TypeOK, SlotsOf, Status, FreeSlotWithoutStatistics
  <2>5. CountsArePositive' /\ NoDuplicatePhase' /\ ScanStartsInTable'
    BY <1>0, <1>2, <2>1, <2>2
    DEF IInv, CountsArePositive, NoDuplicatePhase, ScanStartsInTable, compare_phase
  <2>6. OpenPhaseIsLocated'
    BY <1>0, <1>2, <2>1, <2>2
    DEF IInv, TypeOK, SlotsOf, OpenPhaseIsLocated, Candidates, PhaseRecord
  <2> QED
    BY <2>4, <2>5, <2>6 DEF IInv
<1>3. CASE FindNewGrown(s) /\ status' = IF status = "no_perf" /\ current_phase' # 0
                                        THEN "fault" ELSE status
  <2> DEFINE slot == FreshPhase(s, NoSite)
  <2>1. /\ gr_phases' = Grown(gr_phases, gr_num_phases, slot)
        /\ gr_phases_perf' = Grown(gr_phases_perf, gr_num_phases, BlankPerf)
        /\ gr_max_num_phases' = gr_num_phases + 1
        /\ gr_num_phases = gr_max_num_phases
        /\ new_phase' = TRUE /\ current_phase' = gr_num_phases
        /\ Candidates(s) = {} /\ status = "ok" /\ status' = "ok"
    BY <1>0, <1>3 DEF FindNewGrown, IInv, FreeSlotWithoutStatistics
  <2>2. /\ slot \in PhaseRecord /\ BlankPerf \in PerfRecord /\ slot.start = s
        /\ gr_phases \in [0 .. gr_num_phases - 1 -> PhaseRecord]
        /\ gr_phases_perf \in [0 .. gr_num_phases - 1 -> PerfRecord]
    BY <1>0, <2>1, BlankTypes DEF TypeOK, SlotsOf
  <2> HIDE DEF slot
  <2>3. /\ gr_phases' \in [0 .. gr_num_phases -> PhaseRecord]
        /\ \A i \in Registered : gr_phases'[i] = gr_phases[i]
        /\ gr_phases'[gr_num_phases] = slot
    <3>1. gr_phases' \in [0 .. gr_num_phases -> PhaseRecord]
      BY <1>0, <2>1, <2>2, GrownType
    <3>2. \A i \in 0 .. gr_num_phases - 1 :
            Grown(gr_phases, gr_num_phases, slot)[i] = gr_phases[i]
      BY <1>0 DEF Grown
    <3>3. Grown(gr_phases, gr_num_phases, slot)[gr_num_phases] = slot
      BY <1>0 DEF Grown
    <3> QED
      BY <2>1, <3>1, <3>2, <3>3
  <2>7. gr_phases_perf' \in [0 .. gr_num_phases -> PerfRecord]
    BY <1>0, <2>1, <2>2, GrownType
  <2>4. TypeOK' /\ FreeSlotWithoutStatistics'
    BY <1>0, <2>1, <2>3, <2>7 DEF TypeOK, SlotsOf, Status, FreeSlotWithoutStatistics
  <2>5. CountsArePositive' /\ NoDuplicatePhase' /\ ScanStartsInTable'
    BY <1>0, <2>1, <2>3
    DEF IInv, CountsArePositive, NoDuplicatePhase, ScanStartsInTable, compare_phase
  <2>6. OpenPhaseIsLocated'
    BY <1>0, <2>1, <2>2, <2>3, <2>7 DEF OpenPhaseIsLocated, Candidates
  <2> QED
    BY <2>4, <2>5, <2>6 DEF IInv
<1>4. CASE FindNewNoMemory(s)
  <2>1. /\ UNCHANGED <<gr_phases_perf, current_phase>>
        /\ gr_num_phases = gr_max_num_phases
        /\ gr_max_num_phases' = gr_num_phases + 1
        /\ new_phase' = TRUE /\ status = "ok"
    BY <1>0, <1>4 DEF FindNewNoMemory, IInv, FreeSlotWithoutStatistics
  <2>2. BlankPhase \in PhaseRecord
        /\ gr_phases \in [0 .. gr_num_phases - 1 -> PhaseRecord]
    BY <1>0, <2>1, BlankTypes DEF TypeOK, SlotsOf
  <2>3. \/ status' = "no_phases" /\ UNCHANGED gr_phases
        \/ /\ status' = "no_perf"
           /\ gr_phases' = Grown(gr_phases, gr_num_phases, BlankPhase)
           /\ gr_phases' \in [0 .. gr_num_phases -> PhaseRecord]
           /\ \A i \in Registered : gr_phases'[i] = gr_phases[i]
    <3> DEFINE grown == Grown(gr_phases, gr_num_phases, BlankPhase)
    <3>1. grown \in [0 .. gr_num_phases -> PhaseRecord]
      BY <1>0, <2>2, GrownType
    <3>2. \A i \in Registered : grown[i] = gr_phases[i]
      BY <1>0 DEF Grown
    <3> HIDE DEF grown
    <3>3. \/ status' = "no_phases" /\ UNCHANGED gr_phases
          \/ status' = "no_perf" /\ gr_phases' = grown
      BY <1>4 DEF FindNewNoMemory, grown
    <3>4. gr_phases' = grown =>
            gr_phases' = Grown(gr_phases, gr_num_phases, BlankPhase)
      BY DEF grown
    <3> QED
      BY <3>1, <3>2, <3>3, <3>4
  <2>4. TypeOK' /\ FreeSlotWithoutStatistics'
    <3>1. gr_phases' \in [DOMAIN gr_phases' -> PhaseRecord]
      BY <2>2, <2>3
    <3>2. status' = "no_perf" => SlotsOf(gr_phases)'
      BY <1>0, <2>1, <2>3 DEF SlotsOf
    <3>3. status' \in Status /\ status' # "ok"
      BY <2>3 DEF Status
    <3> QED
      BY <1>0, <2>1, <3>1, <3>2, <3>3 DEF TypeOK, FreeSlotWithoutStatistics
  <2>5. /\ CountsArePositive' /\ NoDuplicatePhase' /\ ScanStartsInTable'
        /\ OpenPhaseIsLocated'
    BY <1>0, <2>1, <2>3
    DEF IInv, CountsArePositive, NoDuplicatePhase, ScanStartsInTable, compare_phase,
        OpenPhaseIsLocated
  <2> QED
    BY <2>4, <2>5 DEF IInv
<1> QED
  BY <1>1, <1>2, <1>3, <1>4 DEF gr_phase_start
-----------------------------------------------------------------------------
(* gr_update_phase changes the count of one entry and no site. It either   *)
(* closes the phase or, when the count wraps, divides by zero.             *)
LEMMA UpdateEffect ==
  ASSUME status = "ok", NEW n \in Nat, NEW i \in 0 .. n - 1,
         NEW phases \in [0 .. n - 1 -> PhaseRecord],
         NEW perf \in [0 .. n - 1 -> PerfRecord],
         NEW run \in [length : Nat, events : Nat],
         has_start_phase \in BOOLEAN, is_in_mainloop \in BOOLEAN,
         Update(i, phases, perf, run)
  PROVE  /\ gr_phases' \in [0 .. n - 1 -> PhaseRecord]
         /\ gr_phases_perf' \in [0 .. n - 1 -> PerfRecord]
         /\ \A j \in 0 .. n - 1 : /\ gr_phases'[j].start = phases[j].start
                                  /\ gr_phases'[j].end = phases[j].end
                                  /\ j # i => gr_phases'[j].count = phases[j].count
         /\ previous_phase' = i
         /\ has_start_phase' \in BOOLEAN
         /\ \/ status' = "fault"
            \/ status' = "ok" /\ gr_phases'[i].count > 0 /\ ~has_start_phase'
<1> DEFINE count == (phases[i].count + 1) % CountMod
<1>1. phases[i] \in PhaseRecord /\ perf[i] \in PerfRecord
  OBVIOUS
<1>2. count \in 0 .. CountMod - 1
  <2>1. phases[i].count \in 0 .. CountMod - 1
    BY <1>1 DEF PhaseRecord
  <2> QED
    BY <2>1, CountInRange
<1>3. /\ gr_phases' = [phases EXCEPT ![i].count = count]
      /\ previous_phase' = i
      /\ \/ /\ count = 0 /\ status' = "fault"
            /\ gr_phases_perf' = perf
            /\ UNCHANGED has_start_phase
         \/ /\ count # 0 /\ status' = "ok"
            /\ gr_phases_perf' =
                 [perf EXCEPT ![i] = UpdatedPerf(perf[i], count, run, is_in_mainloop)]
            /\ has_start_phase' = FALSE
  BY DEF Update
<1> HIDE DEF count
<1>4. /\ gr_phases' \in [0 .. n - 1 -> PhaseRecord]
      /\ gr_phases'[i].count = count
      /\ \A j \in 0 .. n - 1 : /\ gr_phases'[j].start = phases[j].start
                               /\ gr_phases'[j].end = phases[j].end
                               /\ j # i => gr_phases'[j].count = phases[j].count
  BY <1>1, <1>2, <1>3 DEF PhaseRecord
<1>5. gr_phases_perf' \in [0 .. n - 1 -> PerfRecord]
  <2>1. CASE count = 0
    BY <1>3, <2>1
  <2>2. CASE count # 0
    <3>1. count \in Nat /\ count > 0
      BY <1>2, <2>2, CountModAssumption
    <3>2. UpdatedPerf(perf[i], count, run, is_in_mainloop) \in PerfRecord
      BY <1>1, <3>1, UpdatedPerfType
    <3> QED
      BY <1>3, <2>2, <3>2
  <2> QED
    BY <2>1, <2>2
<1>6. /\ has_start_phase' \in BOOLEAN
      /\ \/ status' = "fault"
         \/ status' = "ok" /\ gr_phases'[i].count > 0 /\ ~has_start_phase'
  <2>1. count # 0 => count > 0
    BY <1>2, CountModAssumption
  <2> QED
    BY <1>3, <1>4, <2>1
<1> QED
  BY <1>3, <1>4, <1>5, <1>6
(* gr_phase_end adds at most one entry, and only for a pair of call sites  *)
(* that no entry has.                                                      *)
LEMMA EndPreserves ==
  ASSUME IInv, NEW e \in EndSites, NEW run \in Measurements, gr_phase_end(e, run)
  PROVE  IInv'
<1> USE DEF Registered
<1> DEFINE slots == gr_max_num_phases
<1>0. /\ TypeOK /\ status = "ok" /\ has_start_phase /\ has_start_phase \in BOOLEAN
      /\ UNCHANGED <<current_phase, new_phase, current_site, is_in_mainloop>>
      /\ gr_num_phases \in Nat /\ slots \in Nat /\ gr_num_phases <= slots
      /\ gr_phases \in [0 .. slots - 1 -> PhaseRecord]
      /\ gr_phases_perf \in [0 .. slots - 1 -> PerfRecord]
      /\ current_site \in StartSites \cup {NoSite}
      /\ run \in [length : Nat, events : Nat]
      /\ is_in_mainloop \in BOOLEAN
  BY MeasurementsAssumption DEF IInv, TypeOK, gr_phase_end, SlotsOf
<1>1. ASSUME NEW i \in 0 .. slots - 1,
             NEW phases \in [0 .. slots - 1 -> PhaseRecord],
             NEW perf \in [0 .. slots - 1 -> PerfRecord],
             Update(i, phases, perf, run),
             UNCHANGED gr_max_num_phases,
             NEW m \in Nat, gr_num_phases' = m, i < m, m <= slots,
             \A j \in 0 .. m - 1 : j # i => phases[j].count > 0,
             \A j, k \in 0 .. m - 1 :
               compare_phase(phases[j], phases[k].start, phases[k].end) => j = k
      PROVE  IInv'
  <2>1. /\ gr_phases' \in [0 .. slots - 1 -> PhaseRecord]
        /\ gr_phases_perf' \in [0 .. slots - 1 -> PerfRecord]
        /\ \A j \in 0 .. slots - 1 : /\ gr_phases'[j].start = phases[j].start
                                     /\ gr_phases'[j].end = phases[j].end
                                     /\ j # i => gr_phases'[j].count = phases[j].count
        /\ previous_phase' = i
        /\ has_start_phase' \in BOOLEAN
        /\ \/ status' = "fault"
           \/ status' = "ok" /\ gr_phases'[i].count > 0 /\ ~has_start_phase'
    BY <1>0, <1>1, UpdateEffect
  <2>2. TypeOK' /\ FreeSlotWithoutStatistics'
    BY <1>0, <1>1, <2>1 DEF TypeOK, SlotsOf, Status, FreeSlotWithoutStatistics
  <2>3. CountsArePositive'
    <3> SUFFICES ASSUME status' = "ok", NEW j \in 0 .. m - 1
                 PROVE  gr_phases'[j].count > 0
      BY <1>1 DEF CountsArePositive
    <3> QED
      BY <1>0, <1>1, <2>1
  <2>4. NoDuplicatePhase'
    <3> SUFFICES ASSUME NEW j \in 0 .. m - 1, NEW k \in 0 .. m - 1,
                        gr_phases'[j].start = gr_phases'[k].start,
                        gr_phases'[j].end = gr_phases'[k].end
                 PROVE  j = k
      BY <1>1 DEF NoDuplicatePhase, compare_phase
    <3>1. j \in 0 .. slots - 1 /\ k \in 0 .. slots - 1
      BY <1>0, <1>1
    <3>2. phases[j].start = phases[k].start /\ phases[j].end = phases[k].end
      BY <2>1, <3>1
    <3> QED
      BY <1>1, <3>2 DEF compare_phase
  <2>5. OpenPhaseIsLocated' /\ ScanStartsInTable'
    BY <1>0, <1>1, <2>1 DEF OpenPhaseIsLocated, ScanStartsInTable
  <2> QED
    BY <2>2, <2>3, <2>4, <2>5 DEF IInv
<1>2. CASE EndFirst(e, run)
  <2> DEFINE phases == [gr_phases EXCEPT ![gr_num_phases] = FreshPhase(@.start, e)]
             perf == [gr_phases_perf EXCEPT ![gr_num_phases] = BlankPerf]
  <2>1. /\ Candidates(current_site) = {}
        /\ gr_num_phases \in 0 .. slots - 1
        /\ gr_phases[gr_num_phases].start = current_site
    BY <1>0, <1>2 DEF IInv, OpenPhaseIsLocated, EndFirst
  <2>2. /\ Update(gr_num_phases, phases, perf, run)
        /\ gr_num_phases' = gr_num_phases + 1
        /\ UNCHANGED gr_max_num_phases
    BY <1>2 DEF EndFirst
  <2>3. gr_phases[gr_num_phases] \in PhaseRecord
    BY <1>0, <2>1
  <2>4. /\ phases \in [0 .. slots - 1 -> PhaseRecord]
        /\ phases[gr_num_phases].start = current_site
        /\ \A j \in Registered : phases[j] = gr_phases[j]
    <3>1. FreshPhase(gr_phases[gr_num_phases].start, e) \in PhaseRecord
          /\ FreshPhase(gr_phases[gr_num_phases].start, e).start = current_site
      BY <1>0, <2>1, BlankTypes
    <3> QED
      BY <1>0, <2>1, <3>1
  <2>5. perf \in [0 .. slots - 1 -> PerfRecord]
    BY <1>0, BlankTypes
  <2> HIDE DEF phases, perf
  <2>6. \A j \in 0 .. gr_num_phases : j # gr_num_phases => j \in Registered
    BY <1>0
  <2>7. \A j, k \in 0 .. gr_num_phases :
          compare_phase(phases[j], phases[k].start, phases[k].end) => j = k
    BY <1>0, <2>1, <2>4, <2>6 DEF compare_phase, IInv, NoDuplicatePhase, Candidates
  <2>8. \A j \in 0 .. gr_num_phases : j # gr_num_phases => phases[j].count > 0
    BY <1>0, <2>4, <2>6 DEF IInv, CountsArePositive
  <2> DEFINE m == gr_num_phases + 1
  <2>9. m \in Nat /\ m - 1 = gr_num_phases /\ gr_num_phases < m /\ m <= slots
    BY <1>0, <2>1
  <2> QED
    BY <1>1, <2>1, <2>2, <2>4, <2>5, <2>7, <2>8, <2>9
<1>3. CASE EndKnown(e, run)
  <2>1. PICK i \in Registered :
          /\ Update(i, gr_phases, gr_phases_perf, run)
          /\ UNCHANGED <<gr_num_phases, gr_max_num_phases>>
    BY <1>3 DEF EndKnown
  <2>2. i \in 0 .. slots - 1 /\ i < gr_num_phases
    BY <1>0
  <2>3. \A j \in 0 .. gr_num_phases - 1 : j # i => gr_phases[j].count > 0
    BY <1>0 DEF IInv, CountsArePositive
  <2>4. \A j, k \in 0 .. gr_num_phases - 1 :
          compare_phase(gr_phases[j], gr_phases[k].start, gr_phases[k].end) => j = k
    BY DEF IInv, NoDuplicatePhase
  <2> QED
    BY <1>0, <1>1, <2>1, <2>2, <2>3, <2>4
<1>4. CASE EndSplit(e, run)
  <2> DEFINE slot == FreshPhase(current_site, e)
             phases == [gr_phases EXCEPT ![gr_num_phases] = slot]
             perf == [gr_phases_perf EXCEPT ![gr_num_phases] = BlankPerf]
  <2>1. /\ Matches(e) = {}
        /\ gr_num_phases \in 0 .. slots - 1
        /\ Update(gr_num_phases, phases, perf, run)
        /\ gr_num_phases' = gr_num_phases + 1
        /\ UNCHANGED gr_max_num_phases
    BY <1>0, <1>4 DEF EndSplit
  <2>2. slot \in PhaseRecord /\ slot.start = current_site /\ slot.end = e
    BY <1>0, BlankTypes
  <2> HIDE DEF slot
  <2>3. /\ phases \in [0 .. slots - 1 -> PhaseRecord]
        /\ phases[gr_num_phases] = slot
        /\ \A j \in Registered : phases[j] = gr_phases[j]
    BY <1>0, <2>1, <2>2
  <2>4. perf \in [0 .. slots - 1 -> PerfRecord]
    BY <1>0, BlankTypes
  <2> HIDE DEF phases, perf
  <2>5. \A j \in 0 .. gr_num_phases : j # gr_num_phases => j \in Registered
    BY <1>0
  <2>6. \A j, k \in 0 .. gr_num_phases :
          compare_phase(phases[j], phases[k].start, phases[k].end) => j = k
    BY <1>0, <2>1, <2>2, <2>3, <2>5 DEF compare_phase, IInv, NoDuplicatePhase, Matches
  <2>7. \A j \in 0 .. gr_num_phases : j # gr_num_phases => phases[j].count > 0
    BY <1>0, <2>3, <2>5 DEF IInv, CountsArePositive
  <2> DEFINE m == gr_num_phases + 1
  <2>8. m \in Nat /\ m - 1 = gr_num_phases /\ gr_num_phases < m /\ m <= slots
    BY <1>0, <2>1
  <2> QED
    BY <1>1, <2>1, <2>3, <2>4, <2>6, <2>7, <2>8
<1>5. CASE EndSplitGrown(e)
  <2> DEFINE slot == FreshPhase(current_site, e)
  <2>1. /\ Matches(e) = {}
        /\ gr_num_phases = slots
        /\ gr_phases' = Grown(gr_phases, gr_num_phases, slot)
        /\ gr_num_phases' = gr_num_phases + 1
        /\ gr_max_num_phases' = gr_max_num_phases + 1
        /\ previous_phase' = gr_num_phases
        /\ status' = "fault"
        /\ UNCHANGED <<gr_phases_perf, has_start_phase>>
    BY <1>5 DEF EndSplitGrown
  <2>2. slot \in PhaseRecord /\ slot.start = current_site /\ slot.end = e
    BY <1>0, BlankTypes
  <2> HIDE DEF slot
  <2>3. gr_phases' \in [0 .. gr_num_phases -> PhaseRecord]
    BY <1>0, <2>1, <2>2, GrownType
  <2>4. \A j \in Registered : gr_phases'[j] = gr_phases[j]
    BY <1>0, <2>1 DEF Grown
  <2>5. gr_phases'[gr_num_phases] = slot
    BY <1>0, <2>1 DEF Grown
  <2>6. \A j \in Registered' : j # gr_num_phases => j \in Registered
    BY <1>0, <2>1
  <2>7. NoDuplicatePhase'
    <3> SUFFICES ASSUME NEW j \in Registered', NEW k \in Registered',
                        gr_phases'[j].start = gr_phases'[k].start,
                        gr_phases'[j].end = gr_phases'[k].end
                 PROVE  j = k
      BY DEF NoDuplicatePhase, compare_phase
    <3>1. CASE j = gr_num_phases /\ k = gr_num_phases
      BY <3>1
    <3>2. CASE j = gr_num_phases /\ k # gr_num_phases
      BY <2>1, <2>2, <2>4, <2>5, <2>6, <3>2 DEF compare_phase, Matches
    <3>3. CASE j # gr_num_phases /\ k = gr_num_phases
      BY <2>1, <2>2, <2>4, <2>5, <2>6, <3>3 DEF compare_phase, Matches
    <3>4. CASE j # gr_num_phases /\ k # gr_num_phases
      BY <2>4, <2>6, <3>4 DEF compare_phase, IInv, NoDuplicatePhase
    <3> QED
      BY <3>1, <3>2, <3>3, <3>4
  <2>8. TypeOK' /\ FreeSlotWithoutStatistics'
    BY <1>0, <2>1, <2>3 DEF TypeOK, Status, FreeSlotWithoutStatistics
  <2>9. CountsArePositive' /\ OpenPhaseIsLocated' /\ ScanStartsInTable'
    BY <1>0, <2>1 DEF CountsArePositive, OpenPhaseIsLocated, ScanStartsInTable
  <2> QED
    BY <2>7, <2>8, <2>9 DEF IInv
<1>6. CASE EndSplitNoMemory(e)
  <2>1. /\ status' = "no_phases"
        /\ gr_max_num_phases' = gr_max_num_phases + 1
        /\ UNCHANGED <<gr_phases, gr_phases_perf, gr_num_phases, previous_phase,
                       has_start_phase>>
    BY <1>6 DEF EndSplitNoMemory
  <2>2. TypeOK' /\ FreeSlotWithoutStatistics'
    BY <1>0, <2>1 DEF TypeOK, Status, FreeSlotWithoutStatistics
  <2>3. NoDuplicatePhase' /\ ScanStartsInTable'
    BY <2>1 DEF IInv, NoDuplicatePhase, compare_phase, ScanStartsInTable
  <2>4. CountsArePositive' /\ OpenPhaseIsLocated'
    BY <2>1 DEF CountsArePositive, OpenPhaseIsLocated
  <2> QED
    BY <2>2, <2>3, <2>4 DEF IInv
<1> QED
  BY <1>2, <1>3, <1>4, <1>5, <1>6 DEF gr_phase_end

-----------------------------------------------------------------------------
LEMMA NextPreserves == IInv /\ [Next]_vars => IInv'
<1> SUFFICES ASSUME IInv, [Next]_vars PROVE IInv'
  OBVIOUS
<1>1. ASSUME NEW s \in StartSites, gr_phase_start(s) PROVE IInv'
  BY <1>1, StartPreserves
<1>2. ASSUME NEW e \in EndSites, NEW run \in Measurements, gr_phase_end(e, run)
      PROVE  IInv'
  BY <1>2, EndPreserves
<1>3. CASE NullDereference
  <2>1. /\ UNCHANGED <<gr_phases, gr_phases_perf, gr_num_phases, gr_max_num_phases,
                       previous_phase, current_phase, new_phase, current_site,
                       has_start_phase, is_in_mainloop>>
        /\ status' = "fault"
    BY <1>3 DEF NullDereference, table
  <2>2. TypeOK' /\ FreeSlotWithoutStatistics'
    BY <2>1 DEF IInv, TypeOK, Status, FreeSlotWithoutStatistics
  <2>3. NoDuplicatePhase' /\ ScanStartsInTable'
    BY <2>1 DEF IInv, NoDuplicatePhase, compare_phase, ScanStartsInTable, Registered
  <2>4. CountsArePositive' /\ OpenPhaseIsLocated'
    BY <2>1 DEF CountsArePositive, OpenPhaseIsLocated
  <2> QED
    BY <2>2, <2>3, <2>4 DEF IInv
<1>4. ASSUME NEW in \in BOOLEAN, Mainloop(in) PROVE IInv'
  BY <1>4
  DEF Mainloop, table, IInv, TypeOK, SlotsOf, FreeSlotWithoutStatistics,
      NoDuplicatePhase, ScanStartsInTable, Registered, CountsArePositive,
      OpenPhaseIsLocated, Candidates, compare_phase
<1>5. CASE UNCHANGED vars
  BY <1>5
  DEF vars, table, IInv, TypeOK, SlotsOf, FreeSlotWithoutStatistics, NoDuplicatePhase,
      ScanStartsInTable, Registered, CountsArePositive, OpenPhaseIsLocated,
      Candidates, compare_phase
<1> QED
  BY <1>1, <1>2, <1>3, <1>4, <1>5 DEF Next, Halted, gr_mainloop_start, gr_mainloop_end

(***************************************************************************)
(* The inductive invariant holds of every run, for every set of sites,     *)
(* every set of measurements, every counter width and every initial size.       *)
(***************************************************************************)
THEOREM IInvHolds == Spec => []IInv
<1> QED
  BY InitIInv, NextPreserves, PTL DEF Spec

(***************************************************************************)
(* gr_phases and gr_phases_perf have all the slots gr_max_num_phases       *)
(* promises for as long as both are there.                                 *)
(***************************************************************************)
THEOREM TypeCorrect == Spec => []TypeOK
<1>1. IInv => TypeOK
  BY DEF IInv
<1> QED
  BY IInvHolds, <1>1, PTL

(***************************************************************************)
(* gr_get_phase never registers a pair of call sites a second time.        *)
(***************************************************************************)
THEOREM NoDuplicates == Spec => []NoDuplicatePhase
<1>1. IInv => NoDuplicatePhase
  BY DEF IInv
<1> QED
  BY IInvHolds, <1>1, PTL

(***************************************************************************)
(* What gr_find_phase leaves for gr_get_phase is what gr_get_phase trusts. *)
(***************************************************************************)
THEOREM GuessIsSound == Spec => []OpenPhaseIsLocated
<1>1. IInv => OpenPhaseIsLocated
  BY DEF IInv
<1> QED
  BY IInvHolds, <1>1, PTL

(***************************************************************************)
(* The wrap-around scan of gr_get_phase starts inside the table.           *)
(***************************************************************************)
THEOREM ScanIsInTable == Spec => []ScanStartsInTable
<1>1. IInv => ScanStartsInTable
  BY DEF IInv
<1> QED
  BY IInvHolds, <1>1, PTL

-----------------------------------------------------------------------------
(* A count that has not wrapped is one more than it was.                   *)
LEMMA NextCount ==
  ASSUME NEW c \in 0 .. CountMod - 1, (c + 1) % CountMod # 0
  PROVE  (c + 1) % CountMod = c + 1
<1>1. CASE c + 1 = CountMod
  BY <1>1, CountModAssumption
<1>2. CASE c + 1 < CountMod
  BY <1>2, CountModAssumption
<1> QED
  BY <1>1, <1>2, CountModAssumption

(* A completed gr_update_phase counts one more run of entry i.             *)
LEMMA UpdateCounts ==
  ASSUME NEW n \in Nat, NEW i \in 0 .. n - 1,
         NEW phases \in [0 .. n - 1 -> PhaseRecord],
         NEW perf, NEW run, status = "ok",
         Update(i, phases, perf, run), status' = "ok"
  PROVE  /\ gr_phases'[i].start = phases[i].start
         /\ gr_phases'[i].end = phases[i].end
         /\ gr_phases'[i].count = phases[i].count + 1
         /\ previous_phase' = i
<1> DEFINE count == (phases[i].count + 1) % CountMod
<1>1. phases[i] \in PhaseRecord /\ phases[i].count \in 0 .. CountMod - 1
  BY DEF PhaseRecord
<1>2. /\ gr_phases' = [phases EXCEPT ![i].count = count]
      /\ previous_phase' = i
      /\ count # 0
  BY DEF Update
<1>3. count = phases[i].count + 1
  BY <1>1, <1>2, NextCount
<1> HIDE DEF count
<1> QED
  BY <1>1, <1>2, <1>3 DEF PhaseRecord

(* An entry registered for the sites (s, e) counts its first run.          *)
LEMMA FreshCounts ==
  ASSUME NEW n \in Nat, NEW i \in 0 .. n - 1,
         NEW phases \in [0 .. n - 1 -> PhaseRecord],
         NEW s \in StartSites \cup {NoSite}, NEW e \in EndSites,
         NEW perf, NEW run, status = "ok",
         Update(i, [phases EXCEPT ![i] = FreshPhase(s, e)], perf, run),
         status' = "ok"
  PROVE  /\ gr_phases'[i].start = s
         /\ gr_phases'[i].end = e
         /\ gr_phases'[i].count = 1
         /\ previous_phase' = i
<1> DEFINE slot == FreshPhase(s, e)
           filled == [phases EXCEPT ![i] = slot]
<1>1. slot \in PhaseRecord /\ slot.start = s /\ slot.end = e /\ slot.count = 0
  BY BlankTypes DEF FreshPhase
<1>2. Update(i, filled, perf, run)
  OBVIOUS
<1> HIDE DEF slot
<1>3. filled \in [0 .. n - 1 -> PhaseRecord] /\ filled[i] = slot
  BY <1>1
<1> HIDE DEF filled
<1>4. /\ gr_phases'[i].start = filled[i].start
      /\ gr_phases'[i].end = filled[i].end
      /\ gr_phases'[i].count = filled[i].count + 1
      /\ previous_phase' = i
  BY <1>2, <1>3, UpdateCounts
<1> QED
  BY <1>1, <1>3, <1>4

(* The entry gr_phase_end counts, on each of the ways to find it.          *)
LEMMA EndAttributes ==
  ASSUME IInv, NEW e \in EndSites, NEW run \in Measurements,
         gr_phase_end(e, run), status' = "ok"
  PROVE  /\ compare_phase(gr_phases'[previous_phase'], current_site, e)
         /\ gr_phases'[previous_phase'].count =
              1 + IF previous_phase' \in Registered
                  THEN gr_phases[previous_phase'].count
                  ELSE 0
<1> DEFINE slots == gr_max_num_phases
<1>0. /\ status = "ok" /\ has_start_phase
      /\ gr_num_phases \in Nat /\ slots \in Nat /\ gr_num_phases <= slots
      /\ gr_phases \in [0 .. slots - 1 -> PhaseRecord]
      /\ current_site \in StartSites \cup {NoSite}
  BY DEF IInv, TypeOK, gr_phase_end, SlotsOf
<1>1. CASE EndFirst(e, run)
  <2>1. gr_num_phases \in 0 .. slots - 1 /\ gr_phases[gr_num_phases].start = current_site
    BY <1>0, <1>1 DEF IInv, OpenPhaseIsLocated, EndFirst, Candidates, TypeOK
  <2>2. PICK perf : Update(gr_num_phases,
                 [gr_phases EXCEPT ![gr_num_phases] = FreshPhase(current_site, e)],
                 perf, run)
    BY <1>1, <2>1 DEF EndFirst
  <2>3. /\ gr_phases'[gr_num_phases].start = current_site
        /\ gr_phases'[gr_num_phases].end = e
        /\ gr_phases'[gr_num_phases].count = 1
        /\ previous_phase' = gr_num_phases
    BY <1>0, <2>1, <2>2, FreshCounts
  <2> QED
    BY <1>0, <2>3 DEF compare_phase, Registered
<1>2. CASE EndKnown(e, run)
  <2>1. PICK i \in Registered :
          Located(i, e) /\ Update(i, gr_phases, gr_phases_perf, run)
    BY <1>2 DEF EndKnown
  <2>2. compare_phase(gr_phases[i], current_site, e)
    BY <2>1 DEF Located, Matches
  <2>3. i \in 0 .. slots - 1
    BY <1>0 DEF Registered
  <2>4. /\ gr_phases'[i].start = gr_phases[i].start
        /\ gr_phases'[i].end = gr_phases[i].end
        /\ gr_phases'[i].count = gr_phases[i].count + 1
        /\ previous_phase' = i
    BY <1>0, <2>1, <2>3, UpdateCounts
  <2>5. gr_phases[i].count \in Nat
    BY <1>0, <2>3, CountModAssumption DEF PhaseRecord
  <2> QED
    BY <2>1, <2>2, <2>4, <2>5 DEF compare_phase
<1>3. CASE EndSplit(e, run)
  <2>1. gr_num_phases \in 0 .. slots - 1
    BY <1>0, <1>3 DEF EndSplit
  <2>2. PICK perf : Update(gr_num_phases,
                 [gr_phases EXCEPT ![gr_num_phases] = FreshPhase(current_site, e)],
                 perf, run)
    BY <1>3 DEF EndSplit
  <2>3. /\ gr_phases'[gr_num_phases].start = current_site
        /\ gr_phases'[gr_num_phases].end = e
        /\ gr_phases'[gr_num_phases].count = 1
        /\ previous_phase' = gr_num_phases
    BY <1>0, <2>1, <2>2, FreshCounts
  <2> QED
    BY <1>0, <2>3 DEF compare_phase, Registered
<1>4. CASE EndSplitGrown(e)
  <2>1. status' = "fault"
    BY <1>4 DEF EndSplitGrown
  <2> QED
    BY <2>1
<1>5. CASE EndSplitNoMemory(e)
  <2>1. status' = "no_phases"
    BY <1>5 DEF EndSplitNoMemory
  <2> QED
    BY <2>1
<1> QED
  BY <1>1, <1>2, <1>3, <1>4, <1>5 DEF gr_phase_end

(***************************************************************************)
(* A run is counted, once, for the two call sites that delimit it,         *)
(* whatever gr_find_phase guessed at its start.                            *)
(***************************************************************************)
THEOREM AttributionIsRight == Spec => RunsAreAttributed
<1>1. ASSUME IInv
      PROVE  \A e \in EndSites, run \in Measurements :
               gr_phase_end(e, run) /\ status' = "ok" =>
                 LET p == gr_phases'[previous_phase']
                 IN  /\ compare_phase(p, current_site, e)
                     /\ p.count = 1 + IF previous_phase' \in Registered
                                      THEN gr_phases[previous_phase'].count
                                      ELSE 0
  <2> SUFFICES ASSUME NEW e \in EndSites, NEW run \in Measurements,
                      gr_phase_end(e, run), status' = "ok"
               PROVE  LET p == gr_phases'[previous_phase']
                      IN  /\ compare_phase(p, current_site, e)
                          /\ p.count = 1 + IF previous_phase' \in Registered
                                           THEN gr_phases[previous_phase'].count
                                           ELSE 0
    OBVIOUS
  <2> QED
    BY <1>1, EndAttributes
<1> QED
  BY IInvHolds, <1>1, PTL DEF Spec, RunsAreAttributed

-----------------------------------------------------------------------------
(* A call leaves the registered phases alone but for the count of one of   *)
(* them, and registers at most one more.                                   *)
ChangesOnly(i) ==
  /\ gr_num_phases' \in {gr_num_phases, gr_num_phases + 1}
  /\ \A j \in Registered : /\ gr_phases'[j].start = gr_phases[j].start
                           /\ gr_phases'[j].end = gr_phases[j].end
                           /\ j # i => gr_phases'[j].count = gr_phases[j].count

(* gr_phase_start writes nothing below gr_num_phases.                      *)
LEMMA StartChangesNothing ==
  ASSUME IInv, NEW s \in StartSites, gr_phase_start(s)
  PROVE  ChangesOnly(-1)
<1>1. /\ gr_num_phases \in Nat /\ gr_num_phases' = gr_num_phases
      /\ gr_num_phases <= gr_max_num_phases /\ SlotsOf(gr_phases)
  BY DEF IInv, TypeOK, FreeSlotWithoutStatistics, gr_phase_start, FindKnown, FindNew,
         FindNewGrown, FindNewNoMemory, table
<1>2. \A j \in Registered : gr_phases'[j] = gr_phases[j]
  <2>1. CASE FindKnown(s)
    BY <2>1 DEF FindKnown, table
  <2>2. CASE FindNew(s)
    BY <1>1, <2>2 DEF FindNew, Registered
  <2>3. CASE FindNewGrown(s)
    <3>1. gr_phases' = Grown(gr_phases, gr_num_phases, FreshPhase(s, NoSite))
      BY <2>3 DEF FindNewGrown
    <3> QED
      BY <1>1, <3>1 DEF Grown, Registered
  <2>4. CASE FindNewNoMemory(s)
    <3>1. \/ gr_phases' = gr_phases
          \/ gr_phases' = Grown(gr_phases, gr_num_phases, BlankPhase)
      BY <2>4 DEF FindNewNoMemory
    <3> QED
      BY <1>1, <3>1 DEF Grown, Registered
  <2> QED
    BY <2>1, <2>2, <2>3, <2>4 DEF gr_phase_start
<1> QED
  BY <1>1, <1>2 DEF ChangesOnly

(* gr_phase_end changes the count of the entry it returns.                 *)
LEMMA EndChangesOne ==
  ASSUME IInv, NEW e \in EndSites, NEW run \in Measurements, gr_phase_end(e, run)
  PROVE  \E i \in Int : ChangesOnly(i)
<1> DEFINE slots == gr_max_num_phases
<1>0. /\ status = "ok" /\ has_start_phase \in BOOLEAN /\ is_in_mainloop \in BOOLEAN
      /\ gr_num_phases \in Nat /\ slots \in Nat /\ gr_num_phases <= slots
      /\ gr_phases \in [0 .. slots - 1 -> PhaseRecord]
      /\ gr_phases_perf \in [0 .. slots - 1 -> PerfRecord]
      /\ current_site \in StartSites \cup {NoSite}
      /\ run \in [length : Nat, events : Nat]
  BY MeasurementsAssumption DEF IInv, TypeOK, gr_phase_end, SlotsOf
<1>1. ASSUME NEW i \in 0 .. slots - 1,
             NEW phases \in [0 .. slots - 1 -> PhaseRecord],
             NEW perf \in [0 .. slots - 1 -> PerfRecord],
             Update(i, phases, perf, run),
             gr_num_phases' \in {gr_num_phases, gr_num_phases + 1},
             \A j \in Registered : phases[j] = gr_phases[j]
      PROVE  \E k \in Int : ChangesOnly(k)
  <2>1. \A j \in 0 .. slots - 1 : /\ gr_phases'[j].start = phases[j].start
                                  /\ gr_phases'[j].end = phases[j].end
                                  /\ j # i => gr_phases'[j].count = phases[j].count
    BY <1>0, <1>1, UpdateEffect
  <2>2. \A j \in Registered : j \in 0 .. slots - 1
    BY <1>0 DEF Registered
  <2>3. ChangesOnly(i)
    BY <1>1, <2>1, <2>2 DEF ChangesOnly
  <2> QED
    BY <2>3
<1>2. CASE EndFirst(e, run)
  <2> DEFINE start == gr_phases[gr_num_phases].start
             phases == [gr_phases EXCEPT ![gr_num_phases] = FreshPhase(start, e)]
             perf == [gr_phases_perf EXCEPT ![gr_num_phases] = BlankPerf]
  <2>1. gr_num_phases \in 0 .. slots - 1
    BY <1>0, <1>2 DEF IInv, OpenPhaseIsLocated, EndFirst, gr_phase_end
  <2>2. FreshPhase(start, e) \in PhaseRecord
    <3>1. start \in StartSites \cup {NoSite}
      BY <1>0, <2>1 DEF PhaseRecord
    <3> QED
      BY <3>1, BlankTypes
  <2>3. /\ phases \in [0 .. slots - 1 -> PhaseRecord]
        /\ perf \in [0 .. slots - 1 -> PerfRecord]
        /\ \A j \in Registered : phases[j] = gr_phases[j]
    BY <1>0, <2>1, <2>2, BlankTypes DEF Registered
  <2>4. Update(gr_num_phases, phases, perf, run) /\ gr_num_phases' = gr_num_phases + 1
    BY <1>2 DEF EndFirst
  <2> QED
    BY <1>1, <2>1, <2>3, <2>4
<1>3. CASE EndKnown(e, run)
  <2>1. PICK i \in Registered : Update(i, gr_phases, gr_phases_perf, run)
    BY <1>3 DEF EndKnown
  <2>2. i \in 0 .. slots - 1 /\ gr_num_phases' = gr_num_phases
    BY <1>0, <1>3 DEF EndKnown, Registered
  <2> QED
    BY <1>0, <1>1, <2>1, <2>2
<1>4. CASE EndSplit(e, run)
  <2> DEFINE phases == [gr_phases EXCEPT ![gr_num_phases] = FreshPhase(current_site, e)]
             perf == [gr_phases_perf EXCEPT ![gr_num_phases] = BlankPerf]
  <2>1. gr_num_phases \in 0 .. slots - 1
    BY <1>0, <1>4 DEF EndSplit
  <2>2. FreshPhase(current_site, e) \in PhaseRecord
    BY <1>0, BlankTypes
  <2>3. /\ phases \in [0 .. slots - 1 -> PhaseRecord]
        /\ perf \in [0 .. slots - 1 -> PerfRecord]
        /\ \A j \in Registered : phases[j] = gr_phases[j]
    BY <1>0, <2>1, <2>2, BlankTypes DEF Registered
  <2>4. Update(gr_num_phases, phases, perf, run) /\ gr_num_phases' = gr_num_phases + 1
    BY <1>4 DEF EndSplit
  <2> QED
    BY <1>1, <2>1, <2>3, <2>4
<1>5. CASE EndSplitGrown(e)
  <2>1. /\ gr_phases' = Grown(gr_phases, gr_num_phases, FreshPhase(current_site, e))
        /\ gr_num_phases' = gr_num_phases + 1
    BY <1>5 DEF EndSplitGrown
  <2>2. \A j \in Registered : gr_phases'[j] = gr_phases[j]
    BY <1>0, <2>1 DEF Grown, Registered
  <2>3. ChangesOnly(-1)
    BY <2>1, <2>2 DEF ChangesOnly
  <2> QED
    BY <2>3
<1>6. CASE EndSplitNoMemory(e)
  <2>1. ChangesOnly(-1)
    BY <1>6 DEF EndSplitNoMemory, ChangesOnly
  <2> QED
    BY <2>1
<1> QED
  BY <1>2, <1>3, <1>4, <1>5, <1>6 DEF gr_phase_end

(***************************************************************************)
(* A registered phase keeps its index and its call sites for good, and one *)
(* call of gr_phase_end completes at most one phase.                       *)
(***************************************************************************)
THEOREM TableIsStable == Spec => PhasesAreStable
<1> DEFINE Stable ==
      /\ gr_num_phases' \in {gr_num_phases, gr_num_phases + 1}
      /\ \A i \in Registered : /\ gr_phases'[i].start = gr_phases[i].start
                               /\ gr_phases'[i].end = gr_phases[i].end
      /\ \A i, j \in Registered : gr_phases'[i].count # gr_phases[i].count
                                  /\ gr_phases'[j].count # gr_phases[j].count => i = j
<1>1. ASSUME NEW i \in Int, ChangesOnly(i) PROVE Stable
  BY <1>1 DEF ChangesOnly
<1>2. ASSUME UNCHANGED table PROVE Stable
  BY <1>2 DEF table
<1>3. IInv /\ [Next]_vars => Stable
  <2> SUFFICES ASSUME IInv, [Next]_vars PROVE Stable
    OBVIOUS
  <2>1. ASSUME NEW s \in StartSites, gr_phase_start(s) PROVE Stable
    BY <1>1, <2>1, StartChangesNothing
  <2>2. ASSUME NEW e \in EndSites, NEW run \in Measurements, gr_phase_end(e, run)
        PROVE  Stable
    <3>1. PICK i \in Int : ChangesOnly(i)
      BY <2>2, EndChangesOne
    <3> QED
      BY <1>1, <3>1
  <2> HIDE DEF Stable
  <2>3. CASE UNCHANGED vars \/ NullDereference \/ gr_mainloop_start \/ gr_mainloop_end
    BY <1>2, <2>3 DEF vars, NullDereference, gr_mainloop_start, gr_mainloop_end, Mainloop
  <2> QED
    BY <2>1, <2>2, <2>3 DEF Next, Halted
<1> QED
  BY <1>3, IInvHolds, PTL DEF Spec, PhasesAreStable
=============================================================================
