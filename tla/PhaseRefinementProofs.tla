------------------------ MODULE PhaseRefinementProofs ------------------------
(***************************************************************************)
(* PhaseTable implements PhaseHistory: for every set of call sites, every  *)
(* set of measurements, every counter width and every initial size, the    *)
(* table with its guesses, caches and reallocation is the plain map from   *)
(* pairs of call sites to summaries.                                       *)
(***************************************************************************)
EXTENDS PhaseTableProofs, FiniteSetTheorems

(***************************************************************************)
(* What the refinement needs beyond IInv: the table never shrinks below    *)
(* its first size, an open phase has a call site, and -1 stands for "none  *)
(* yet" in a counter exactly as long as nothing was counted.               *)
(***************************************************************************)
NeverShrinks == gr_max_num_phases >= DefaultNumPhases

OpenSiteIsKnown == has_start_phase => current_site \in StartSites

Sound(c) ==
  IF c.count = 0 THEN c.min = -1 /\ c.max = -1 ELSE c.min >= 0 /\ c.max >= 0

CountersAreSound ==
  status = "ok" => \A i \in Registered : Sound(gr_phases_perf[i].perf_counter)

RInv == IInv /\ NeverShrinks /\ OpenSiteIsKnown /\ CountersAreSound

(***************************************************************************)
(* The four ways in which gr_phase_end goes on from IInv.                  *)
(***************************************************************************)
KeepsEntry(j) ==
  gr_phases'[j] = gr_phases[j] /\ gr_phases_perf'[j] = gr_phases_perf[j]

FirstEntry(e) == [start |-> current_site, end |-> e, count |-> 1]

(* A pair of call sites that no entry has gets one with a single run.      *)
Adds(e, run) ==
  /\ status' = "ok" /\ ~has_start_phase'
  /\ Matches(e) = {}
  /\ gr_num_phases' = gr_num_phases + 1
  /\ \A j \in Registered : KeepsEntry(j)
  /\ gr_phases'[gr_num_phases] = FirstEntry(e)
  /\ gr_phases_perf'[gr_num_phases] = UpdatedPerf(BlankPerf, 1, run, is_in_mainloop)

OneMore(p) == [start |-> p.start, end |-> p.end, count |-> p.count + 1]

(* The entry of the pair counts one more run, and no other changes.        *)
Counts(i, run) ==
  /\ status' = "ok" /\ ~has_start_phase'
  /\ gr_num_phases' = gr_num_phases
  /\ \A j \in Registered : j # i => KeepsEntry(j)
  /\ gr_phases[i].count < CountMod - 1
  /\ gr_phases'[i] = OneMore(gr_phases[i])
  /\ gr_phases_perf'[i] =
       UpdatedPerf(gr_phases_perf[i], gr_phases[i].count + 1, run, is_in_mainloop)

(* The count of an entry, or the table, is at its limit.                   *)
Wraps == status' = "fault" /\ \E i \in Registered : gr_phases[i].count = CountMod - 1
Fills == status' # "ok" /\ gr_num_phases = gr_max_num_phases

-----------------------------------------------------------------------------
(* gr_update_phase on an entry of the table, or on a new one.              *)
Updated(n, i, phases, perf, run) ==
  /\ status' = "ok" /\ ~has_start_phase'
  /\ phases[i].count < CountMod - 1
  /\ \A j \in 0 .. n - 1 : j # i => gr_phases'[j] = phases[j]
                                    /\ gr_phases_perf'[j] = perf[j]
  /\ gr_phases'[i] = OneMore(phases[i])
  /\ gr_phases_perf'[i] =
       UpdatedPerf(perf[i], phases[i].count + 1, run, is_in_mainloop)

LEMMA UpdateExactly ==
  ASSUME NEW n \in Nat, NEW i \in 0 .. n - 1,
         NEW phases \in [0 .. n - 1 -> PhaseRecord],
         NEW perf \in [0 .. n - 1 -> PerfRecord],
         NEW run, status = "ok", Update(i, phases, perf, run)
  PROVE  \/ status' = "fault" /\ phases[i].count = CountMod - 1
         \/ Updated(n, i, phases, perf, run)
<1> DEFINE count == (phases[i].count + 1) % CountMod
<1>1. phases[i] \in PhaseRecord /\ phases[i].count \in 0 .. CountMod - 1
  BY DEF PhaseRecord
<1>2. CASE count = 0
  <2>1. status' = "fault"
    BY <1>2 DEF Update
  <2>2. phases[i].count = CountMod - 1
    BY <1>1, <1>2, CountModAssumption
  <2> QED
    BY <2>1, <2>2
<1>3. CASE count # 0
  <2>1. count = phases[i].count + 1 /\ phases[i].count < CountMod - 1
    <3>1. count = phases[i].count + 1
      BY <1>1, <1>3, NextCount
    <3>2. count < CountMod
      BY <1>1, CountInRange, CountModAssumption
    <3> QED
      BY <1>1, <3>1, <3>2, CountModAssumption
  <2>2. /\ gr_phases' = [phases EXCEPT ![i].count = count]
        /\ gr_phases_perf' =
             [perf EXCEPT ![i] = UpdatedPerf(perf[i], count, run, is_in_mainloop)]
        /\ status' = "ok" /\ ~has_start_phase'
    BY <1>3 DEF Update
  <2> HIDE DEF count
  <2>3. /\ gr_phases'[i] = [start |-> phases[i].start, end |-> phases[i].end, count |-> count]
        /\ gr_phases_perf'[i] = UpdatedPerf(perf[i], count, run, is_in_mainloop)
        /\ \A j \in 0 .. n - 1 : j # i => gr_phases'[j] = phases[j]
                                          /\ gr_phases_perf'[j] = perf[j]
    BY <1>1, <2>2 DEF PhaseRecord
  <2> QED
    BY <2>1, <2>2, <2>3 DEF OneMore, Updated
<1> QED
  BY <1>2, <1>3

Entered(n, i, s, e, run) ==
  /\ status' = "ok" /\ ~has_start_phase'
  /\ \A j \in 0 .. n - 1 : j # i => KeepsEntry(j)
  /\ gr_phases'[i] = [start |-> s, end |-> e, count |-> 1]
  /\ gr_phases_perf'[i] = UpdatedPerf(BlankPerf, 1, run, is_in_mainloop)

(* A new entry never wraps, and has one run.                               *)
LEMMA NewEntryExactly ==
  ASSUME NEW n \in Nat, NEW i \in 0 .. n - 1,
         gr_phases \in [0 .. n - 1 -> PhaseRecord],
         gr_phases_perf \in [0 .. n - 1 -> PerfRecord],
         NEW s \in StartSites \cup {NoSite}, NEW e \in EndSites,
         NEW run, status = "ok",
         Update(i, [gr_phases EXCEPT ![i] = FreshPhase(s, e)],
                [gr_phases_perf EXCEPT ![i] = BlankPerf], run)
  PROVE  Entered(n, i, s, e, run)
<1> DEFINE slot == FreshPhase(s, e)
           phases == [gr_phases EXCEPT ![i] = slot]
           perf == [gr_phases_perf EXCEPT ![i] = BlankPerf]
<1>1. slot = [start |-> s, end |-> e, count |-> 0] /\ slot \in PhaseRecord
      /\ BlankPerf \in PerfRecord
  BY BlankTypes DEF FreshPhase
<1>2. Update(i, phases, perf, run)
  OBVIOUS
<1> HIDE DEF slot
<1>3. /\ phases \in [0 .. n - 1 -> PhaseRecord] /\ phases[i] = slot
      /\ perf \in [0 .. n - 1 -> PerfRecord] /\ perf[i] = BlankPerf
      /\ \A j \in 0 .. n - 1 : j # i => phases[j] = gr_phases[j]
                                        /\ perf[j] = gr_phases_perf[j]
  BY <1>1
<1> HIDE DEF phases, perf
<1>4. phases[i].count = 0 /\ 0 < CountMod - 1 /\ 0 # CountMod - 1 /\ 0 + 1 = 1
  BY <1>1, <1>3, CountModAssumption
<1>5. /\ status' = "ok" /\ ~has_start_phase'
      /\ \A j \in 0 .. n - 1 : j # i => gr_phases'[j] = phases[j]
                                        /\ gr_phases_perf'[j] = perf[j]
      /\ gr_phases'[i] = OneMore(slot)
      /\ gr_phases_perf'[i] = UpdatedPerf(BlankPerf, 1, run, is_in_mainloop)
  <2>1. \/ status' = "fault" /\ phases[i].count = CountMod - 1
        \/ Updated(n, i, phases, perf, run)
    BY <1>2, <1>3, UpdateExactly
  <2>2. phases[i].count + 1 = 1 /\ phases[i].count # CountMod - 1
    BY <1>4
  <2> QED
    BY <1>3, <2>1, <2>2 DEF Updated
<1> QED
  BY <1>1, <1>3, <1>5 DEF KeepsEntry, OneMore, Entered

LEMMA EndShapes ==
  ASSUME IInv, NEW e \in EndSites, NEW run \in Measurements, gr_phase_end(e, run)
  PROVE  \/ Adds(e, run)
         \/ \E i \in Matches(e) : Counts(i, run)
         \/ Wraps
         \/ Fills
<1> DEFINE slots == gr_max_num_phases
<1>0. /\ status = "ok" /\ has_start_phase
      /\ gr_num_phases \in Nat /\ slots \in Nat /\ gr_num_phases <= slots
      /\ gr_phases \in [0 .. slots - 1 -> PhaseRecord]
      /\ gr_phases_perf \in [0 .. slots - 1 -> PerfRecord]
      /\ current_site \in StartSites \cup {NoSite}
  BY DEF IInv, TypeOK, gr_phase_end, SlotsOf
<1>6. ASSUME gr_num_phases \in 0 .. slots - 1, Matches(e) = {},
             gr_num_phases' = gr_num_phases + 1,
             Update(gr_num_phases,
               [gr_phases EXCEPT ![gr_num_phases] = FreshPhase(current_site, e)],
               [gr_phases_perf EXCEPT ![gr_num_phases] = BlankPerf], run)
      PROVE  Adds(e, run)
  <2>1. \A j \in Registered : j \in 0 .. slots - 1 /\ j # gr_num_phases
    BY <1>0 DEF Registered
  <2>2. Entered(slots, gr_num_phases, current_site, e, run)
    BY <1>0, <1>6, NewEntryExactly
  <2> QED
    BY <1>6, <2>1, <2>2 DEF Adds, FirstEntry, Entered
<1>1. CASE EndFirst(e, run)
  <2>1. /\ gr_num_phases \in 0 .. slots - 1
        /\ gr_phases[gr_num_phases].start = current_site
        /\ Candidates(current_site) = {}
    BY <1>0, <1>1 DEF IInv, OpenPhaseIsLocated, EndFirst, TypeOK
  <2>2. Matches(e) = {}
    BY <2>1 DEF Matches, Candidates, compare_phase
  <2> QED
    BY <1>1, <1>6, <2>1, <2>2 DEF EndFirst
<1>2. CASE EndKnown(e, run)
  <2>1. PICK i \in Registered :
          Located(i, e) /\ Update(i, gr_phases, gr_phases_perf, run)
    BY <1>2 DEF EndKnown
  <2>2. i \in Matches(e)
    BY <2>1 DEF Located, Matches
  <2>3. i \in 0 .. slots - 1 /\ \A j \in Registered : j \in 0 .. slots - 1
    BY <1>0 DEF Registered
  <2>4. gr_num_phases' = gr_num_phases
    BY <1>2 DEF EndKnown
  <2>5. \/ status' = "fault" /\ gr_phases[i].count = CountMod - 1
        \/ Counts(i, run)
    BY <1>0, <2>1, <2>3, <2>4, UpdateExactly, SMTT(30) DEF Counts, KeepsEntry, Updated
  <2> QED
    BY <2>2, <2>5 DEF Wraps
<1>3. CASE EndSplit(e, run)
  <2>1. gr_num_phases \in 0 .. slots - 1 /\ Matches(e) = {}
    BY <1>0, <1>3 DEF EndSplit
  <2> QED
    BY <1>3, <1>6, <2>1 DEF EndSplit
<1>4. CASE EndSplitGrown(e) \/ EndSplitNoMemory(e)
  BY <1>4 DEF EndSplitGrown, EndSplitNoMemory, Fills
<1> QED
  BY <1>1, <1>2, <1>3, <1>4 DEF gr_phase_end

-----------------------------------------------------------------------------
(* A counter that moves by a natural number stays sound.                   *)
LEMMA CounterStaysSound ==
  ASSUME NEW c \in CounterRecord, Sound(c), NEW value \in Nat
  PROVE  Sound(gr_perfctr_update(c, value))
BY DEF CounterRecord, Sound, gr_perfctr_update

LEMMA PerfStaysSound ==
  ASSUME NEW pp \in PerfRecord, Sound(pp.perf_counter), NEW n \in Nat,
         NEW run \in [length : Nat, events : Nat], NEW in \in BOOLEAN
  PROVE  Sound(UpdatedPerf(pp, n, run, in).perf_counter)
<1>1. pp.perf_counter \in CounterRecord /\ run.events \in Nat
  BY DEF PerfRecord
<1>2. UpdatedPerf(pp, n, run, in).perf_counter =
        IF in THEN gr_perfctr_update(pp.perf_counter, run.events) ELSE pp.perf_counter
  BY DEF UpdatedPerf
<1>3. Sound(gr_perfctr_update(pp.perf_counter, run.events))
  BY <1>1, CounterStaysSound
<1> QED
  BY <1>2, <1>3

LEMMA BlankIsSound == BlankPerf \in PerfRecord /\ Sound(BlankPerf.perf_counter)
BY BlankTypes DEF BlankPerf, gr_perfctr_init_counter, Sound

LEMMA InitRInv == Init => RInv
BY InitIInv, DefaultNumPhasesAssumption
DEF Init, RInv, NeverShrinks, OpenSiteIsKnown, CountersAreSound, Registered

(* gr_phase_start leaves every registered entry alone, or has no memory.   *)
LEMMA StartShapes ==
  ASSUME IInv, NEW s \in StartSites, gr_phase_start(s), status = "ok"
  PROVE  /\ gr_num_phases' = gr_num_phases
         /\ \/ status' = "ok" /\ \A j \in Registered : KeepsEntry(j)
            \/ Fills
<1>0. /\ gr_num_phases \in Nat /\ gr_max_num_phases \in Nat
      /\ gr_num_phases <= gr_max_num_phases
      /\ gr_phases \in [0 .. gr_max_num_phases - 1 -> PhaseRecord]
      /\ gr_phases_perf \in [0 .. gr_max_num_phases - 1 -> PerfRecord]
  BY DEF IInv, TypeOK, SlotsOf
<1>1. CASE FindKnown(s) /\ status' = "ok"
  BY <1>1 DEF FindKnown, table, KeepsEntry
<1>2. CASE FindNew(s) /\ status' = "ok"
  BY <1>0, <1>2 DEF FindNew, KeepsEntry, Registered
<1>3. CASE FindNewGrown(s) /\ status' = "ok"
  <2>1. /\ gr_phases' = Grown(gr_phases, gr_num_phases, FreshPhase(s, NoSite))
        /\ gr_phases_perf' = Grown(gr_phases_perf, gr_num_phases, BlankPerf)
        /\ gr_num_phases' = gr_num_phases
    BY <1>3 DEF FindNewGrown
  <2>2. \A j \in Registered : gr_phases'[j] = gr_phases[j]
    BY <1>0, <2>1 DEF Grown, Registered
  <2>3. \A j \in Registered : gr_phases_perf'[j] = gr_phases_perf[j]
    BY <1>0, <2>1 DEF Grown, Registered
  <2> QED
    BY <1>3, <2>1, <2>2, <2>3 DEF KeepsEntry
<1>4. CASE FindNewNoMemory(s)
  BY <1>4 DEF FindNewNoMemory, Fills
<1> QED
  BY <1>1, <1>2, <1>3, <1>4 DEF gr_phase_start

LEMMA NextPreservesRInv == RInv /\ [Next]_vars => RInv'
<1> SUFFICES ASSUME RInv, [Next]_vars PROVE RInv'
  OBVIOUS
<1>0. IInv /\ IInv'
  BY NextPreserves DEF RInv
<1>1. CASE UNCHANGED vars \/ Halted
  BY <1>0, <1>1
  DEF RInv, vars, table, Halted, NeverShrinks, OpenSiteIsKnown, CountersAreSound,
      Registered
<1>2. CASE NullDereference \/ gr_mainloop_start \/ gr_mainloop_end
  BY <1>0, <1>2
  DEF RInv, table, NullDereference, gr_mainloop_start, gr_mainloop_end, Mainloop,
      NeverShrinks, OpenSiteIsKnown, CountersAreSound, Registered
<1>3. ASSUME NEW s \in StartSites, gr_phase_start(s) PROVE RInv'
  <2>1. NeverShrinks'
    BY <1>3, DefaultNumPhasesAssumption
    DEF RInv, IInv, TypeOK, NeverShrinks, gr_phase_start, FindKnown, FindNew,
        FindNewGrown, FindNewNoMemory, table
  <2>2. OpenSiteIsKnown'
    BY <1>3 DEF gr_phase_start, OpenSiteIsKnown
  <2>3. CASE status = "ok"
    <3>1. CountersAreSound'
      BY <1>0, <1>3, <2>3, StartShapes
      DEF RInv, CountersAreSound, Registered, KeepsEntry, Fills
    <3> QED
      BY <1>0, <2>1, <2>2, <3>1 DEF RInv
  <2>4. CASE status # "ok"
    <3>1. status' # "ok"
      BY <1>3, <2>4 DEF gr_phase_start, FindNewNoMemory
    <3> QED
      BY <1>0, <2>1, <2>2, <3>1 DEF RInv, CountersAreSound
  <2> QED
    BY <2>3, <2>4
<1>4. ASSUME NEW e \in EndSites, NEW run \in Measurements, gr_phase_end(e, run)
      PROVE  RInv'
  <2>0. /\ gr_num_phases \in Nat /\ is_in_mainloop \in BOOLEAN /\ status = "ok"
        /\ gr_num_phases <= gr_max_num_phases
        /\ gr_phases \in [0 .. gr_max_num_phases - 1 -> PhaseRecord]
        /\ gr_phases_perf \in [0 .. gr_max_num_phases - 1 -> PerfRecord]
        /\ run \in [length : Nat, events : Nat]
    BY <1>0, <1>4, MeasurementsAssumption DEF IInv, TypeOK, SlotsOf, gr_phase_end
  <2>1. NeverShrinks'
    <3>1. gr_max_num_phases' = gr_max_num_phases
          \/ gr_max_num_phases' = gr_max_num_phases + 1
      BY <1>4, Zenon DEF gr_phase_end, EndFirst, EndKnown, EndSplit, EndSplitGrown,
                         EndSplitNoMemory
    <3> QED
      BY <3>1, DefaultNumPhasesAssumption DEF RInv, IInv, TypeOK, NeverShrinks
  <2>2. OpenSiteIsKnown'
    BY <1>4 DEF RInv, OpenSiteIsKnown, gr_phase_end
  <2>3. CASE Adds(e, run)
    <3>1. Sound(gr_phases_perf'[gr_num_phases].perf_counter)
      BY <2>0, <2>3, BlankIsSound, PerfStaysSound DEF Adds
    <3>2. CountersAreSound'
      BY <2>0, <2>3, <3>1 DEF RInv, Adds, KeepsEntry, CountersAreSound, Registered
    <3> QED
      BY <1>0, <2>1, <2>2, <3>2 DEF RInv
  <2>4. ASSUME NEW i \in Matches(e), Counts(i, run) PROVE RInv'
    <3>1. /\ i \in Registered
          /\ gr_phases_perf[i] \in PerfRecord /\ gr_phases[i].count + 1 \in Nat
      <4>1. i \in Registered
        BY DEF Matches
      <4>2. gr_phases[i] \in PhaseRecord /\ gr_phases_perf[i] \in PerfRecord
        BY <1>0, <2>0, <4>1 DEF Registered, IInv, TypeOK
      <4> QED
        BY <4>1, <4>2, CountModAssumption DEF PhaseRecord
    <3>2. Sound(gr_phases_perf[i].perf_counter)
      BY <2>0, <3>1 DEF RInv, CountersAreSound
    <3>3. Sound(gr_phases_perf'[i].perf_counter)
      BY <2>0, <2>4, <3>1, <3>2, PerfStaysSound DEF Counts
    <3>4. CountersAreSound'
      BY <2>0, <2>4, <3>1, <3>3 DEF RInv, Counts, KeepsEntry, CountersAreSound, Registered
    <3> QED
      BY <1>0, <2>1, <2>2, <3>4 DEF RInv
  <2>5. CASE Wraps \/ Fills
    <3>1. CountersAreSound'
      BY <2>5 DEF Wraps, Fills, CountersAreSound
    <3> QED
      BY <1>0, <2>1, <2>2, <3>1 DEF RInv
  <2> QED
    BY <1>0, <1>4, <2>3, <2>4, <2>5, EndShapes
<1> QED
  BY <1>1, <1>2, <1>3, <1>4 DEF Next

-----------------------------------------------------------------------------
(* Entries of different pairs of call sites give different rows, and there *)
(* are as many rows as entries.                                            *)
LEMMA RowsDiffer ==
  ASSUME IInv, NEW i \in Registered, NEW j \in Registered, Row(i) = Row(j)
  PROVE  i = j
<1>1. gr_phases[i].start = gr_phases[j].start /\ gr_phases[i].end = gr_phases[j].end
  BY DEF Row
<1> QED
  BY <1>1 DEF IInv, NoDuplicatePhase, compare_phase

LEMMA RowsCount ==
  ASSUME IInv, status = "ok"
  PROVE  Cardinality(Rows) = gr_num_phases
<1> DEFINE f == [i \in Registered |-> Row(i)]
<1>1. /\ gr_num_phases \in Nat
      /\ Rows = {Row(i) : i \in Registered}
  BY DEF IInv, TypeOK, Rows
<1>2. IsFiniteSet(Registered) /\ Cardinality(Registered) = gr_num_phases
  BY <1>1, FS_Interval DEF Registered
<1>3. f \in Surjection(Registered, Rows)
  BY <1>1 DEF Surjection
<1>4. f \in Injection(Registered, Rows)
  BY <1>1, RowsDiffer DEF Injection, IsInjective
<1> QED
  BY <1>2, <1>3, <1>4, FS_Surjection

(* The events of a counter after one more reading, if it is read at all.   *)
LEMMA EventsOfNext ==
  ASSUME NEW c \in CounterRecord, Sound(c), NEW run \in [length : Nat, events : Nat]
  PROVE  Events(IF is_in_mainloop THEN gr_perfctr_update(c, run.events) ELSE c) =
           History!Counted(Events(c), run)
<1>1. run.events \in Nat
  OBVIOUS
<1>2. CASE is_in_mainloop
  <2> DEFINE d == gr_perfctr_update(c, run.events)
  <2>1. Events(d) = History!MoreEvents(Events(c), run.events)
    BY <1>1
    DEF CounterRecord, Sound, gr_perfctr_update, Events, History!MoreEvents
  <2> QED
    BY <1>2, <2>1 DEF History!Counted
<1>3. CASE ~is_in_mainloop
  BY <1>3 DEF History!Counted
<1> QED
  BY <1>2, <1>3

(* A new entry is the row of a first run.                                  *)
LEMMA AddedRow ==
  ASSUME RInv, status = "ok", NEW e \in EndSites, NEW run \in Measurements, Adds(e, run)
  PROVE  Rows' = Rows \cup {History!FirstRun(current_site, e, run)}
<1>1. /\ gr_num_phases \in Nat /\ status' = "ok"
      /\ run \in [length : Nat, events : Nat]
      /\ Registered' = Registered \cup {gr_num_phases}
  BY MeasurementsAssumption DEF RInv, IInv, TypeOK, Adds, Registered
<1>2. \A j \in Registered : Row(j)' = Row(j)
  BY DEF Adds, KeepsEntry, Row
<1>3. ASSUME NEW k \in Nat, k = gr_num_phases
      PROVE  Row(k)' = History!FirstRun(current_site, e, run)
  <2> DEFINE pp == UpdatedPerf(BlankPerf, 1, run, is_in_mainloop)
             c == gr_perfctr_init_counter
  <2>1. /\ pp.max = run.length /\ pp.min = run.length
        /\ pp.perf_counter =
             IF is_in_mainloop THEN gr_perfctr_update(c, run.events) ELSE c
    BY <1>1 DEF UpdatedPerf, BlankPerf
  <2>2. Events(pp.perf_counter) = History!Counted(History!NoEvents, run)
    <3>1. c \in CounterRecord /\ Sound(c) /\ Events(c) = History!NoEvents
      BY DEF CounterRecord, Sound, gr_perfctr_init_counter, Events, History!NoEvents
    <3> QED
      BY <1>1, <2>1, <3>1, EventsOfNext
  <2>3. /\ gr_phases'[k] =
             [start |-> current_site, end |-> e, count |-> 1]
        /\ gr_phases_perf'[k] = pp
    BY <1>3 DEF Adds, FirstEntry
  <2> HIDE DEF pp
  <2>4. Row(k)' =
          [start |-> current_site, end |-> e, count |-> 1,
           longest |-> run.length, shortest |-> run.length,
           events |-> Events(pp.perf_counter)]
    <3>1. Row(k)' =
            [start |-> gr_phases'[k].start,
             end |-> gr_phases'[k].end,
             count |-> gr_phases'[k].count,
             longest |-> gr_phases_perf'[k].max,
             shortest |-> gr_phases_perf'[k].min,
             events |-> Events(gr_phases_perf'[k].perf_counter)]
      BY DEF Row
    <3> QED
      BY <2>1, <2>3, <3>1
  <2> QED
    BY <2>2, <2>4 DEF History!FirstRun
<1>4. PICK k \in Nat : k = gr_num_phases
  BY <1>1
<1>5. Row(k)' = History!FirstRun(current_site, e, run)
  BY <1>3, <1>4
<1>6. Rows' = {Row(j)' : j \in Registered \cup {k}}
  BY <1>1, <1>4 DEF Rows
<1> QED
  BY <1>1, <1>2, <1>5, <1>6 DEF Rows

(* What one more run makes of a summary, field by field.                   *)
LEMMA AnotherRunFields ==
  ASSUME NEW s, NEW e, NEW n, NEW long, NEW short, NEW v, NEW run, NEW r,
         r = [start |-> s, end |-> e, count |-> n, longest |-> long,
              shortest |-> short, events |-> v]
  PROVE  History!AnotherRun(r, run) =
           [start |-> s, end |-> e, count |-> n + 1,
            longest |-> IF run.length > long THEN run.length ELSE long,
            shortest |-> IF short = 0 \/ run.length < short THEN run.length ELSE short,
            events |-> History!Counted(v, run)]
<1>1. /\ r.count = n /\ r.longest = long /\ r.shortest = short /\ r.events = v
  OBVIOUS
<1>2. History!AnotherRun(r, run) =
        [r EXCEPT !.count = r.count + 1,
                  !.longest = IF run.length > r.longest THEN run.length ELSE r.longest,
                  !.shortest = IF r.shortest = 0 \/ run.length < r.shortest
                               THEN run.length ELSE r.shortest,
                  !.events = History!Counted(r.events, run)]
  BY Zenon DEF History!AnotherRun
<1> QED
  BY <1>1, <1>2

(* An entry that counts one more run is the row of another run.            *)
LEMMA CountedRow ==
  ASSUME RInv, status = "ok", NEW i \in Registered, NEW run \in Measurements,
         Counts(i, run)
  PROVE  Rows' = (Rows \ {Row(i)}) \cup {History!AnotherRun(Row(i), run)}
<1>1. /\ gr_num_phases \in Nat /\ status' = "ok"
      /\ run \in [length : Nat, events : Nat]
      /\ Registered' = Registered /\ i \in Int
      /\ gr_phases_perf[i] \in PerfRecord
      /\ gr_phases_perf[i].perf_counter \in CounterRecord
      /\ Sound(gr_phases_perf[i].perf_counter)
  <2>1. gr_phases_perf[i] \in PerfRecord
    BY DEF RInv, IInv, TypeOK, SlotsOf, Registered
  <2> QED
    BY <2>1, MeasurementsAssumption
    DEF RInv, IInv, TypeOK, Counts, Registered, CountersAreSound, PerfRecord
<1>2. \A j \in Registered : j # i => Row(j)' = Row(j)
  BY DEF Counts, KeepsEntry, Row
<1>3. Row(i)' = History!AnotherRun(Row(i), run)
  <2> DEFINE p == gr_phases[i]
             pp == gr_phases_perf[i]
             qq == UpdatedPerf(pp, p.count + 1, run, is_in_mainloop)
  <2>1. /\ qq.max = IF run.length > pp.max THEN run.length ELSE pp.max
        /\ qq.min = IF pp.min = 0 \/ run.length < pp.min THEN run.length ELSE pp.min
        /\ qq.perf_counter = IF is_in_mainloop
                             THEN gr_perfctr_update(pp.perf_counter, run.events)
                             ELSE pp.perf_counter
    BY DEF UpdatedPerf
  <2>2. Events(qq.perf_counter) = History!Counted(Events(pp.perf_counter), run)
    BY <1>1, <2>1, EventsOfNext
  <2>3. /\ gr_phases'[i] = [start |-> p.start, end |-> p.end, count |-> p.count + 1]
        /\ gr_phases_perf'[i] = qq
    BY DEF Counts, OneMore
  <2> HIDE DEF qq
  <2>4. Row(i)' = [start |-> p.start, end |-> p.end, count |-> p.count + 1,
                   longest |-> qq.max, shortest |-> qq.min,
                   events |-> Events(qq.perf_counter)]
    <3>1. Row(i)' =
            [start |-> gr_phases'[i].start, end |-> gr_phases'[i].end,
             count |-> gr_phases'[i].count,
             longest |-> gr_phases_perf'[i].max, shortest |-> gr_phases_perf'[i].min,
             events |-> Events(gr_phases_perf'[i].perf_counter)]
      BY DEF Row
    <3> QED
      BY <2>3, <3>1
  <2>5. Row(i) = [start |-> p.start, end |-> p.end, count |-> p.count,
                  longest |-> pp.max, shortest |-> pp.min,
                  events |-> Events(pp.perf_counter)]
    BY DEF Row
  <2>6. History!AnotherRun(Row(i), run) =
          [start |-> p.start, end |-> p.end, count |-> p.count + 1,
           longest |-> IF run.length > pp.max THEN run.length ELSE pp.max,
           shortest |-> IF pp.min = 0 \/ run.length < pp.min THEN run.length ELSE pp.min,
           events |-> History!Counted(Events(pp.perf_counter), run)]
    BY <2>5, AnotherRunFields
  <2> QED
    BY <2>1, <2>2, <2>4, <2>6
<1>4. \A j \in Registered : Row(j) = Row(i) => j = i
  BY RowsDiffer DEF RInv
<1>5. Rows' = {Row(j)' : j \in Registered}
  BY <1>1 DEF Rows
<1> QED
  BY <1>2, <1>3, <1>4, <1>5 DEF Rows

-----------------------------------------------------------------------------
(* When a count or the table is at its limit, the abstract tracker may stop. *)
LEMMA LimitIsExhaustion ==
  ASSUME RInv, status = "ok", Wraps \/ Fills
  PROVE  History!Exhausted
<1>1. CASE Wraps
  <2>1. PICK i \in Registered : gr_phases[i].count = CountMod - 1
    BY <1>1 DEF Wraps
  <2>2. Row(i) \in Rows /\ Row(i).count = CountMod - 1
    BY <2>1 DEF Rows, Row
  <2> QED
    BY <2>2 DEF History!Exhausted
<1>2. CASE Fills
  <2>1. Cardinality(Rows) = gr_num_phases /\ gr_num_phases = gr_max_num_phases
    BY <1>2, RowsCount DEF RInv, Fills
  <2>2. Cardinality(Rows) >= DefaultNumPhases
    BY <2>1 DEF RInv, NeverShrinks
  <2>3. \A S : History!Cardinality(S) = Cardinality(S)
    BY Zenon DEF Cardinality, History!Cardinality
  <2> HIDE DEF Rows
  <2> QED
    BY <2>2, <2>3, Zenon DEF History!Exhausted
<1> QED
  BY <1>1, <1>2

(* The tracker stops for good with a fault or a failed reallocation.       *)
LEMMA StopsWell ==
  ASSUME RInv, status = "ok", Wraps \/ Fills, is_in_mainloop' = is_in_mainloop
  PROVE  History!Stop
<1>1. status' # "ok"
  BY DEF Wraps, Fills
<1> QED
  BY <1>1, LimitIsExhaustion DEF History!Stop, Rows, OpenSite

LEMMA EndRefines ==
  ASSUME RInv, NEW e \in EndSites, NEW run \in Measurements, gr_phase_end(e, run)
  PROVE  History!Next
<1>1. /\ status = "ok" /\ has_start_phase /\ is_in_mainloop' = is_in_mainloop
      /\ current_site \in StartSites /\ current_site # NoSite
      /\ OpenSite = current_site
  BY SitesAssumption DEF gr_phase_end, RInv, OpenSiteIsKnown, OpenSite
<1>2. CASE Adds(e, run)
  <2>1. History!SummariesOf(current_site, e) = {}
    BY <1>1, <1>2 DEF Adds, Matches, compare_phase, History!SummariesOf, Rows, Row
  <2>2. OpenSite' = NoSite /\ status' = "ok"
    BY <1>2 DEF Adds, OpenSite
  <2>3. Rows' = Rows \cup {History!FirstRun(current_site, e, run)}
    BY <1>1, <1>2, AddedRow
  <2>4. History!Complete(e, run)
    BY <1>1, <2>1, <2>2, <2>3 DEF History!Complete
  <2> QED
    BY <2>4 DEF History!Next
<1>3. ASSUME NEW i \in Matches(e), Counts(i, run) PROVE History!Next
  <2>1. i \in Registered /\ gr_phases[i].start = current_site /\ gr_phases[i].end = e
    BY DEF Matches, compare_phase
  <2>2. /\ Row(i) \in History!SummariesOf(current_site, e)
        /\ Row(i).count < CountMod - 1
    BY <1>1, <1>3, <2>1 DEF Counts, History!SummariesOf, Rows, Row
  <2>3. OpenSite' = NoSite /\ status' = "ok"
    BY <1>3 DEF Counts, OpenSite
  <2>4. Rows' = (Rows \ {Row(i)}) \cup {History!AnotherRun(Row(i), run)}
    BY <1>1, <1>3, <2>1, CountedRow
  <2>5. History!Complete(e, run)
    BY <1>1, <2>2, <2>3, <2>4 DEF History!Complete
  <2> QED
    BY <2>5 DEF History!Next
<1>4. CASE Wraps \/ Fills
  BY <1>1, <1>4, StopsWell DEF History!Next
<1> QED
  BY <1>2, <1>3, <1>4, EndShapes DEF RInv

LEMMA StartRefines ==
  ASSUME RInv, NEW s \in StartSites, gr_phase_start(s)
  PROVE  History!Next \/ UNCHANGED History!vars
<1>1. current_site' = s /\ has_start_phase' = TRUE /\ is_in_mainloop' = is_in_mainloop
  BY DEF gr_phase_start
<1>2. CASE status = "ok"
  <2>1. CASE status' = "ok" /\ gr_num_phases' = gr_num_phases
             /\ \A j \in Registered : KeepsEntry(j)
    <3>1. Registered' = Registered /\ \A j \in Registered : Row(j)' = Row(j)
      BY <2>1 DEF Registered, KeepsEntry, Row
    <3>2. Rows' = Rows
      BY <1>2, <2>1, <3>1 DEF Rows
    <3>3. History!Start(s)
      BY <1>1, <1>2, <2>1, <3>2 DEF History!Start, OpenSite
    <3> QED
      BY <3>3 DEF History!Next
  <2>2. CASE Fills
    BY <1>1, <1>2, <2>2, StopsWell DEF History!Next
  <2> QED
    BY <1>2, <2>1, <2>2, StartShapes DEF RInv
<1>3. CASE status # "ok"
  <2>1. status' # "ok"
    BY <1>3 DEF gr_phase_start, FindNewNoMemory
  <2> QED
    BY <1>1, <1>3, <2>1 DEF History!vars, Rows, OpenSite
<1> QED
  BY <1>2, <1>3

LEMMA MainloopRefines ==
  ASSUME NEW in \in BOOLEAN, Mainloop(in)
  PROVE  History!Next
<1>1. Rows' = Rows /\ OpenSite' = OpenSite
  BY DEF Mainloop, table, Rows, Registered, Row, OpenSite
<1>2. History!Count(in)
  BY <1>1 DEF Mainloop, History!Count
<1> QED
  BY <1>2 DEF History!Next

LEMMA StepRefines ==
  ASSUME RInv, [Next]_vars
  PROVE  History!Next \/ UNCHANGED History!vars
<1>1. CASE UNCHANGED vars \/ Halted
  <2>1. UNCHANGED vars
    BY <1>1 DEF Halted
  <2>2. Registered' = Registered /\ \A i : Row(i)' = Row(i)
    BY <2>1 DEF vars, table, Registered, Row
  <2>3. Rows' = Rows
    BY <2>1, <2>2 DEF vars, Rows
  <2> QED
    BY <2>1, <2>3 DEF vars, History!vars, OpenSite
<1>2. CASE NullDereference
  BY <1>2 DEF NullDereference, History!vars, Rows, OpenSite
<1>3. CASE gr_mainloop_start \/ gr_mainloop_end
  BY <1>3, MainloopRefines DEF gr_mainloop_start, gr_mainloop_end
<1> QED
  BY <1>1, <1>2, <1>3, StartRefines, EndRefines DEF Next

LEMMA InitRefines == Init => History!Init
BY DEF Init, History!Init, Rows, Registered, OpenSite

(***************************************************************************)
(* The strengthened invariant of every run.                                *)
(***************************************************************************)
THEOREM RInvHolds == Spec => []RInv
<1> QED
  BY InitRInv, NextPreservesRInv, PTL DEF Spec

(***************************************************************************)
(* Every completed phase is counted once, in the summary of its own pair   *)
(* of call sites and in no other, and the tracker only stops when a count  *)
(* or the initial number of slots is exhausted.                            *)
(***************************************************************************)
THEOREM TableIsHistory == Spec => ImplementsHistory
<1>1. RInv /\ [Next]_vars => [History!Next]_(History!vars)
  BY StepRefines
<1> QED
  BY RInvHolds, InitRefines, <1>1, PTL DEF Spec, ImplementsHistory, History!Spec
=============================================================================
