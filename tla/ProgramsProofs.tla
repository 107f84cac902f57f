---------------------------- MODULE ProgramsProofs ----------------------------
(***************************************************************************)
(* The programs of a node, for any cast of simulation processes, analytics *)
(* and samplers, any number of lives, and whatever is refused: the flag of *)
(* the counters agrees with PAPI, what is acquired is released, undefined  *)
(* behaviour has one of the reasons named, an attached buffer has its lock,*)
(* and no sample is lost.                                                  *)
(***************************************************************************)
EXTENDS Programs, SequenceTheorems, TLAPS

(***************************************************************************)
(* The counters of a process.                                              *)
(***************************************************************************)
Agrees(c) ==
  /\ c \in CountersRecord
  /\ c.is_counting <=> c.running /\ c.eventset = "made"
  /\ c.running \/ c.in_set # 0 => c.eventset = "made"

Fresh(c) ==
  /\ c.in_set = 0 /\ c.gr_num_events = 0 /\ c.arrays = "null"
  /\ c.env = c.named /\ c.fault = "none"

(* Undefined behaviour has a reason until the counters are given back.     *)
Explained(c) ==
  /\ c.fault \in {"overrun", "null"} => c.no_memory \/ c.named > NUM_EVENTS
  /\ c.fault # "dangling"

FirstUse(c) ==
  /\ Explained(c)
  /\ c.arrays # "freed"
  /\ ~c.no_memory => /\ c.in_set <= c.gr_num_events /\ c.gr_num_events <= c.named
                     /\ c.arrays # "lost"

LEMMA NewAgrees ==
  ASSUME NEW n \in EventCounts
  PROVE  /\ Agrees(NewCounters(n)) /\ Fresh(NewCounters(n)) /\ FirstUse(NewCounters(n))
BY CountersAssumption DEF NewCounters, Agrees, CountersRecord, Fresh, FirstUse, Explained

LEMMA RefusedKeeps ==
  ASSUME NEW c \in CountersRecord
  PROVE  /\ Refused(c).refused
         /\ Refused(c).fault = c.fault /\ Refused(c).eventset = c.eventset
         /\ Agrees(c) => Agrees(Refused(c))
         /\ FirstUse(c) => FirstUse(Refused(c))
         /\ Explained(c) => Explained(Refused(c))
         /\ Refused(c) \in CountersRecord
<1>1. /\ Refused(c) \in CountersRecord /\ Refused(c).refused
      /\ Refused(c).fault = c.fault /\ Refused(c).eventset = c.eventset
      /\ Refused(c).in_set = c.in_set /\ Refused(c).running = c.running
      /\ Refused(c).gr_num_events = c.gr_num_events /\ Refused(c).arrays = c.arrays
      /\ Refused(c).is_counting = c.is_counting /\ Refused(c).named = c.named
      /\ Refused(c).no_memory = c.no_memory
  BY DEF Refused, CountersRecord
<1> QED
  BY <1>1 DEF Agrees, FirstUse, Explained

(* An event set that gr_perfctr_init makes does not count yet.             *)
LEMMA SetMade ==
  ASSUME NEW c, Agrees(c), c.eventset # "made"
  PROVE  /\ Agrees(MadeSet(c)) /\ ~MadeSet(c).running
         /\ MadeSet(c).eventset = "made" /\ MadeSet(c).fault = c.fault
         /\ MadeSet(c).in_set = c.in_set /\ MadeSet(c).gr_num_events = c.gr_num_events
         /\ MadeSet(c).arrays = c.arrays /\ MadeSet(c).named = c.named
         /\ MadeSet(c).no_memory = c.no_memory
BY DEF MadeSet, Agrees, CountersRecord

LEMMA EventsAdded ==
  ASSUME NEW c, Agrees(c), ~c.running, c.eventset = "made", NEW k \in Nat
  PROVE  /\ Agrees(Added(c, k)) /\ ~Added(c, k).running
         /\ Added(c, k).eventset = "made" /\ Added(c, k).fault = c.fault
         /\ c.in_set = 0 /\ c.gr_num_events = 0 /\ c.arrays = "null"
              /\ c.fault = "none" /\ k <= c.named => FirstUse(Added(c, k))
<1> DEFINE d == Added(c, k)
<1>1. CASE k = 0
  <2>1. d = c
    BY <1>1 DEF Added
  <2>2. c \in CountersRecord /\ c.named \in Nat
    BY CountersAssumption DEF Agrees, CountersRecord
  <2>3. c.in_set = 0 /\ c.gr_num_events = 0 /\ c.arrays = "null" /\ c.fault = "none"
          => FirstUse(c)
    BY <2>2 DEF FirstUse, Explained
  <2> QED
    BY <2>1, <2>3 DEF Fresh
<1>2. CASE k # 0
  <2>1. /\ d = [c EXCEPT !.in_set = k, !.gr_num_events = @ + k, !.arrays = "live"]
        /\ c \in CountersRecord
    BY <1>2 DEF Added, Agrees
  <2> HIDE DEF d
  <2>2. /\ d.in_set = k /\ d.gr_num_events = c.gr_num_events + k
        /\ d.arrays = "live" /\ d.eventset = c.eventset /\ d.running = c.running
        /\ d.is_counting = c.is_counting /\ d.fault = c.fault /\ d.named = c.named
        /\ d.no_memory = c.no_memory
    BY <2>1 DEF CountersRecord
  <2>3. d \in CountersRecord
    <3>1. c.gr_num_events + k \in Nat
      BY <2>1 DEF CountersRecord
    <3> QED
      BY <2>1, <3>1 DEF CountersRecord
  <2>4. Agrees(d)
    BY <2>2, <2>3 DEF Agrees
  <2>5. c.gr_num_events = 0 /\ c.fault = "none" /\ k <= c.named => FirstUse(d)
    BY <2>2 DEF FirstUse, Explained
  <2> QED
    BY <2>2, <2>4, <2>5 DEF d, Fresh
<1> QED
  BY <1>1, <1>2

LEMMA MemoryRefused ==
  ASSUME NEW c, Agrees(c), ~c.running, c.eventset = "made", NEW array
  PROVE  /\ Agrees(NoMemory(c, array)) /\ ~NoMemory(c, array).running
         /\ NoMemory(c, array).eventset = "made" /\ NoMemory(c, array).fault = c.fault
         /\ c.fault = "none" => FirstUse(NoMemory(c, array))
<1> DEFINE d == NoMemory(c, array)
           a == CASE array = "names" /\ c.gr_num_events > 0 -> "lost"
                  [] array = "events" /\ c.gr_num_events = 0 -> "null"
                  [] OTHER -> "live"
<1>1. a \in {"lost", "null", "live"}
  OBVIOUS
<1>2. /\ d = [c EXCEPT !.in_set = @ + 1, !.no_memory = TRUE, !.arrays = a]
      /\ c \in CountersRecord
  BY DEF NoMemory, Agrees
<1> HIDE DEF d, a
<1>3. /\ d.no_memory /\ d.arrays = a
      /\ d.eventset = c.eventset /\ d.running = c.running
      /\ d.is_counting = c.is_counting /\ d.fault = c.fault
  BY <1>2 DEF CountersRecord
<1>4. d \in CountersRecord
  <2>1. c.in_set + 1 \in Nat
    BY <1>2 DEF CountersRecord
  <2> QED
    BY <1>1, <1>2, <2>1 DEF CountersRecord
<1>5. Agrees(d)
  BY <1>3, <1>4 DEF Agrees
<1>6. c.fault = "none" => FirstUse(d)
  BY <1>1, <1>3 DEF FirstUse, Explained
<1> QED
  BY <1>3, <1>5, <1>6 DEF d

(* The counters after gr_perfctr_init, and after gr_perfctr_start.         *)
LEMMA InitKeeps ==
  ASSUME NEW c, Agrees(c), c.fault = "none", NEW d \in gr_perfctr_init(c)
  PROVE  /\ Agrees(d)
         /\ Fresh(c) => FirstUse(d)
<1> DEFINE e == MadeSet(c)
<1>1. c \in CountersRecord /\ c.env \in Nat
  BY DEF Agrees, CountersRecord
<1>2. FirstUse(c) \/ ~Fresh(c)
  BY <1>1 DEF FirstUse, Fresh, Explained, CountersRecord
<1>3. CASE d = Refused(c)
  BY <1>1, <1>2, <1>3, RefusedKeeps
<1>4. CASE c.eventset # "made" /\ d \in AddEvents(c)
  <2>1. /\ Agrees(e) /\ ~e.running /\ e.eventset = "made" /\ e.fault = "none"
        /\ e.in_set = c.in_set /\ e.gr_num_events = c.gr_num_events
        /\ e.arrays = c.arrays /\ e.named = c.named
    BY <1>4, SetMade
  <2> HIDE DEF e
  <2>2. e \in CountersRecord
    BY <2>1 DEF Agrees
  <2>3. CASE c.arrays = "freed" /\ c.env > 0
    <3>1. ~Fresh(c)
      BY <2>3 DEF Fresh
    <3>2. CASE d = Refused(e)
      BY <2>1, <2>2, <3>1, <3>2, RefusedKeeps
    <3>3. CASE d = [e EXCEPT !.fault = "dangling"]
      BY <2>1, <3>1, <3>3 DEF Agrees, CountersRecord
    <3> QED
      BY <1>4, <2>3, <3>2, <3>3 DEF AddEvents, e
  <2>4. CASE ~(c.arrays = "freed" /\ c.env > 0)
    <3>1. CASE d = Added(e, c.env)
      BY <1>1, <2>1, <3>1, EventsAdded DEF Fresh
    <3>2. ASSUME NEW k \in 0 .. c.env - 1, d = Refused(Added(e, k))
          PROVE  Agrees(d) /\ (Fresh(c) => FirstUse(d))
      <4>1. k \in Nat /\ k <= c.env
        BY <1>1
      <4>2. Agrees(Added(e, k)) /\ (Fresh(c) => FirstUse(Added(e, k)))
        BY <1>1, <2>1, <4>1, EventsAdded DEF Fresh
      <4> QED
        BY <3>2, <4>2, RefusedKeeps DEF Agrees
    <3>3. ASSUME NEW k \in 0 .. c.env - 1, NEW array \in {"events", "names"},
                 d = NoMemory(Added(e, k), array)
          PROVE  Agrees(d) /\ FirstUse(d)
      <4>1. k \in Nat
        BY <1>1
      <4>2. /\ Agrees(Added(e, k)) /\ ~Added(e, k).running
            /\ Added(e, k).eventset = "made" /\ Added(e, k).fault = "none"
        BY <2>1, <4>1, EventsAdded
      <4> QED
        BY <3>3, <4>2, MemoryRefused
    <3> QED
      BY <1>4, <2>4, <3>1, <3>2, <3>3 DEF AddEvents, e
  <2> QED
    BY <2>3, <2>4
<1> QED
  BY <1>3, <1>4 DEF gr_perfctr_init

LEMMA StartKeeps ==
  ASSUME NEW c, Agrees(c), NEW d \in gr_perfctr_start(c)
  PROVE  Agrees(d) /\ (FirstUse(c) => FirstUse(d))
<1>1. c \in CountersRecord
  BY DEF Agrees
<1>2. CASE d = c
  BY <1>2
<1>3. CASE d = Refused(c)
  BY <1>1, <1>3, RefusedKeeps
<1>4. CASE c.in_set # 0 /\ d = [c EXCEPT !.running = TRUE, !.is_counting = TRUE]
  BY <1>1, <1>4 DEF Agrees, CountersRecord, FirstUse, Explained
<1> QED
  BY <1>2, <1>3, <1>4 DEF gr_perfctr_start

LEMMA InitAndStartKeeps ==
  ASSUME NEW c, Agrees(c), c.fault = "none", NEW d \in InitAndStart(c)
  PROVE  Agrees(d) /\ (Fresh(c) => FirstUse(d))
<1>1. PICK e \in gr_perfctr_init(c) : d \in IF e.fault = "none" THEN gr_perfctr_start(e) ELSE {e}
  BY DEF InitAndStart
<1>2. Agrees(e) /\ (Fresh(c) => FirstUse(e))
  BY InitKeeps
<1> QED
  BY <1>1, <1>2, StartKeeps

LEMMA StopKeeps ==
  ASSUME NEW c, Agrees(c), c.fault = "none", NEW d \in gr_perfctr_stop(c)
  PROVE  Agrees(d) /\ (FirstUse(c) => FirstUse(d))
<1>1. c \in CountersRecord
  BY DEF Agrees
<1>2. CASE d = c
  BY <1>2
<1>3. CASE d = Refused(c)
  BY <1>1, <1>3, RefusedKeeps
<1>4. ASSUME NEW how \in {"overrun", "none"}, how = "overrun" => c.in_set > c.gr_num_events,
             d = [c EXCEPT !.running = FALSE, !.is_counting = FALSE, !.fault = how]
      PROVE  Agrees(d) /\ (FirstUse(c) => FirstUse(d))
  <2>1. /\ d.eventset = c.eventset /\ d.in_set = c.in_set /\ ~d.running
        /\ d.gr_num_events = c.gr_num_events /\ d.arrays = c.arrays /\ ~d.is_counting
        /\ d.named = c.named /\ d.no_memory = c.no_memory /\ d.fault = how
        /\ d \in CountersRecord
    BY <1>1, <1>4 DEF CountersRecord
  <2>2. c.in_set \in Nat /\ c.gr_num_events \in Nat
    BY <1>1 DEF CountersRecord
  <2> QED
    BY <1>4, <2>1, <2>2 DEF Agrees, FirstUse, Explained
<1> QED
  BY <1>2, <1>3, <1>4 DEF gr_perfctr_stop

(* Giving the counters back ends their first use, but not the reasons.     *)
LEMMA FinalizeKeeps ==
  ASSUME NEW c, Agrees(c), NEW d \in gr_perfctr_finalize(c)
  PROVE  /\ Agrees(d)
         /\ FirstUse(c) => Explained(d)
         /\ d.fault # "none" \/ d.eventset = "null" \/ d.refused
<1>1. CASE c.fault # "none"
  BY <1>1 DEF gr_perfctr_finalize, FirstUse
<1>2. CASE c.fault = "none"
  <2>1. PICK e \in gr_perfctr_stop(c) :
          d \in IF e.fault # "none" THEN {e}
                ELSE {Refused(e)} \cup
                     (IF e.eventset = "null" \/ e.running THEN {}
                      ELSE {Refused([e EXCEPT !.in_set = 0]), Freed(e)})
    BY <1>2 DEF gr_perfctr_finalize
  <2>2. Agrees(e) /\ (FirstUse(c) => FirstUse(e)) /\ e \in CountersRecord
    BY <1>2, StopKeeps DEF Agrees
  <2>3. CASE d = e /\ e.fault # "none"
    BY <2>2, <2>3 DEF FirstUse
  <2>4. CASE d = Refused(e)
    BY <2>2, <2>4, RefusedKeeps DEF FirstUse
  <2>5. CASE d = Refused([e EXCEPT !.in_set = 0])
    <3> DEFINE f == [e EXCEPT !.in_set = 0]
    <3>1. /\ f \in CountersRecord /\ f.eventset = e.eventset /\ f.in_set = 0
          /\ f.running = e.running /\ f.is_counting = e.is_counting
          /\ f.fault = e.fault /\ f.no_memory = e.no_memory /\ f.named = e.named
      BY <2>2 DEF CountersRecord
    <3> HIDE DEF f
    <3>2. Agrees(f) /\ (FirstUse(e) => Explained(f))
      BY <2>2, <3>1 DEF Agrees, FirstUse, Explained
    <3> QED
      BY <2>2, <2>5, <3>1, <3>2, RefusedKeeps DEF f
  <2>6. CASE ~e.running /\ e.fault = "none" /\ d = Freed(e)
    <3> DEFINE arrays == IF e.arrays = "live" THEN "freed" ELSE e.arrays
               how == CASE e.arrays = "freed" -> "dangling"
                        [] e.arrays = "lost"  -> "null"
                        [] OTHER -> e.fault
    <3>1. /\ arrays \in {"null", "live", "lost", "freed"}
          /\ how \in {"none", "null", "dangling"}
          /\ how = "dangling" => e.arrays = "freed"
          /\ how = "null" => e.arrays = "lost"
      BY <2>2, <2>6 DEF CountersRecord
    <3>2. d = [e EXCEPT !.eventset = "null", !.in_set = 0, !.arrays = arrays, !.fault = how]
      BY <2>2, <2>6 DEF Freed, CountersRecord
    <3> HIDE DEF arrays, how
    <3>3. /\ d \in CountersRecord /\ d.eventset = "null" /\ d.in_set = 0
          /\ d.running = e.running /\ d.is_counting = e.is_counting
          /\ d.fault = how /\ d.no_memory = e.no_memory /\ d.named = e.named
      BY <2>2, <3>1, <3>2 DEF CountersRecord
    <3> QED
      BY <2>2, <2>6, <3>1, <3>3 DEF Agrees, FirstUse, Explained
  <2> QED
    BY <2>1, <2>3, <2>4, <2>5, <2>6
<1> QED
  BY <1>1, <1>2 DEF Agrees, CountersRecord

(* What reading and printing can come to.                                  *)
LEMMA FaultKeeps ==
  ASSUME NEW c, Agrees(c), NEW how \in {"overrun", "null", "no_file"},
         how = "overrun" => \/ c.in_set > NUM_EVENTS \/ c.gr_num_events > NUM_EVENTS
                            \/ c.in_set > c.gr_num_events,
         how = "null" => c.arrays = "lost"
  PROVE  LET d == [c EXCEPT !.fault = how] IN Agrees(d) /\ (FirstUse(c) => FirstUse(d))
<1> DEFINE d == [c EXCEPT !.fault = how]
<1>1. /\ d \in CountersRecord /\ d.eventset = c.eventset /\ d.in_set = c.in_set
      /\ d.running = c.running /\ d.gr_num_events = c.gr_num_events /\ d.arrays = c.arrays
      /\ d.is_counting = c.is_counting /\ d.named = c.named /\ d.no_memory = c.no_memory
      /\ d.fault = how
  BY DEF Agrees, CountersRecord
<1>2. c.in_set \in Nat /\ c.gr_num_events \in Nat /\ c.named \in Nat /\ NUM_EVENTS \in Nat
  BY CountersAssumption DEF Agrees, CountersRecord
<1> HIDE DEF d
<1>3. Agrees(d)
  BY <1>1 DEF Agrees
<1>4. FirstUse(c) => FirstUse(d)
  BY <1>1, <1>2 DEF FirstUse, Explained
<1> QED
  BY <1>3, <1>4 DEF d

LEMMA ReadKeeps ==
  ASSUME NEW c, Agrees(c)
  PROVE  /\ Agrees(gr_perfctr_read(c)) /\ (FirstUse(c) => FirstUse(gr_perfctr_read(c)))
         /\ Agrees(gr_perfctr_phase_end(c))
         /\ FirstUse(c) => FirstUse(gr_perfctr_phase_end(c))
         /\ Agrees(gr_perfctr_print(c)) /\ (FirstUse(c) => FirstUse(gr_perfctr_print(c)))
<1>1. [c EXCEPT !.fault = c.fault] = c
  BY DEF Agrees, CountersRecord
<1>2. Agrees(gr_perfctr_read(c)) /\ (FirstUse(c) => FirstUse(gr_perfctr_read(c)))
  <2>1. CASE c.in_set > NUM_EVENTS \/ c.gr_num_events > NUM_EVENTS
    BY <2>1, FaultKeeps DEF gr_perfctr_read
  <2>2. CASE ~(c.in_set > NUM_EVENTS \/ c.gr_num_events > NUM_EVENTS)
    BY <1>1, <2>2 DEF gr_perfctr_read
  <2> QED
    BY <2>1, <2>2
<1>3. Agrees(gr_perfctr_phase_end(c)) /\ (FirstUse(c) => FirstUse(gr_perfctr_phase_end(c)))
  <2>1. CASE c.in_set > c.gr_num_events \/ c.gr_num_events > NUM_EVENTS
    BY <2>1, FaultKeeps DEF gr_perfctr_phase_end
  <2>2. CASE ~(c.in_set > c.gr_num_events \/ c.gr_num_events > NUM_EVENTS)
    BY <1>1, <2>2 DEF gr_perfctr_phase_end
  <2> QED
    BY <2>1, <2>2
<1>4. Agrees(gr_perfctr_print(c)) /\ (FirstUse(c) => FirstUse(gr_perfctr_print(c)))
  <2>1. CASE c.fault = "none" /\ c.arrays = "lost"
    BY <2>1, FaultKeeps DEF gr_perfctr_print
  <2>2. CASE ~(c.fault = "none" /\ c.arrays = "lost")
    BY <1>1, <2>2 DEF gr_perfctr_print
  <2> QED
    BY <2>1, <2>2
<1> QED
  BY <1>2, <1>3, <1>4

-----------------------------------------------------------------------------
(***************************************************************************)
(* What holds of each process.                                             *)
(***************************************************************************)
LifeInv(p) ==
  /\ proc[p].at = "out" <=> proc[p].inits = 0
  /\ proc[p].at = "out" => proc[p].ends = 0 /\ regions[p] = "none"
  /\ proc[p].at = "final" => proc[p].ends # 0
  /\ proc[p].at \in {"wait", "attach"} => program[p] = "analytics"
  /\ proc[p].at = "attach" => senders
  /\ proc[p].ends = 0 => proc[p].phases # "freed" /\ proc[p].region # "dangling"
  /\ proc[p].region = "raw" => program[p] = "analytics"

CountersInv(p) ==
  /\ Agrees(perf[p])
  /\ program[p] \notin Samplers => /\ proc[p].inits = 0 => Fresh(perf[p])
                                   /\ Once(p) => FirstUse(perf[p])
  /\ program[p] \in Samplers => /\ proc[p].inits = 0
                                /\ probe[p].at = "main" => Fresh(perf[p])
                                /\ probe[p].at # "end" => FirstUse(perf[p])
                                /\ Explained(perf[p])

FaultInv(p) ==
  Once(p) =>
    /\ proc[p].fault = "null" =>
         (DebugTiming /\ proc[p].file = "null") \/ (proc[p].do_stub /\ proc[p].region = "null")
    /\ proc[p].fault = "dangling" =>
         DebugTiming /\ proc[p].known /\ proc[p].at = "in"

ReleasedInv(p) ==
  program[p] = "simulation" /\ proc[p].at = "final" /\ perf[p].fault = "none" =>
    /\ proc[p].phases = "freed" /\ proc[p].files = "freed"
    /\ proc[p].do_stub => ~proc[p].handler /\ proc[p].region # "mapped"
    /\ perf[p].eventset = "null" \/ perf[p].refused

(* The sender is on the list: a buffer is complete, or gone with its       *)
(* simulation, in the first life.                                          *)
SenderInv(p) ==
  BufferFirst /\ senders /\ program[p] = "simulation" /\ proc[p].inits <= 1 =>
    \/ regions[p] = "ready"
    \/ regions[p] = "none" /\ proc[p].at = "final"

PInv(p) ==
  LifeInv(p) /\ CountersInv(p) /\ FaultInv(p) /\ ReleasedInv(p) /\ SenderInv(p)

LIInv == TypeOK /\ (\A p \in Procs : PInv(p)) /\ (BufferFirst => AttachedBufferIsReady)

LEMMA InitLIInv == Init => LIInv
<1> SUFFICES ASSUME Init PROVE LIInv
  OBVIOUS
<1>1. PICK cast \in Casts :
        /\ program = cast.program
        /\ perf = [p \in Procs |-> NewCounters(cast.events[p])]
        /\ proc = [p \in Procs |-> NewProcess(cast.do_perfctr, cast.do_stub, cast.lives[p])]
  BY DEF Init
<1>2. /\ senders = FALSE /\ regions = [p \in Procs |-> "none"]
      /\ probe = [p \in Procs |-> NewProbe]
  BY DEF Init
<1>3. /\ \A p \in Procs : cast.events[p] \in EventCounts /\ cast.lives[p] \in Nat
      /\ cast.do_perfctr \in BOOLEAN /\ cast.do_stub \in BOOLEAN
  BY CastsAssumption
<1>4. \A p \in Procs : /\ Agrees(perf[p]) /\ Fresh(perf[p]) /\ FirstUse(perf[p])
  BY <1>1, <1>3, NewAgrees
<1>5. \A p \in Procs :
        /\ proc[p] \in ProcessRecord
        /\ proc[p].at = "out" /\ proc[p].inits = 0 /\ proc[p].ends = 0
        /\ proc[p].phases = "null" /\ proc[p].region = "null" /\ proc[p].fault = "none"
  BY <1>1, <1>3 DEF NewProcess, ProcessRecord
<1>6. NewProbe \in ProbeRecord
  <2>1. <<>> \in Seq(Nat \X Nat)
    OBVIOUS
  <2>2. 0 \in Entries
    BY ProbeAssumption DEF Entries
  <2> QED
    BY <2>1, <2>2 DEF NewProbe, ProbeRecord
<1>7. TypeOK
  <2>1. perf \in [Procs -> CountersRecord]
    BY <1>1, <1>4 DEF Agrees
  <2>2. proc \in [Procs -> ProcessRecord]
    BY <1>1, <1>5
  <2> QED
    BY <1>2, <1>6, <2>1, <2>2 DEF TypeOK
<1>8. ASSUME NEW p \in Procs PROVE PInv(p)
  BY <1>2, <1>4, <1>5 DEF PInv, LifeInv, CountersInv, FaultInv, ReleasedInv, SenderInv, FirstUse
<1>9. AttachedBufferIsReady
  BY <1>5 DEF AttachedBufferIsReady
<1> QED
  BY <1>7, <1>8, <1>9 DEF LIInv

(* A step of one process, if its own part is in order.                     *)
LEMMA OwnKeeps ==
  ASSUME LIInv, NEW p \in Procs, TypeOK', PInv(p)', UNCHANGED <<program, senders>>,
         \A q \in Procs \ {p} : /\ perf'[q] = perf[q] /\ proc'[q] = proc[q]
                                /\ regions'[q] = regions[q] /\ probe'[q] = probe[q],
         proc'[p].inits >= proc[p].inits,
         BufferFirst /\ proc'[p].region = "raw" =>
           \E s \in Sims : Rank[s] = sim_rank(p) /\ proc[s].inits > 1
  PROVE  LIInv'
<1>1. ASSUME NEW q \in Procs \ {p} PROVE PInv(q)'
  <2>1. PInv(q)
    BY DEF LIInv
  <2> QED
    BY <2>1 DEF PInv, LifeInv, CountersInv, FaultInv, ReleasedInv, SenderInv, Once
<1>2. \A q \in Procs : proc[q].inits \in Nat /\ proc'[q].inits \in Nat
                       /\ proc'[q].inits >= proc[q].inits
  BY DEF LIInv, TypeOK, ProcessRecord
<1>3. Sims' = Sims /\ \A q \in Procs : sim_rank(q)' = sim_rank(q)
  BY DEF Sims, sim_rank
<1>4. BufferFirst => AttachedBufferIsReady'
  <2> SUFFICES ASSUME BufferFirst, NEW q \in Procs, proc'[q].region = "raw"
               PROVE  \E s \in Sims : Rank[s] = sim_rank(q) /\ proc'[s].inits > 1
    BY <1>3 DEF AttachedBufferIsReady
  <2>1. PICK s \in Sims : Rank[s] = sim_rank(q) /\ proc[s].inits > 1
    BY DEF LIInv, AttachedBufferIsReady
  <2> QED
    BY <1>2, <2>1 DEF Sims
<1> QED
  BY <1>1, <1>4 DEF LIInv

LEMMA StateOf ==
  ASSUME LIInv, NEW p \in Procs
  PROVE  /\ perf \in [Procs -> CountersRecord] /\ perf[p] \in CountersRecord
         /\ proc \in [Procs -> ProcessRecord] /\ proc[p] \in ProcessRecord
         /\ regions \in [Procs -> {"none", "raw", "ready"}]
         /\ proc[p].inits \in Nat /\ proc[p].ends \in Nat
         /\ LifeInv(p) /\ CountersInv(p) /\ FaultInv(p) /\ ReleasedInv(p) /\ SenderInv(p)
BY DEF LIInv, TypeOK, PInv, ProcessRecord

(* A step that changes nothing but what its process keeps.                 *)
LEMMA ChangesKeep ==
  ASSUME LIInv, NEW p \in Procs, NEW q \in ProcessRecord, Changes(p, q), UNCHANGED probe,
         q.inits = proc[p].inits, q.ends = 0 => proc[p].ends = 0,
         LifeInv(p)', FaultInv(p)', ReleasedInv(p)', SenderInv(p)',
         BufferFirst /\ q.region = "raw" /\ proc[p].region # "raw" =>
           \E s \in Sims : Rank[s] = sim_rank(p) /\ proc[s].inits > 1
  PROVE  LIInv'
<1>1. /\ proc' = [proc EXCEPT ![p] = q]
      /\ UNCHANGED <<perf, program, senders, regions, probe>>
  BY DEF Changes
<1>2. /\ proc'[p] = q /\ \A r \in Procs \ {p} : proc'[r] = proc[r]
      /\ proc' \in [Procs -> ProcessRecord]
  BY <1>1, StateOf
<1>3. TypeOK'
  BY <1>1, <1>2 DEF LIInv, TypeOK
<1>4. CountersInv(p)'
  BY <1>1, <1>2, StateOf DEF CountersInv, Once
<1>5. BufferFirst /\ q.region = "raw" =>
        \E s \in Sims : Rank[s] = sim_rank(p) /\ proc[s].inits > 1
  BY DEF LIInv, AttachedBufferIsReady
<1>6. proc'[p].inits >= proc[p].inits
  BY <1>2, StateOf
<1> QED
  BY <1>1, <1>2, <1>3, <1>4, <1>5, <1>6, OwnKeeps DEF PInv

LEMMA FailsKeep ==
  ASSUME LIInv, NEW p \in Procs, NEW how \in {"null", "dangling"}, Fails(p, how),
         UNCHANGED probe,
         how = "null" => \/ DebugTiming /\ proc[p].file = "null"
                         \/ proc[p].do_stub /\ proc[p].region = "null",
         how = "dangling" => ~Once(p) \/ (DebugTiming /\ proc[p].known /\ proc[p].at = "in")
  PROVE  LIInv'
<1> DEFINE q == [proc[p] EXCEPT !.fault = how]
<1>1. /\ q \in ProcessRecord /\ q.fault = how
      /\ q.at = proc[p].at /\ q.inits = proc[p].inits /\ q.ends = proc[p].ends
      /\ q.phases = proc[p].phases /\ q.files = proc[p].files /\ q.region = proc[p].region
      /\ q.file = proc[p].file /\ q.known = proc[p].known /\ q.do_stub = proc[p].do_stub
      /\ q.handler = proc[p].handler
  BY StateOf DEF ProcessRecord
<1>2. Changes(p, q)
  BY StateOf DEF Fails, Changes
<1> HIDE DEF q
<1>3. /\ proc'[p] = q /\ UNCHANGED <<perf, program, senders, regions>>
  BY <1>2, StateOf DEF Changes
<1>4. LifeInv(p)' /\ ReleasedInv(p)' /\ SenderInv(p)'
  BY <1>1, <1>3, StateOf DEF LifeInv, ReleasedInv, SenderInv
<1>5. FaultInv(p)'
  BY <1>1, <1>3, StateOf DEF FaultInv, Once
<1> QED
  BY <1>1, <1>2, <1>4, <1>5, ChangesKeep

LEMMA StubInitKeeps ==
  ASSUME LIInv, NEW p \in Procs, gr_stub_init(p), UNCHANGED probe
  PROVE  LIInv'
<1> DEFINE q == [proc[p] EXCEPT !.handler = TRUE]
<1>1. /\ q \in ProcessRecord /\ q.fault = proc[p].fault
      /\ q.at = "in" /\ proc[p].at = "in" /\ q.inits = proc[p].inits /\ q.ends = proc[p].ends
      /\ q.phases = proc[p].phases /\ q.region = proc[p].region
      /\ q.file = proc[p].file /\ q.known = proc[p].known /\ q.do_stub = proc[p].do_stub
      /\ Changes(p, q)
  <2>1. proc[p] \in ProcessRecord /\ proc[p].at = "in" /\ Changes(p, q)
    BY StateOf DEF gr_stub_init, At
  <2>2. q \in ProcessRecord
    BY <2>1 DEF ProcessRecord
  <2> QED
    BY <2>1, <2>2 DEF ProcessRecord
<1> HIDE DEF q
<1>2. proc'[p] = q /\ UNCHANGED <<perf, program, senders, regions>>
  BY <1>1, StateOf DEF Changes
<1>3. LifeInv(p)' /\ ReleasedInv(p)' /\ SenderInv(p)' /\ FaultInv(p)'
  BY <1>1, <1>2, StateOf DEF LifeInv, ReleasedInv, SenderInv, FaultInv, Once
<1> QED
  BY <1>1, <1>3, ChangesKeep

LEMMA LoadSchedulerKeeps ==
  ASSUME LIInv, NEW p \in Procs, LoadScheduler(p), UNCHANGED probe
  PROVE  LIInv'
<1> DEFINE q == [proc[p] EXCEPT !.at = "wait", !.name = TRUE]
<1>1. /\ q \in ProcessRecord /\ q.fault = proc[p].fault /\ proc[p].fault = "none"
      /\ q.at = "wait" /\ proc[p].at = "in" /\ q.inits = proc[p].inits /\ q.ends = proc[p].ends
      /\ q.phases = proc[p].phases /\ q.region = proc[p].region /\ program[p] = "analytics"
      /\ Changes(p, q)
  <2>1. /\ proc[p] \in ProcessRecord /\ proc[p].at = "in" /\ proc[p].fault = "none"
        /\ program[p] = "analytics" /\ Changes(p, q)
    BY StateOf DEF LoadScheduler, At
  <2>2. q \in ProcessRecord
    BY <2>1 DEF ProcessRecord
  <2> QED
    BY <2>1, <2>2 DEF ProcessRecord
<1> HIDE DEF q
<1>2. proc'[p] = q /\ UNCHANGED <<perf, program, senders, regions>>
  BY <1>1, StateOf DEF Changes
<1>3. LifeInv(p)' /\ ReleasedInv(p)' /\ SenderInv(p)' /\ FaultInv(p)'
  BY <1>1, <1>2, StateOf DEF LifeInv, ReleasedInv, SenderInv, FaultInv
<1> QED
  BY <1>1, <1>3, ChangesKeep

LEMMA GetSenderKeeps ==
  ASSUME LIInv, NEW p \in Procs, gr_get_sender(p), UNCHANGED probe
  PROVE  LIInv'
<1> DEFINE q == [proc[p] EXCEPT !.at = "attach"]
<1>1. /\ q \in ProcessRecord /\ q.fault = proc[p].fault /\ proc[p].fault = "none"
      /\ q.at = "attach" /\ proc[p].at = "wait" /\ q.inits = proc[p].inits
      /\ q.ends = proc[p].ends
      /\ q.phases = proc[p].phases /\ q.region = proc[p].region /\ program[p] = "analytics"
      /\ senders /\ Changes(p, q)
  BY StateOf DEF gr_get_sender, At, ProcessRecord
<1> HIDE DEF q
<1>2. proc'[p] = q /\ UNCHANGED <<perf, program, senders, regions>>
  BY <1>1, StateOf DEF Changes
<1>3. LifeInv(p)' /\ ReleasedInv(p)' /\ SenderInv(p)' /\ FaultInv(p)'
  BY <1>1, <1>2, StateOf DEF LifeInv, ReleasedInv, SenderInv, FaultInv
<1> QED
  BY <1>1, <1>3, ChangesKeep

LEMMA AttachKeeps ==
  ASSUME LIInv, NEW p \in Procs, gr_attach_monitor_buffer(p), UNCHANGED probe
  PROVE  LIInv'
<1>1. PICK s \in Sims, loaded \in BOOLEAN, opened \in BOOLEAN :
        /\ Rank[s] = sim_rank(p) /\ regions[s] # "none"
        /\ Changes(p, [proc[p] EXCEPT
             !.at = "in", !.region = IF regions[s] = "raw" THEN "raw" ELSE "mapped",
             !.handler = loaded, !.file = IF loaded /\ opened THEN "open" ELSE "null"])
  BY DEF gr_attach_monitor_buffer
<1>2. proc[p].at = "attach" /\ program[p] = "analytics" /\ proc[p].fault = "none"
  BY DEF gr_attach_monitor_buffer, At
<1> DEFINE region == IF regions[s] = "raw" THEN "raw" ELSE "mapped"
           file == IF loaded /\ opened THEN "open" ELSE "null"
           q == [proc[p] EXCEPT !.at = "in", !.region = region, !.handler = loaded,
                                !.file = file]
<1>3. region \in {"raw", "mapped"} /\ file \in {"open", "null"}
  OBVIOUS
<1>4. region = "raw" => regions[s] = "raw"
  OBVIOUS
<1>5. Changes(p, q)
  BY <1>1
<1> HIDE DEF region, file
<1>6. /\ q \in ProcessRecord /\ q.fault = proc[p].fault
      /\ q.at = "in" /\ q.inits = proc[p].inits /\ q.ends = proc[p].ends
      /\ q.phases = proc[p].phases /\ q.region = region
  <2>1. proc[p] \in ProcessRecord
    BY StateOf
  <2>2. q \in ProcessRecord
    BY <1>3, <2>1 DEF ProcessRecord
  <2> QED
    BY <2>1, <2>2 DEF ProcessRecord
<1> HIDE DEF q
<1>7. proc'[p] = q /\ UNCHANGED <<perf, program, senders, regions>>
  BY <1>5, StateOf DEF Changes
<1>8. LifeInv(p)' /\ ReleasedInv(p)' /\ SenderInv(p)' /\ FaultInv(p)'
  BY <1>2, <1>3, <1>6, <1>7, StateOf DEF LifeInv, ReleasedInv, SenderInv, FaultInv
<1>9. BufferFirst /\ q.region = "raw" => proc[s].inits > 1
  <2>1. /\ SenderInv(s) /\ proc[s].inits \in Nat /\ program[s] = "simulation"
    BY StateOf DEF Sims
  <2>2. senders
    BY <1>2, StateOf DEF LifeInv
  <2> QED
    BY <1>1, <1>4, <1>6, <2>1, <2>2 DEF SenderInv
<1> QED
  BY <1>1, <1>5, <1>6, <1>8, <1>9, ChangesKeep

LEMMA AnalyticsFinalizeKeeps ==
  ASSUME LIInv, NEW p \in Procs, AnalyticsFinalize(p), UNCHANGED probe
  PROVE  LIInv'
<1> DEFINE q == [proc[p] EXCEPT !.at = "final", !.ends = @ + 1]
           r == [q EXCEPT !.region = "dangling", !.handler = FALSE, !.file = "null"]
<1>1. /\ program[p] = "analytics" /\ proc[p].at \in {"in", "final"} /\ proc[p].fault = "none"
  BY DEF AnalyticsFinalize, At
<1>2. \/ Changes(p, q)
      \/ Fails(p, "dangling") /\ q.region = "dangling"
      \/ Fails(p, "null") /\ DebugTiming /\ q.file = "null"
      \/ Changes(p, r)
  BY DEF AnalyticsFinalize
<1>3. proc[p].ends + 1 \in Nat /\ proc[p].ends + 1 # 0
  BY StateOf
<1>4. /\ q \in ProcessRecord /\ q.fault = proc[p].fault
      /\ q.at = "final" /\ q.inits = proc[p].inits /\ q.ends = proc[p].ends + 1
      /\ q.phases = proc[p].phases /\ q.region = proc[p].region /\ q.file = proc[p].file
  <2>1. proc[p] \in ProcessRecord
    BY StateOf
  <2>2. q \in ProcessRecord
    BY <1>3, <2>1 DEF ProcessRecord
  <2> QED
    BY <2>1, <2>2 DEF ProcessRecord
<1> HIDE DEF q
<1>5. /\ r \in ProcessRecord /\ r.fault = q.fault
      /\ r.at = "final" /\ r.inits = q.inits /\ r.ends = q.ends /\ r.region = "dangling"
  BY <1>4 DEF ProcessRecord
<1> HIDE DEF r
<1>6. ASSUME NEW t \in {q, r}, Changes(p, t) PROVE LIInv'
  <2>1. proc'[p] = t /\ UNCHANGED <<perf, program, senders, regions>>
    BY <1>6, StateOf DEF Changes
  <2>2. /\ t \in ProcessRecord /\ t.fault = "none" /\ t.at = "final"
        /\ t.inits = proc[p].inits /\ t.ends # 0
        /\ t.region \in {proc[p].region, "dangling"}
    BY <1>1, <1>3, <1>4, <1>5
  <2>3. LifeInv(p)' /\ ReleasedInv(p)' /\ SenderInv(p)' /\ FaultInv(p)'
    BY <1>1, <2>1, <2>2, StateOf DEF LifeInv, ReleasedInv, SenderInv, FaultInv
  <2> QED
    BY <1>6, <2>2, <2>3, ChangesKeep
<1>7. CASE Fails(p, "dangling") /\ q.region = "dangling"
  <2>1. ~Once(p)
    BY <1>4, <1>7, StateOf DEF LifeInv, Once
  <2> QED
    BY <1>7, <2>1, FailsKeep
<1>8. CASE Fails(p, "null") /\ DebugTiming /\ q.file = "null"
  BY <1>4, <1>8, FailsKeep
<1> QED
  BY <1>2, <1>6, <1>7, <1>8

LEMMA RegisterSenderKeeps ==
  ASSUME LIInv, RegisterSender, UNCHANGED probe
  PROVE  LIInv'
<1>1. /\ senders' = TRUE /\ UNCHANGED <<perf, program, proc, regions, probe>>
      /\ BufferFirst => \A s \in Sims : regions[s] = "ready"
  BY DEF RegisterSender
<1>2. TypeOK' /\ Sims' = Sims /\ \A q \in Procs : sim_rank(q)' = sim_rank(q)
  BY <1>1 DEF LIInv, TypeOK, Sims, sim_rank
<1>3. ASSUME NEW p \in Procs PROVE PInv(p)'
  <2>1. LifeInv(p)' /\ CountersInv(p)' /\ FaultInv(p)' /\ ReleasedInv(p)'
    BY <1>1, StateOf DEF LifeInv, CountersInv, FaultInv, ReleasedInv, Once
  <2>2. SenderInv(p)'
    BY <1>1 DEF SenderInv, Sims
  <2> QED
    BY <2>1, <2>2 DEF PInv
<1>4. BufferFirst => AttachedBufferIsReady'
  BY <1>1, <1>2 DEF LIInv, AttachedBufferIsReady
<1> QED
  BY <1>2, <1>3, <1>4 DEF LIInv

LEMMA CreateRegionKeeps ==
  ASSUME LIInv, NEW p \in Procs, CreateRegion(p), UNCHANGED probe
  PROVE  LIInv'
<1> DEFINE q == [proc[p] EXCEPT !.at = "lock"]
<1>1. /\ program[p] = "simulation" /\ proc[p].at = "in" /\ proc[p].fault = "none"
      /\ regions[p] = "none" /\ regions' = [regions EXCEPT ![p] = "raw"]
      /\ proc' = [proc EXCEPT ![p] = q] /\ UNCHANGED <<perf, program, senders, probe>>
  BY StateOf DEF CreateRegion, At
<1>2. /\ q \in ProcessRecord /\ q.fault = "none" /\ q.at = "lock"
      /\ q.inits = proc[p].inits /\ q.ends = proc[p].ends
      /\ q.phases = proc[p].phases /\ q.region = proc[p].region
  <2>1. proc[p] \in ProcessRecord
    BY StateOf
  <2>2. q \in ProcessRecord
    BY <2>1 DEF ProcessRecord
  <2> QED
    BY <1>1, <2>1, <2>2 DEF ProcessRecord
<1> HIDE DEF q
<1>3. proc'[p] = q /\ regions'[p] = "raw"
  BY <1>1, StateOf
<1>4. TypeOK'
  BY <1>1, <1>2 DEF LIInv, TypeOK
<1>5. LifeInv(p)' /\ CountersInv(p)'
  BY <1>1, <1>2, <1>3, StateOf DEF LifeInv, CountersInv, Once
<1>6. FaultInv(p)' /\ ReleasedInv(p)' /\ SenderInv(p)'
  BY <1>1, <1>2, <1>3, StateOf DEF FaultInv, ReleasedInv, SenderInv
<1>7. q.region # "raw"
  BY <1>1, <1>2, StateOf DEF LifeInv
<1>8. q.inits >= proc[p].inits
  BY <1>2, StateOf
<1>9. \A r \in Procs \ {p} : /\ proc'[r] = proc[r] /\ regions'[r] = regions[r]
                              /\ perf'[r] = perf[r] /\ probe'[r] = probe[r]
  BY <1>1, StateOf
<1> QED
  BY <1>1, <1>3, <1>4, <1>5, <1>6, <1>7, <1>8, <1>9, OwnKeeps DEF PInv

LEMMA InitLockKeeps ==
  ASSUME LIInv, NEW p \in Procs, InitLock(p), UNCHANGED probe
  PROVE  LIInv'
<1>1. /\ program[p] = "simulation" /\ proc[p].at = "lock" /\ proc[p].fault = "none"
      /\ UNCHANGED <<perf, program, senders, probe>>
  BY DEF InitLock, At
<1>2. PICK region \in {"mapped", proc[p].region}, left \in {"ready", regions[p]} :
        /\ proc' = [proc EXCEPT ![p].at = "in", ![p].region = region]
        /\ regions' = [regions EXCEPT ![p] = left]
        /\ region = "mapped" \/ left = regions[p]
  <2>1. CASE /\ regions' = [regions EXCEPT ![p] = "ready"]
             /\ proc' = [proc EXCEPT ![p].at = "in", ![p].region = "mapped"]
    BY <2>1
  <2>2. CASE proc' = [proc EXCEPT ![p].at = "in"] /\ UNCHANGED regions
    <3>1. regions' = [regions EXCEPT ![p] = regions[p]]
      BY <2>2, StateOf
    <3>2. [proc[p] EXCEPT !.at = "in"]
            = [proc[p] EXCEPT !.at = "in", !.region = proc[p].region]
      BY StateOf DEF ProcessRecord
    <3>3. proc' = [proc EXCEPT ![p].at = "in", ![p].region = proc[p].region]
      BY <2>2, <3>2, StateOf
    <3> QED
      BY <3>1, <3>3
  <2> QED
    BY <2>1, <2>2 DEF InitLock
<1> DEFINE q == [proc[p] EXCEPT !.at = "in", !.region = region]
<1>3. proc' = [proc EXCEPT ![p] = q]
  BY <1>2, StateOf
<1>4. /\ q \in ProcessRecord /\ q.fault = "none" /\ q.at = "in"
      /\ q.inits = proc[p].inits /\ q.ends = proc[p].ends
      /\ q.phases = proc[p].phases /\ q.region = region
  <2>1. proc[p] \in ProcessRecord /\ region \in {"null", "raw", "mapped", "dangling"}
    BY StateOf DEF ProcessRecord
  <2>2. q \in ProcessRecord
    BY <2>1 DEF ProcessRecord
  <2> QED
    BY <1>1, <2>1, <2>2 DEF ProcessRecord
<1> HIDE DEF q
<1>5. proc'[p] = q /\ regions'[p] = left
  BY <1>2, <1>3, StateOf
<1>6. TypeOK'
  BY <1>1, <1>2, <1>3, <1>4, StateOf DEF LIInv, TypeOK
<1>7. LifeInv(p)' /\ CountersInv(p)'
  BY <1>1, <1>4, <1>5, StateOf DEF LifeInv, CountersInv, Once
<1>8. FaultInv(p)' /\ ReleasedInv(p)' /\ SenderInv(p)'
  BY <1>1, <1>4, <1>5, StateOf DEF FaultInv, ReleasedInv, SenderInv
<1>9. q.region # "raw" /\ q.inits >= proc[p].inits
  BY <1>1, <1>4, StateOf DEF LifeInv
<1>10. \A r \in Procs \ {p} : /\ proc'[r] = proc[r] /\ regions'[r] = regions[r]
                               /\ perf'[r] = perf[r] /\ probe'[r] = probe[r]
  BY <1>1, <1>2, <1>3, StateOf
<1> QED
  BY <1>1, <1>5, <1>6, <1>7, <1>8, <1>9, <1>10, OwnKeeps DEF PInv

LEMMA GrInitKeeps ==
  ASSUME LIInv, NEW p \in Procs, gr_init(p), UNCHANGED probe
  PROVE  LIInv'
<1> DEFINE q == [proc[p] EXCEPT !.at = "in", !.inits = @ + 1]
           tables == [q EXCEPT !.phases = "live", !.files = "live", !.known = FALSE]
<1>1. /\ program[p] \in {"simulation", "analytics"} /\ program[p] \notin Samplers
      /\ proc[p].at \in {"out", "final"} /\ proc[p].fault = "none"
      /\ perf[p].fault = "none" /\ UNCHANGED <<program, senders, regions, probe>>
  BY DEF gr_init, At, Samplers
<1>2. PICK c \in IF proc[p].do_perfctr THEN InitAndStart(perf[p]) ELSE {perf[p]} :
        perf' = [perf EXCEPT ![p] = c]
  BY DEF gr_init
<1>3. PICK file \in {"open", "null"} :
        \E r \in {q, [q EXCEPT !.at = "exit"], [tables EXCEPT !.file = file]} :
          proc' = [proc EXCEPT ![p] = r]
  BY DEF gr_init
<1>r. PICK r \in {q, [q EXCEPT !.at = "exit"], [tables EXCEPT !.file = file]} :
        proc' = [proc EXCEPT ![p] = r]
  BY <1>3
<1>4. proc[p].inits + 1 \in Nat /\ proc[p].inits + 1 # 0 /\ proc[p].inits + 1 >= proc[p].inits
      /\ (proc[p].inits + 1 <= 1 => proc[p].inits = 0)
  BY StateOf
<1>5. /\ q \in ProcessRecord /\ q.fault = "none" /\ q.at = "in"
      /\ q.inits = proc[p].inits + 1 /\ q.ends = proc[p].ends
      /\ q.phases = proc[p].phases /\ q.region = proc[p].region
  <2>1. proc[p] \in ProcessRecord
    BY StateOf
  <2>2. q \in ProcessRecord
    BY <1>4, <2>1 DEF ProcessRecord
  <2> QED
    BY <1>1, <2>1, <2>2 DEF ProcessRecord
<1> HIDE DEF q
<1>6. /\ r \in ProcessRecord /\ r.fault = "none" /\ r.at \in {"in", "exit"}
      /\ r.inits = proc[p].inits + 1 /\ r.ends = proc[p].ends
      /\ r.phases \in {proc[p].phases, "live"} /\ r.region = proc[p].region
  <2>1. CASE r = q
    BY <1>5, <2>1
  <2>2. CASE r = [q EXCEPT !.at = "exit"]
    BY <1>5, <2>2 DEF ProcessRecord
  <2>3. CASE r = [tables EXCEPT !.file = file]
    <3>1. /\ tables \in ProcessRecord /\ tables.fault = "none" /\ tables.at = "in"
          /\ tables.inits = q.inits /\ tables.ends = q.ends
          /\ tables.phases = "live" /\ tables.region = q.region
      BY <1>5 DEF ProcessRecord
    <3> HIDE DEF tables
    <3> QED
      BY <1>5, <2>3, <3>1 DEF ProcessRecord
  <2> QED
    BY <2>1, <2>2, <2>3
<1>7. proc'[p] = r /\ perf'[p] = c /\ regions'[p] = regions[p]
  BY <1>1, <1>2, <1>r, StateOf
<1>8. Agrees(c) /\ (proc[p].inits = 0 => FirstUse(c))
  <2>1. /\ Agrees(perf[p]) /\ (proc[p].inits = 0 => Fresh(perf[p]))
        /\ (proc[p].inits = 0 => Once(p))
        /\ (Once(p) => FirstUse(perf[p]))
    BY <1>1, StateOf DEF CountersInv, LifeInv, Once
  <2> QED
    BY <1>1, <1>2, <2>1, InitAndStartKeeps
<1>9. TypeOK'
  BY <1>1, <1>2, <1>r, <1>6, <1>8 DEF LIInv, TypeOK, Agrees
<1>10. LifeInv(p)'
  BY <1>1, <1>4, <1>6, <1>7, StateOf DEF LifeInv
<1>11. CountersInv(p)'
  BY <1>1, <1>4, <1>6, <1>7, <1>8, StateOf DEF CountersInv, Once
<1>12. FaultInv(p)' /\ ReleasedInv(p)'
  BY <1>6, <1>7 DEF FaultInv, ReleasedInv
<1>13. SenderInv(p)'
  BY <1>1, <1>4, <1>6, <1>7, StateOf DEF SenderInv, LifeInv
<1>14. BufferFirst /\ r.region = "raw" =>
         \E s \in Sims : Rank[s] = sim_rank(p) /\ proc[s].inits > 1
  BY <1>6 DEF LIInv, AttachedBufferIsReady
<1>15. \A u \in Procs \ {p} : /\ proc'[u] = proc[u] /\ regions'[u] = regions[u]
                               /\ perf'[u] = perf[u] /\ probe'[u] = probe[u]
  BY <1>1, <1>2, <1>r, StateOf
<1> QED
  BY <1>1, <1>4, <1>6, <1>7, <1>9, <1>10, <1>11, <1>12, <1>13, <1>14, <1>15, OwnKeeps DEF PInv

LEMMA RunPhaseKeeps ==
  ASSUME LIInv, NEW p \in Procs, RunPhase(p), UNCHANGED probe
  PROVE  LIInv'
<1>1. /\ program[p] = "simulation" /\ program[p] \notin Samplers /\ proc[p].at = "in"
      /\ proc[p].fault = "none" /\ UNCHANGED <<program, senders, regions, probe>>
  BY DEF RunPhase, At, Samplers
<1>2. PICK expires \in BOOLEAN, refused \in BOOLEAN :
        /\ proc' = [proc EXCEPT ![p].known = TRUE,
             ![p].fault = IF expires /\ proc[p].do_stub /\ proc[p].handler
                             /\ proc[p].region # "mapped"
                          THEN proc[p].region ELSE @]
        /\ perf' = [perf EXCEPT ![p] =
             CASE ~proc[p].do_perfctr -> @
               [] refused /\ @.gr_num_events <= NUM_EVENTS -> Refused(@)
               [] OTHER -> gr_perfctr_read(@)]
  BY DEF RunPhase
<1> DEFINE how == IF expires /\ proc[p].do_stub /\ proc[p].handler
                     /\ proc[p].region # "mapped"
                  THEN proc[p].region ELSE proc[p].fault
           c == CASE ~proc[p].do_perfctr -> perf[p]
                  [] refused /\ perf[p].gr_num_events <= NUM_EVENTS -> Refused(perf[p])
                  [] OTHER -> gr_perfctr_read(perf[p])
           q == [proc[p] EXCEPT !.known = TRUE, !.fault = how]
<1>3. proc' = [proc EXCEPT ![p] = q] /\ perf' = [perf EXCEPT ![p] = c]
  BY <1>2, StateOf
<1>4. Agrees(c) /\ (FirstUse(perf[p]) => FirstUse(c))
  <2>1. Agrees(perf[p])
    BY StateOf DEF CountersInv
  <2>2. c \in {perf[p], Refused(perf[p]), gr_perfctr_read(perf[p])}
    OBVIOUS
  <2> HIDE DEF c
  <2> QED
    BY <2>1, <2>2, StateOf, RefusedKeeps, ReadKeeps
<1>5. /\ how \in {"none", "null", "dangling"}
      /\ how = "null" => proc[p].do_stub /\ proc[p].region = "null"
      /\ how = "dangling" => proc[p].ends # 0
  <2>1. proc[p].region \in {"null", "mapped", "dangling"}
    BY <1>1, StateOf DEF LifeInv, ProcessRecord
  <2>2. proc[p].region = "dangling" => proc[p].ends # 0
    BY StateOf DEF LifeInv
  <2> QED
    BY <1>1, <2>1, <2>2
<1> HIDE DEF how, c
<1>6. /\ q \in ProcessRecord /\ q.fault = how /\ q.at = "in"
      /\ q.inits = proc[p].inits /\ q.ends = proc[p].ends
      /\ q.phases = proc[p].phases /\ q.region = proc[p].region
      /\ q.do_stub = proc[p].do_stub
  <2>1. proc[p] \in ProcessRecord
    BY StateOf
  <2>2. q \in ProcessRecord
    BY <1>5, <2>1 DEF ProcessRecord
  <2> QED
    BY <1>1, <2>1, <2>2 DEF ProcessRecord
<1> HIDE DEF q
<1>7. proc'[p] = q /\ perf'[p] = c /\ regions'[p] = regions[p]
  BY <1>1, <1>3, StateOf
<1>8. TypeOK'
  BY <1>1, <1>3, <1>4, <1>6 DEF LIInv, TypeOK, Agrees
<1>9. LifeInv(p)'
  BY <1>1, <1>6, <1>7, StateOf DEF LifeInv
<1>10. CountersInv(p)'
  <2>1. proc[p].inits # 0
    BY <1>1, StateOf DEF LifeInv
  <2> QED
    BY <1>1, <1>4, <1>6, <1>7, <2>1, StateOf DEF CountersInv, Once
<1>11. FaultInv(p)' /\ ReleasedInv(p)' /\ SenderInv(p)'
  BY <1>1, <1>5, <1>6, <1>7, StateOf DEF FaultInv, ReleasedInv, SenderInv, Once
<1>12. q.region # "raw" /\ q.inits >= proc[p].inits
  BY <1>1, <1>6, StateOf DEF LifeInv
<1>13. \A u \in Procs \ {p} : /\ proc'[u] = proc[u] /\ regions'[u] = regions[u]
                               /\ perf'[u] = perf[u] /\ probe'[u] = probe[u]
  BY <1>1, <1>3, StateOf
<1> QED
  BY <1>1, <1>7, <1>8, <1>9, <1>10, <1>11, <1>12, <1>13, OwnKeeps DEF PInv

LEMMA SimulationFinalizeKeeps ==
  ASSUME LIInv, NEW p \in Procs, SimulationFinalize(p), UNCHANGED probe
  PROVE  LIInv'
<1>1. /\ program[p] = "simulation" /\ program[p] \notin Samplers
      /\ proc[p].at \in {"in", "final"}
      /\ proc[p].fault = "none" /\ proc[p].region # "raw"
  BY StateOf DEF SimulationFinalize, At, Samplers, LifeInv
<1>2. CASE FinalizeFault(proc[p]) # "none"
  <2> DEFINE how == FinalizeFault(proc[p])
  <2>1. Fails(p, how)
    BY <1>2 DEF SimulationFinalize
  <2>2. proc[p].region \in {"null", "mapped", "dangling"} /\ proc[p].ends \in Nat
    BY <1>1, StateOf DEF ProcessRecord
  <2>3. /\ how \in {"null", "dangling"}
        /\ how = "null" => \/ DebugTiming /\ proc[p].file = "null"
                           \/ proc[p].do_stub /\ proc[p].region = "null"
        /\ how = "dangling" => \/ proc[p].phases = "freed" \/ proc[p].region = "dangling"
                               \/ DebugTiming /\ proc[p].known
    BY <1>2, <2>2 DEF FinalizeFault
  <2> HIDE DEF how
  <2>4. how = "dangling" => ~Once(p) \/ (DebugTiming /\ proc[p].known /\ proc[p].at = "in")
    BY <1>1, <2>3, StateOf DEF LifeInv, Once
  <2> QED
    BY <2>1, <2>3, <2>4, FailsKeep
<1>3. CASE FinalizeFault(proc[p]) = "none"
  <2>1. PICK c \in gr_perfctr_finalize(perf[p]) : perf' = [perf EXCEPT ![p] = c]
    BY <1>3 DEF SimulationFinalize
  <2>2. PICK left \in {"none", regions[p]} : regions' = [regions EXCEPT ![p] = left]
    BY <1>3 DEF SimulationFinalize
  <2> DEFINE q == Finalized(proc[p])
  <2>3. proc' = [proc EXCEPT ![p] = q] /\ UNCHANGED <<program, senders, probe>>
    BY <1>3, StateOf DEF SimulationFinalize
  <2>4. /\ q \in ProcessRecord /\ q.fault = "none" /\ q.at = "final"
        /\ q.inits = proc[p].inits /\ q.ends = proc[p].ends + 1
        /\ q.phases = "freed" /\ q.files = "freed" /\ q.do_stub = proc[p].do_stub
        /\ q.region \in {"dangling", proc[p].region}
        /\ q.do_stub => ~q.handler /\ q.region = "dangling"
    <3> DEFINE handler == proc[p].handler /\ ~proc[p].do_stub
               region == IF proc[p].do_stub THEN "dangling" ELSE proc[p].region
    <3>1. /\ handler \in BOOLEAN /\ region \in {"dangling", proc[p].region}
          /\ proc[p].do_stub => ~handler /\ region = "dangling"
      OBVIOUS
    <3>2. /\ q = [proc[p] EXCEPT !.at = "final", !.ends = @ + 1, !.phases = "freed",
                                 !.files = "freed", !.file = "null", !.handler = handler,
                                 !.region = region]
          /\ proc[p] \in ProcessRecord /\ proc[p].ends + 1 \in Nat
      BY StateOf DEF Finalized
    <3> HIDE DEF handler, region, q
    <3>3. region \in {"null", "raw", "mapped", "dangling"}
      BY <3>1, <3>2 DEF ProcessRecord
    <3>4. q \in ProcessRecord
      BY <3>1, <3>2, <3>3, ZenonT(60) DEF ProcessRecord
    <3> QED
      BY <1>1, <3>1, <3>2, <3>4 DEF ProcessRecord
  <2> HIDE DEF q
  <2>5. proc'[p] = q /\ perf'[p] = c /\ regions'[p] = left
    BY <2>1, <2>2, <2>3, StateOf
  <2>6. Agrees(c) /\ (c.fault # "none" \/ c.eventset = "null" \/ c.refused)
    BY StateOf, FinalizeKeeps DEF CountersInv
  <2>7. TypeOK'
    BY <2>1, <2>2, <2>3, <2>4, <2>6, StateOf DEF LIInv, TypeOK, Agrees
  <2>8. q.ends # 0
    BY <2>4, StateOf
  <2>9. LifeInv(p)' /\ CountersInv(p)'
    BY <1>1, <2>3, <2>4, <2>5, <2>6, <2>8, StateOf DEF LifeInv, CountersInv, Once
  <2>10. FaultInv(p)' /\ ReleasedInv(p)'
    BY <2>4, <2>5, <2>6 DEF FaultInv, ReleasedInv
  <2>11. SenderInv(p)'
    BY <2>3, <2>4, <2>5, StateOf DEF SenderInv
  <2>12. q.region # "raw" /\ q.inits >= proc[p].inits
    BY <1>1, <2>4, StateOf
  <2>13. \A u \in Procs \ {p} : /\ proc'[u] = proc[u] /\ regions'[u] = regions[u]
                                 /\ perf'[u] = perf[u] /\ probe'[u] = probe[u]
    BY <2>1, <2>2, <2>3, StateOf
  <2> QED
    BY <2>3, <2>5, <2>7, <2>9, <2>10, <2>11, <2>12, <2>13, OwnKeeps DEF PInv
<1> QED
  BY <1>2, <1>3

-----------------------------------------------------------------------------
(***************************************************************************)
(* The sampling programs.                                                  *)
(***************************************************************************)
LEMMA SamplerKeeps ==
  ASSUME LIInv, NEW s \in Procs, program[s] \in Samplers,
         UNCHANGED <<program, proc, senders, regions>>,
         NEW c, NEW q \in ProbeRecord,
         perf' = [perf EXCEPT ![s] = c], probe' = [probe EXCEPT ![s] = q],
         Agrees(c), Explained(c), q.at # "main", q.at # "end" => FirstUse(c)
  PROVE  LIInv'
<1>1. /\ perf'[s] = c /\ probe'[s] = q
      /\ \A u \in Procs \ {s} : perf'[u] = perf[u] /\ probe'[u] = probe[u]
  BY DEF LIInv, TypeOK
<1>2. TypeOK'
  BY DEF LIInv, TypeOK, Agrees
<1>3. LifeInv(s)' /\ FaultInv(s)' /\ SenderInv(s)'
  BY StateOf DEF LifeInv, FaultInv, SenderInv, Once
<1>4. CountersInv(s)' /\ ReleasedInv(s)'
  BY <1>1, StateOf DEF CountersInv, ReleasedInv, Samplers
<1>5. BufferFirst /\ proc'[s].region = "raw" =>
        \E u \in Sims : Rank[u] = sim_rank(s) /\ proc[u].inits > 1
  BY DEF LIInv, AttachedBufferIsReady
<1>6. proc'[s].inits >= proc[s].inits
  BY StateOf
<1> QED
  BY <1>1, <1>2, <1>3, <1>4, <1>5, <1>6, OwnKeeps DEF PInv

LEMMA SamplerState ==
  ASSUME LIInv, NEW s \in Procs, program[s] \in Samplers
  PROVE  /\ perf[s] \in CountersRecord /\ Agrees(perf[s]) /\ Explained(perf[s])
         /\ probe[s] \in ProbeRecord /\ probe \in [Procs -> ProbeRecord]
         /\ probe[s].at = "main" => Fresh(perf[s])
         /\ probe[s].at # "end" => FirstUse(perf[s])
BY StateOf DEF LIInv, TypeOK, CountersInv

LEMMA StartSamplingKeeps ==
  ASSUME LIInv, NEW s \in Procs, program[s] \in Samplers, StartSampling(s, program[s]),
         UNCHANGED <<program, proc, senders, regions>>
  PROVE  LIInv'
<1>1. PICK c \in InitAndStart(perf[s]), opened \in BOOLEAN :
        perf' = [perf EXCEPT ![s] =
                   IF c.fault = "none" /\ ~opened /\ program[s] = "gr_dummy_analytics"
                   THEN [c EXCEPT !.fault = "no_file"] ELSE c]
  BY DEF StartSampling
<1> DEFINE d == [c EXCEPT !.fault = "no_file"]
           at == IF program[s] = "gr_perf_probe" THEN "end" ELSE "loop"
           q == [probe[s] EXCEPT !.at = at]
<1>2. probe[s].at = "main" /\ perf[s].fault = "none" /\ at \in {"end", "loop"}
  BY DEF StartSampling, SamplerAt
<1>3. Agrees(c) /\ FirstUse(c)
  BY <1>2, SamplerState, InitAndStartKeeps
<1>4. Agrees(d) /\ FirstUse(d)
  BY <1>3, FaultKeeps
<1>5. probe' = [probe EXCEPT ![s] = q]
  BY SamplerState DEF StartSampling
<1> HIDE DEF d, at
<1>6. q \in ProbeRecord /\ q.at = at
  BY <1>2, SamplerState DEF ProbeRecord
<1> HIDE DEF q
<1>7. PICK e \in {c, d} : perf' = [perf EXCEPT ![s] = e]
  BY <1>1 DEF d
<1> QED
  BY <1>2, <1>3, <1>4, <1>5, <1>6, <1>7, SamplerKeeps DEF FirstUse

(* The buffer of samples.                                                  *)
LEMMA EnteredIs ==
  ASSUME NEW q \in ProbeRecord, NEW counted \in BOOLEAN
  PROVE  LET r == Entered(q, counted) IN
         /\ r \in ProbeRecord
         /\ r.taken = q.taken + 1 /\ r.perf_idx = q.perf_idx /\ r.log = q.log
         /\ r.wtime = [q.wtime EXCEPT ![q.perf_idx] = q.taken + 1]
         /\ r.count = [q.count EXCEPT ![q.perf_idx] = IF counted THEN @ + 1 ELSE @]
<1> DEFINE r == Entered(q, counted)
           n == IF counted THEN q.count[q.perf_idx] + 1 ELSE q.count[q.perf_idx]
           count == [q.count EXCEPT ![q.perf_idx] = n]
           wtime == [q.wtime EXCEPT ![q.perf_idx] = q.taken + 1]
<1>1. /\ q.taken + 1 \in Nat /\ n \in Nat
      /\ count \in [Entries -> Nat] /\ wtime \in [Entries -> Nat]
  BY DEF ProbeRecord
<1>2. /\ r = [q EXCEPT !.taken = @ + 1, !.wtime = wtime, !.count = count]
      /\ count = [q.count EXCEPT ![q.perf_idx] = IF counted THEN @ + 1 ELSE @]
  BY DEF Entered, ProbeRecord
<1> HIDE DEF r, count, wtime
<1>3. r \in ProbeRecord
  BY <1>1, <1>2 DEF ProbeRecord
<1>4. /\ r.taken = q.taken + 1 /\ r.perf_idx = q.perf_idx /\ r.log = q.log
      /\ r.wtime = wtime /\ r.count = count
  BY <1>2 DEF ProbeRecord
<1> QED
  BY <1>2, <1>3, <1>4 DEF r, wtime

LEMMA WrittenIs ==
  ASSUME NEW q \in ProbeRecord, NEW n \in 0 .. PERF_BUFFER_SIZE
  PROVE  LET log == Written(q, n) IN
         /\ log \in Seq(Nat \X Nat) /\ Len(log) = Len(q.log) + n
         /\ \A i \in 1 .. Len(q.log) : log[i] = q.log[i]
         /\ \A e \in 0 .. n - 1 :
              /\ e \in Entries
              /\ log[Len(q.log) + e + 1] = <<q.wtime[e], q.count[e]>>
<1> DEFINE t == [i \in 1 .. n |-> <<q.wtime[i - 1], q.count[i - 1]>>]
           log == q.log \o t
<1>1. /\ q.log \in Seq(Nat \X Nat) /\ q.wtime \in [Entries -> Nat]
      /\ q.count \in [Entries -> Nat] /\ n \in Nat /\ PERF_BUFFER_SIZE \in Nat
  BY ProbeAssumption DEF ProbeRecord
<1>2. \A i \in 1 .. n : i - 1 \in Entries
  BY <1>1 DEF Entries
<1>3. t \in Seq(Nat \X Nat) /\ Len(t) = n
  <2>1. t \in [1 .. n -> Nat \X Nat]
    BY <1>1, <1>2
  <2>2. DOMAIN t = 1 .. n
    OBVIOUS
  <2> HIDE DEF t
  <2>3. t \in Seq(Nat \X Nat)
    BY <1>1, <2>1, SeqDef
  <2> DEFINE k == Len(t)
  <2>4. k \in Nat /\ DOMAIN t = 1 .. k
    BY <2>3, LenProperties
  <2> HIDE DEF k
  <2>5. n \in Nat
    BY <1>1
  <2>6. \A i : i \in 1 .. n <=> i \in 1 .. k
    BY <2>2, <2>4
  <2>7. (n \in 1 .. n <=> n \in 1 .. k) /\ (k \in 1 .. n <=> k \in 1 .. k)
    BY <2>6
  <2>8. n = k
    BY <2>4, <2>5, <2>7
  <2> QED
    BY <2>3, <2>8 DEF k
<1> HIDE DEF t
<1> DEFINE l == Len(q.log)
<1>4. /\ log \in Seq(Nat \X Nat) /\ Len(log) = l + n
      /\ \A i \in 1 .. l + n : log[i] = IF i <= l THEN q.log[i] ELSE t[i - l]
  BY <1>1, <1>3, ConcatProperties
<1>5. l \in Nat
  BY <1>1, LenProperties
<1> HIDE DEF log, l
<1>6. ASSUME NEW e \in 0 .. n - 1
      PROVE  e \in Entries /\ log[l + e + 1] = <<q.wtime[e], q.count[e]>>
  <2> DEFINE i == l + e + 1
  <2>1. e \in Nat /\ e + 1 <= n
    BY <1>1
  <2>2. /\ e + 1 \in 1 .. n /\ i \in 1 .. l + n
        /\ ~(i <= l) /\ i - l = e + 1 /\ e + 1 - 1 = e
    BY <1>1, <1>5, <2>1
  <2>3. t[e + 1] = <<q.wtime[e], q.count[e]>>
    BY <2>2 DEF t
  <2> HIDE DEF i
  <2>4. log[i] = t[e + 1]
    <3>1. \A j \in 1 .. l + n : ~(j <= l) => log[j] = t[j - l]
      BY <1>4
    <3> QED
      BY <2>2, <3>1
  <2> QED
    BY <1>2, <2>2, <2>3, <2>4 DEF i
<1>7. \A i \in 1 .. l : log[i] = q.log[i]
  BY <1>1, <1>4, <1>5, SMTT(30)
<1> QED
  BY <1>4, <1>6, <1>7 DEF Written, log, t, l

LEMMA FlushedIs ==
  ASSUME NEW q \in ProbeRecord
  PROVE  LET r == Flushed(q) IN
         /\ r \in ProbeRecord
         /\ r.taken = q.taken /\ r.wtime = q.wtime /\ r.count = q.count
         /\ q.perf_idx + 1 < PERF_BUFFER_SIZE => r.perf_idx = q.perf_idx + 1 /\ r.log = q.log
         /\ q.perf_idx + 1 >= PERF_BUFFER_SIZE => /\ q.perf_idx + 1 = PERF_BUFFER_SIZE
                                                 /\ r.perf_idx = 0
                                                 /\ r.log = Written(q, PERF_BUFFER_SIZE)
<1>1. PERF_BUFFER_SIZE \in Nat \ {0} /\ q.perf_idx \in Entries /\ 0 \in Entries
  BY ProbeAssumption DEF ProbeRecord, Entries
<1>2. q.perf_idx \in Nat /\ q.perf_idx + 1 <= PERF_BUFFER_SIZE
  BY <1>1 DEF Entries
<1>3. CASE q.perf_idx + 1 < PERF_BUFFER_SIZE
  <2>1. q.perf_idx + 1 \in Entries
    BY <1>1, <1>2, <1>3 DEF Entries
  <2>2. Flushed(q) = [q EXCEPT !.perf_idx = @ + 1]
    BY <1>3 DEF Flushed
  <2>3. /\ Flushed(q) \in ProbeRecord /\ Flushed(q).taken = q.taken
        /\ Flushed(q).wtime = q.wtime /\ Flushed(q).count = q.count
        /\ Flushed(q).perf_idx = q.perf_idx + 1 /\ Flushed(q).log = q.log
    BY <2>1, <2>2 DEF ProbeRecord
  <2>4. ~(q.perf_idx + 1 >= PERF_BUFFER_SIZE)
    BY <1>1, <1>2, <1>3
  <2> QED
    BY <2>3, <2>4
<1>4. CASE ~(q.perf_idx + 1 < PERF_BUFFER_SIZE)
  <2> DEFINE log == Written(q, PERF_BUFFER_SIZE)
  <2>1. log \in Seq(Nat \X Nat)
    BY <1>1, WrittenIs
  <2>2. Flushed(q) = [q EXCEPT !.log = log, !.perf_idx = 0]
    BY <1>4 DEF Flushed
  <2>3. q.perf_idx + 1 = PERF_BUFFER_SIZE
    BY <1>1, <1>2, <1>4
  <2> HIDE DEF log
  <2>4. /\ Flushed(q) \in ProbeRecord /\ Flushed(q).taken = q.taken
        /\ Flushed(q).wtime = q.wtime /\ Flushed(q).count = q.count
        /\ Flushed(q).perf_idx = 0 /\ Flushed(q).log = log
    BY <1>1, <2>1, <2>2 DEF ProbeRecord
  <2> QED
    BY <1>4, <2>3, <2>4 DEF log
<1> QED
  BY <1>3, <1>4
(* One turn of the loop, what it leaves in the buffer, and the end.        *)
Turned(q, counted, over) ==
  [Flushed(Entered(q, counted)) EXCEPT !.at = IF over THEN "dump" ELSE "loop"]

Dumped(q) == [q EXCEPT !.log = Written(q, q.perf_idx), !.at = "end"]

LEMMA TurnedIs ==
  ASSUME NEW q \in ProbeRecord, NEW counted \in BOOLEAN, NEW over \in BOOLEAN
  PROVE  LET r == Entered(q, counted)
             f == Flushed(r)
             z == Turned(q, counted, over)
         IN /\ z \in ProbeRecord /\ z.at \in {"dump", "loop"}
            /\ z.taken = f.taken /\ z.perf_idx = f.perf_idx /\ z.log = f.log
            /\ z.wtime = f.wtime /\ z.count = f.count
<1> DEFINE f == Flushed(Entered(q, counted))
           at == IF over THEN "dump" ELSE "loop"
           z == [f EXCEPT !.at = at]
<1>1. f \in ProbeRecord
  BY EnteredIs, FlushedIs
<1>2. at \in {"dump", "loop"}
  OBVIOUS
<1> HIDE DEF f, at
<1>3. /\ z \in ProbeRecord /\ z.at = at
      /\ z.taken = f.taken /\ z.perf_idx = f.perf_idx /\ z.log = f.log
      /\ z.wtime = f.wtime /\ z.count = f.count
  BY <1>1, <1>2 DEF ProbeRecord
<1> QED
  BY <1>2, <1>3 DEF Turned, f, at

LEMMA DumpedIs ==
  ASSUME NEW q \in ProbeRecord
  PROVE  /\ q.perf_idx \in 0 .. PERF_BUFFER_SIZE
         /\ Dumped(q) \in ProbeRecord /\ Dumped(q).at = "end"
         /\ Dumped(q).taken = q.taken /\ Dumped(q).log = Written(q, q.perf_idx)
<1>1. q.perf_idx \in 0 .. PERF_BUFFER_SIZE
  BY ProbeAssumption DEF ProbeRecord, Entries
<1> DEFINE log == Written(q, q.perf_idx)
<1>2. log \in Seq(Nat \X Nat)
  BY <1>1, WrittenIs
<1> HIDE DEF log
<1>3. LET d == [q EXCEPT !.log = log, !.at = "end"] IN
      d \in ProbeRecord /\ d.at = "end" /\ d.taken = q.taken /\ d.log = log
  BY <1>2 DEF ProbeRecord
<1> QED
  BY <1>1, <1>3 DEF Dumped, log

LEMMA SampleIs ==
  ASSUME LIInv, NEW s \in Procs, program[s] \in Samplers, Sample(s)
  PROVE  \E counted \in BOOLEAN, over \in BOOLEAN, c \in CountersRecord :
           /\ perf' = [perf EXCEPT ![s] = c]
           /\ probe' = [probe EXCEPT ![s] = Turned(probe[s], counted, over)]
           /\ Agrees(c) /\ FirstUse(c)
           /\ ~c.refused => counted /\ ~perf[s].refused
<1>1. PICK counted \in BOOLEAN, over \in BOOLEAN :
        /\ perf' = [perf EXCEPT ![s] =
                      IF probe[s].perf_idx + 1 < PERF_BUFFER_SIZE
                      THEN Reading(@, counted) ELSE gr_perfctr_print(Reading(@, counted))]
        /\ probe' = [probe EXCEPT ![s] =
                       [Flushed(Entered(@, counted)) EXCEPT
                          !.at = IF over THEN "dump" ELSE "loop"]]
  BY DEF Sample
<1> DEFINE b == Reading(perf[s], counted)
           c == IF probe[s].perf_idx + 1 < PERF_BUFFER_SIZE THEN b ELSE gr_perfctr_print(b)
<1>2. Agrees(perf[s]) /\ FirstUse(perf[s]) /\ perf[s] \in CountersRecord
  BY SamplerState DEF Sample, SamplerAt
<1>3. Agrees(b) /\ FirstUse(b) /\ (~b.refused => counted /\ ~perf[s].refused)
  <2>1. CASE counted
    <3> DEFINE a == gr_perfctr_read(perf[s])
    <3>1. Agrees(a) /\ FirstUse(a) /\ a.refused = perf[s].refused
      BY <1>2, ReadKeeps DEF gr_perfctr_read, CountersRecord
    <3> HIDE DEF a
    <3>2. /\ Agrees(gr_perfctr_phase_end(a)) /\ FirstUse(gr_perfctr_phase_end(a))
          /\ gr_perfctr_phase_end(a).refused = a.refused
      BY <3>1, ReadKeeps DEF gr_perfctr_phase_end, Agrees, CountersRecord
    <3> QED
      BY <2>1, <3>1, <3>2 DEF Reading, a
  <2>2. CASE ~counted
    BY <1>2, <2>2, RefusedKeeps DEF Reading
  <2> QED
    BY <2>1, <2>2
<1> HIDE DEF b
<1>4. Agrees(c) /\ FirstUse(c) /\ c.refused = b.refused
  BY <1>3, ReadKeeps DEF gr_perfctr_print, Agrees, CountersRecord
<1>5. perf' = [perf EXCEPT ![s] = c]
  BY <1>1, SamplerState, StateOf DEF b
<1>6. probe' = [probe EXCEPT ![s] = Turned(probe[s], counted, over)]
  BY <1>1, SamplerState DEF Turned
<1>7. c \in CountersRecord
  BY <1>4 DEF Agrees
<1> HIDE DEF c
<1> QED
  BY <1>7, <1>3, <1>4, <1>5, <1>6

LEMMA EndSamplingIs ==
  ASSUME LIInv, NEW s \in Procs, program[s] \in Samplers, EndSampling(s)
  PROVE  \E c : /\ perf' = [perf EXCEPT ![s] = c]
                /\ probe' = [probe EXCEPT ![s] = Dumped(probe[s])]
                /\ Agrees(c) /\ Explained(c)
                /\ perf[s].refused => c.refused
<1> DEFINE b == IF probe[s].perf_idx = 0 THEN perf[s] ELSE gr_perfctr_print(perf[s])
<1>1. PICK c \in gr_perfctr_finalize(b) : perf' = [perf EXCEPT ![s] = c]
  BY DEF EndSampling
<1>2. Agrees(perf[s]) /\ FirstUse(perf[s]) /\ perf[s] \in CountersRecord
  BY SamplerState DEF EndSampling, SamplerAt
<1>3. Agrees(b) /\ FirstUse(b) /\ b.refused = perf[s].refused
  BY <1>2, ReadKeeps DEF gr_perfctr_print, CountersRecord
<1> HIDE DEF b
<1>4. Agrees(c) /\ Explained(c)
  BY <1>3, FinalizeKeeps
<1>5. b.refused => c.refused
  <2>1. CASE b.fault # "none"
    BY <2>1 DEF gr_perfctr_finalize
  <2>2. CASE b.fault = "none"
    <3>1. PICK e \in gr_perfctr_stop(b) :
            c \in IF e.fault # "none" THEN {e}
                  ELSE {Refused(e)} \cup
                       (IF e.eventset = "null" \/ e.running THEN {}
                        ELSE {Refused([e EXCEPT !.in_set = 0]), Freed(e)})
      BY <2>2 DEF gr_perfctr_finalize
    <3>2. e \in CountersRecord
      BY <1>3, <2>2, StopKeeps DEF Agrees
    <3>3. b.refused => e.refused
      BY <1>3 DEF gr_perfctr_stop, Refused, Agrees, CountersRecord
    <3>4. e.refused => c.refused
      BY <3>1, <3>2 DEF Refused, Freed, CountersRecord
    <3> QED
      BY <3>3, <3>4
  <2> QED
    BY <2>1, <2>2
<1>6. probe' = [probe EXCEPT ![s] = Dumped(probe[s])]
  BY SamplerState DEF EndSampling, Dumped
<1> QED
  BY <1>1, <1>3, <1>4, <1>5, <1>6

LEMMA SampleKeeps ==
  ASSUME LIInv, NEW s \in Procs, program[s] \in Samplers, Sample(s),
         UNCHANGED <<program, proc, senders, regions>>
  PROVE  LIInv'
<1>1. PICK counted \in BOOLEAN, over \in BOOLEAN, c \in CountersRecord :
        /\ perf' = [perf EXCEPT ![s] = c]
        /\ probe' = [probe EXCEPT ![s] = Turned(probe[s], counted, over)]
        /\ Agrees(c) /\ FirstUse(c)
  BY SampleIs
<1>2. /\ Turned(probe[s], counted, over) \in ProbeRecord
      /\ Turned(probe[s], counted, over).at \in {"dump", "loop"}
  BY SamplerState, TurnedIs
<1> QED
  BY <1>1, <1>2, SamplerKeeps DEF FirstUse

LEMMA EndSamplingKeeps ==
  ASSUME LIInv, NEW s \in Procs, program[s] \in Samplers, EndSampling(s),
         UNCHANGED <<program, proc, senders, regions>>
  PROVE  LIInv'
<1>1. PICK c : /\ perf' = [perf EXCEPT ![s] = c]
               /\ probe' = [probe EXCEPT ![s] = Dumped(probe[s])]
               /\ Agrees(c) /\ Explained(c)
  BY EndSamplingIs
<1>2. Dumped(probe[s]) \in ProbeRecord /\ Dumped(probe[s]).at = "end"
  BY SamplerState, DumpedIs
<1> QED
  BY <1>1, <1>2, SamplerKeeps

LEMMA StepLIInv == LIInv /\ [Next]_vars => LIInv'
<1> SUFFICES ASSUME LIInv, [Next]_vars PROVE LIInv'
  OBVIOUS
<1>1. ASSUME NEW p \in Procs, LifeStep(p), UNCHANGED probe PROVE LIInv'
  BY <1>1, GrInitKeeps, CreateRegionKeeps, InitLockKeeps, StubInitKeeps, RunPhaseKeeps,
     SimulationFinalizeKeeps, LoadSchedulerKeeps, GetSenderKeeps, AttachKeeps,
     AnalyticsFinalizeKeeps DEF LifeStep
<1>2. ASSUME NEW s \in Procs, program[s] \in Samplers, SamplerStep(s, program[s]),
             UNCHANGED <<program, proc, senders, regions>>
      PROVE  LIInv'
  BY <1>2, StartSamplingKeeps, SampleKeeps, EndSamplingKeeps DEF SamplerStep
<1>3. CASE UNCHANGED vars
  <2>1. UNCHANGED <<perf, program, proc, senders, regions, probe>>
    BY <1>3 DEF vars, lifevars
  <2>2. ASSUME NEW p \in Procs PROVE PInv(p)'
    <3>1. PInv(p)
      BY DEF LIInv
    <3> QED
      BY <2>1, <3>1 DEF PInv, LifeInv, CountersInv, FaultInv, ReleasedInv, SenderInv, Once
  <2>3. Sims' = Sims /\ \A q \in Procs : sim_rank(q)' = sim_rank(q)
    BY <2>1 DEF Sims, sim_rank
  <2>4. AttachedBufferIsReady => AttachedBufferIsReady'
    BY <2>1, <2>3 DEF AttachedBufferIsReady
  <2>5. TypeOK'
    BY <2>1 DEF LIInv, TypeOK
  <2> QED
    BY <2>2, <2>4, <2>5 DEF LIInv
<1> QED
  BY <1>1, <1>2, <1>3, RegisterSenderKeeps DEF Next

-----------------------------------------------------------------------------
(***************************************************************************)
(* The log. After m times round the buffer the log is m buffers long, the  *)
(* entries before perf_idx hold the samples since, and their counters m + 1*)
(* samples, those of the other entries m.                                  *)
(***************************************************************************)
LogOf(log, refused) ==
  \A i \in 1 .. Len(log) :
    /\ log[i][1] = i
    /\ log[i][2] <= (i - 1) \div PERF_BUFFER_SIZE + 1
    /\ ~refused => log[i][2] = (i - 1) \div PERF_BUFFER_SIZE + 1

EntryOf(q, refused, base, m, e) ==
  /\ e < q.perf_idx => /\ q.wtime[e] = base + e + 1
                       /\ q.count[e] <= m + 1 /\ (~refused => q.count[e] = m + 1)
  /\ e >= q.perf_idx => q.count[e] <= m /\ (~refused => q.count[e] = m)

BufferOf(q, refused, m) ==
  /\ Len(q.log) = PERF_BUFFER_SIZE * m
  /\ q.taken = PERF_BUFFER_SIZE * m + q.perf_idx
  /\ \A e \in Entries : EntryOf(q, refused, PERF_BUFFER_SIZE * m, m, e)

LogInv(s) ==
  /\ probe[s].at = "main" => probe[s] = NewProbe
  /\ LogOf(probe[s].log, perf[s].refused)
  /\ probe[s].at # "end" => \E m \in Nat : BufferOf(probe[s], perf[s].refused, m)
  /\ probe[s].at = "end" => Len(probe[s].log) = probe[s].taken

LogIInv ==
  \A s \in Procs : IF program[s] \in Samplers THEN LogInv(s) ELSE probe[s] = NewProbe

LEMMA Quotient ==
  ASSUME NEW m \in Nat, NEW e \in Entries
  PROVE  (PERF_BUFFER_SIZE * m + e) \div PERF_BUFFER_SIZE = m
<1> DEFINE n == PERF_BUFFER_SIZE
           k == n * m + e
           d == k \div n
<1>1. n \in Nat /\ n > 0 /\ e \in Nat /\ e < n
  BY ProbeAssumption DEF Entries
<1>2. n * m \in Nat
  BY <1>1
<1>3. k \in Nat
  BY <1>1, <1>2
<1> HIDE DEF k
<1>4. d \in Int /\ k % n \in Int /\ 0 <= k % n /\ k % n < n
  BY <1>1, <1>3
<1>5. k % n = k - n * d
  BY <1>1, <1>3
<1> HIDE DEF d
<1>6. k = n * m + e
  BY DEF k
<1> HIDE DEF n
<1>7. n * d \in Int /\ n * (m - d) = n * m - n * d /\ n * (d - m) = n * d - n * m
  BY <1>1, <1>4
<1>8. \A c \in Int : c >= 1 => n * c >= n
  BY <1>1
<1>9. ~(m - d >= 1) /\ ~(d - m >= 1)
  BY <1>1, <1>2, <1>3, <1>4, <1>5, <1>6, <1>7, <1>8
<1>10. d = m
  BY <1>4, <1>9
<1> QED
  BY <1>10 DEF d, k, n

LEMMA WrittenLog ==
  ASSUME NEW q \in ProbeRecord, NEW refused \in BOOLEAN, NEW m \in Nat,
         NEW n \in 0 .. PERF_BUFFER_SIZE,
         LogOf(q.log, refused), Len(q.log) = PERF_BUFFER_SIZE * m,
         \A e \in 0 .. n - 1 :
           /\ q.wtime[e] = PERF_BUFFER_SIZE * m + e + 1
           /\ q.count[e] <= m + 1 /\ (~refused => q.count[e] = m + 1)
  PROVE  LogOf(Written(q, n), refused)
<1> DEFINE log == Written(q, n)
           l == Len(q.log)
<1>1. /\ Len(log) = l + n
      /\ \A i \in 1 .. l : log[i] = q.log[i]
      /\ \A e \in 0 .. n - 1 : /\ e \in Entries
                              /\ log[l + e + 1] = <<q.wtime[e], q.count[e]>>
  BY WrittenIs
<1>2. l \in Nat /\ n \in Nat
  BY LenProperties DEF ProbeRecord
<1>3. \A e \in Entries : (l + e) \div PERF_BUFFER_SIZE = m
  BY Quotient
<1>4. \A e \in 0 .. n - 1 : /\ q.wtime[e] = l + e + 1
                          /\ q.count[e] <= m + 1 /\ (~refused => q.count[e] = m + 1)
  OBVIOUS
<1>5. \A i \in 1 .. l :
        /\ q.log[i][1] = i /\ q.log[i][2] <= (i - 1) \div PERF_BUFFER_SIZE + 1
        /\ ~refused => q.log[i][2] = (i - 1) \div PERF_BUFFER_SIZE + 1
  BY DEF LogOf
<1> HIDE DEF log, l
<1>6. ASSUME NEW i \in 1 .. l + n
      PROVE  /\ log[i][1] = i
             /\ log[i][2] <= (i - 1) \div PERF_BUFFER_SIZE + 1
             /\ ~refused => log[i][2] = (i - 1) \div PERF_BUFFER_SIZE + 1
  <2>1. CASE i \in 1 .. l
    BY <1>1, <1>5, <2>1
  <2>2. CASE i \notin 1 .. l
    <3> DEFINE e == i - l - 1
    <3>1. e \in 0 .. n - 1 /\ i = l + e + 1 /\ i - 1 = l + e
      BY <1>2, <2>2
    <3> HIDE DEF e
    <3>2. /\ e \in Entries /\ log[i] = <<q.wtime[e], q.count[e]>>
      BY <1>1, <3>1
    <3>3. (i - 1) \div PERF_BUFFER_SIZE = m
      BY <1>3, <3>1, <3>2
    <3>4. /\ q.wtime[e] = i
          /\ q.count[e] <= m + 1 /\ (~refused => q.count[e] = m + 1)
      BY <1>4, <3>1
    <3>5. log[i][1] = q.wtime[e] /\ log[i][2] = q.count[e]
      BY <3>2
    <3> QED
      BY <3>3, <3>4, <3>5
  <2> QED
    BY <2>1, <2>2
<1>7. LogOf(log, refused)
  BY <1>1, <1>6 DEF LogOf
<1> QED
  BY <1>7 DEF log

LEMMA TurnedLog ==
  ASSUME NEW q \in ProbeRecord, NEW counted \in BOOLEAN, NEW over \in BOOLEAN,
         NEW refused \in BOOLEAN, NEW refused2 \in BOOLEAN, NEW m \in Nat,
         LogOf(q.log, refused), BufferOf(q, refused, m), ~refused2 => counted /\ ~refused
  PROVE  LET z == Turned(q, counted, over) IN
         LogOf(z.log, refused2) /\ \E k \in Nat : BufferOf(z, refused2, k)
<1> DEFINE z == Turned(q, counted, over)
           r == Entered(q, counted)
           l == PERF_BUFFER_SIZE * m
<1>1. /\ l \in Nat /\ PERF_BUFFER_SIZE \in Nat /\ q.perf_idx \in Nat /\ q.perf_idx \in Entries
      /\ \A e \in Entries : e \in Nat /\ q.count[e] \in Nat /\ e < PERF_BUFFER_SIZE
      /\ q.count \in [Entries -> Nat] /\ q.wtime \in [Entries -> Nat]
  BY ProbeAssumption DEF ProbeRecord, Entries
<1>2. LogOf(q.log, refused2)
  BY DEF LogOf
<1>3. /\ r \in ProbeRecord /\ r.taken = q.taken + 1 /\ r.perf_idx = q.perf_idx /\ r.log = q.log
      /\ r.wtime = [q.wtime EXCEPT ![q.perf_idx] = q.taken + 1]
      /\ r.count = [q.count EXCEPT ![q.perf_idx] = IF counted THEN @ + 1 ELSE @]
  BY EnteredIs
<1>4. /\ Len(q.log) = l /\ q.taken = l + q.perf_idx
      /\ \A e \in Entries : EntryOf(q, refused, l, m, e)
  BY DEF BufferOf
<1> HIDE DEF r
<1>5. /\ z.taken = Flushed(r).taken /\ z.perf_idx = Flushed(r).perf_idx
      /\ z.log = Flushed(r).log /\ z.wtime = Flushed(r).wtime /\ z.count = Flushed(r).count
  BY TurnedIs DEF r
<1> HIDE DEF z, l
<1>6. ASSUME NEW e \in Entries
      PROVE  /\ e <= q.perf_idx => /\ r.wtime[e] = l + e + 1
                                   /\ r.count[e] <= m + 1 /\ (~refused2 => r.count[e] = m + 1)
             /\ e > q.perf_idx => r.count[e] <= m /\ (~refused2 => r.count[e] = m)
  <2>1. EntryOf(q, refused, l, m, e) /\ q.count[e] \in Nat /\ e \in Nat
    BY <1>1, <1>4
  <2>2. CASE e = q.perf_idx
    <3>1. /\ r.wtime[e] = l + e + 1
          /\ r.count[e] = IF counted THEN q.count[e] + 1 ELSE q.count[e]
      BY <1>1, <1>3, <1>4, <2>2
    <3>2. q.count[e] <= m /\ (~refused => q.count[e] = m)
      BY <1>1, <2>1, <2>2 DEF EntryOf
    <3> QED
      BY <2>1, <2>2, <3>1, <3>2
  <2>3. CASE e # q.perf_idx
    <3>1. r.wtime[e] = q.wtime[e] /\ r.count[e] = q.count[e]
      BY <1>1, <1>3, <2>3
    <3>2. /\ e <= q.perf_idx => /\ q.wtime[e] = l + e + 1
                                /\ q.count[e] <= m + 1 /\ (~refused => q.count[e] = m + 1)
          /\ e > q.perf_idx => q.count[e] <= m /\ (~refused => q.count[e] = m)
      BY <1>1, <2>1, <2>3 DEF EntryOf
    <3> QED
      BY <3>1, <3>2
  <2> QED
    BY <2>2, <2>3
<1>7. CASE q.perf_idx + 1 < PERF_BUFFER_SIZE
  <2>1. /\ z.taken = q.taken + 1 /\ z.perf_idx = q.perf_idx + 1 /\ z.log = q.log
        /\ z.wtime = r.wtime /\ z.count = r.count
    BY <1>3, <1>5, <1>7, FlushedIs
  <2>2. ASSUME NEW e \in Entries PROVE EntryOf(z, refused2, l, m, e)
    <3>1. (e < z.perf_idx <=> e <= q.perf_idx) /\ (e >= z.perf_idx <=> e > q.perf_idx)
      BY <1>1, <2>1
    <3> QED
      BY <1>6, <2>1, <3>1 DEF EntryOf
  <2>3. z.taken = l + z.perf_idx
    BY <1>1, <1>4, <2>1
  <2>4. BufferOf(z, refused2, m)
    BY <1>4, <2>1, <2>2, <2>3 DEF BufferOf, l
  <2> QED
    BY <1>2, <2>1, <2>4 DEF z
<1>8. CASE q.perf_idx + 1 >= PERF_BUFFER_SIZE
  <2>1. /\ q.perf_idx + 1 = PERF_BUFFER_SIZE
        /\ z.taken = q.taken + 1 /\ z.perf_idx = 0 /\ z.log = Written(r, PERF_BUFFER_SIZE)
        /\ z.wtime = r.wtime /\ z.count = r.count
    BY <1>3, <1>5, <1>8, FlushedIs
  <2>2. \A e \in Entries : e <= q.perf_idx
    BY <1>1, <2>1
  <2>3. \A e \in 0 .. PERF_BUFFER_SIZE - 1 :
          /\ r.wtime[e] = PERF_BUFFER_SIZE * m + e + 1
          /\ r.count[e] <= m + 1 /\ (~refused2 => r.count[e] = m + 1)
    <3>1. \A e \in Entries : /\ r.wtime[e] = l + e + 1
                            /\ r.count[e] <= m + 1 /\ (~refused2 => r.count[e] = m + 1)
      BY <1>6, <2>2
    <3> QED
      BY <3>1 DEF Entries, l
  <2>4. PERF_BUFFER_SIZE \in 0 .. PERF_BUFFER_SIZE
    BY <1>1
  <2>5. LogOf(z.log, refused2)
    <3>1. LogOf(r.log, refused2) /\ Len(r.log) = PERF_BUFFER_SIZE * m /\ r \in ProbeRecord
      BY <1>2, <1>3, <1>4 DEF l
    <3>2. LogOf(Written(r, PERF_BUFFER_SIZE), refused2)
      BY <2>3, <2>4, <3>1, WrittenLog
    <3> QED
      BY <2>1, <3>2
  <2>6. Len(z.log) = l + PERF_BUFFER_SIZE
    BY <1>3, <1>4, <2>1, <2>4, WrittenIs, SMTT(30)
  <2>7. l + PERF_BUFFER_SIZE = PERF_BUFFER_SIZE * (m + 1) /\ m + 1 \in Nat
    BY <1>1 DEF l
  <2>8. ASSUME NEW e \in Entries
        PROVE  EntryOf(z, refused2, l + PERF_BUFFER_SIZE, m + 1, e)
    <3>1. e >= z.perf_idx /\ ~(e < z.perf_idx)
      BY <1>1, <2>1
    <3>2. z.count[e] <= m + 1 /\ (~refused2 => z.count[e] = m + 1)
      BY <1>6, <2>1, <2>2
    <3> QED
      BY <3>1, <3>2 DEF EntryOf
  <2>9. z.taken = l + PERF_BUFFER_SIZE + z.perf_idx
    <3>1. /\ l \in Nat /\ PERF_BUFFER_SIZE \in Nat /\ q.perf_idx \in Nat
          /\ z.taken = l + q.perf_idx + 1
      BY <1>1, <1>4, <2>1
    <3> QED
      BY <2>1, <3>1
  <2>10. BufferOf(z, refused2, m + 1)
    BY <2>6, <2>7, <2>8, <2>9 DEF BufferOf
  <2> QED
    BY <2>5, <2>7, <2>10 DEF z
<1> QED
  BY <1>1, <1>7, <1>8

LEMMA DumpedLog ==
  ASSUME NEW q \in ProbeRecord, NEW refused \in BOOLEAN, NEW refused2 \in BOOLEAN,
         NEW m \in Nat, LogOf(q.log, refused), BufferOf(q, refused, m), ~refused2 => ~refused
  PROVE  LogOf(Dumped(q).log, refused2) /\ Len(Dumped(q).log) = Dumped(q).taken
<1>1. /\ q.perf_idx \in 0 .. PERF_BUFFER_SIZE /\ Dumped(q).taken = q.taken
      /\ Dumped(q).log = Written(q, q.perf_idx)
  BY DumpedIs
<1>2. LogOf(q.log, refused2)
  BY DEF LogOf
<1>3. ASSUME NEW e \in 0 .. q.perf_idx - 1
      PROVE  /\ q.wtime[e] = PERF_BUFFER_SIZE * m + e + 1
             /\ q.count[e] <= m + 1 /\ (~refused2 => q.count[e] = m + 1)
  <2>1. e \in Entries /\ e < q.perf_idx
    BY <1>1, ProbeAssumption DEF Entries
  <2> QED
    BY <2>1 DEF BufferOf, EntryOf
<1>4. Len(q.log) = PERF_BUFFER_SIZE * m /\ q.taken = PERF_BUFFER_SIZE * m + q.perf_idx
  BY DEF BufferOf
<1>5. LogOf(Written(q, q.perf_idx), refused2)
  BY <1>1, <1>2, <1>3, <1>4, WrittenLog
<1>6. Len(Written(q, q.perf_idx)) = Len(q.log) + q.perf_idx
  BY <1>1, WrittenIs
<1> QED
  BY <1>1, <1>4, <1>5, <1>6

LEMMA EmptyLog ==
  ASSUME NEW at, NEW refused
  PROVE  LET q == [NewProbe EXCEPT !.at = at] IN
         /\ LogOf(q.log, refused) /\ BufferOf(q, refused, 0) /\ Len(q.log) = q.taken
         /\ q.at = at
<1> DEFINE q == [NewProbe EXCEPT !.at = at]
<1>1. /\ q.log = <<>> /\ Len(<<>>) = 0 /\ q.taken = 0 /\ q.perf_idx = 0 /\ q.at = at
      /\ \A e \in Entries : q.count[e] = 0 /\ e \in Nat
  BY ProbeAssumption DEF NewProbe, Entries
<1> HIDE DEF q
<1>2. LogOf(q.log, refused)
  BY <1>1 DEF LogOf
<1>3. PERF_BUFFER_SIZE * 0 = 0
  BY ProbeAssumption
<1>4. \A e \in Entries : EntryOf(q, refused, 0, 0, e)
  BY <1>1 DEF EntryOf
<1>5. BufferOf(q, refused, 0)
  BY <1>1, <1>3, <1>4 DEF BufferOf
<1> QED
  BY <1>1, <1>2, <1>5 DEF q

LEMMA InitLog == Init => LogIInv
<1> SUFFICES ASSUME Init, NEW s \in Procs PROVE LogInv(s) /\ probe[s] = NewProbe
  BY DEF LogIInv
<1>1. probe[s] = NewProbe
  BY DEF Init
<1>2. [NewProbe EXCEPT !.at = "main"] = NewProbe /\ NewProbe.at = "main"
  BY DEF NewProbe
<1> QED
  BY <1>1, <1>2, EmptyLog DEF LogInv

(* A process that is not a sampler leaves the samplers' counters alone.    *)
LEMMA LifeIsApart ==
  ASSUME LIInv, NEW p \in Procs, LifeStep(p)
  PROVE  /\ UNCHANGED program /\ program[p] \notin Samplers
         /\ \A q \in Procs \ {p} : perf'[q] = perf[q]
<1>1. perf \in [Procs -> CountersRecord]
  BY StateOf
<1>2. CASE gr_init(p)
  BY <1>1, <1>2 DEF gr_init, Samplers
<1>3. CASE CreateRegion(p) \/ InitLock(p) \/ gr_stub_init(p) \/ LoadScheduler(p)
           \/ gr_get_sender(p) \/ gr_attach_monitor_buffer(p) \/ AnalyticsFinalize(p)
  <2>1. UNCHANGED <<perf, program>>
    BY <1>3 DEF CreateRegion, InitLock, gr_stub_init, LoadScheduler, gr_get_sender,
                gr_attach_monitor_buffer, AnalyticsFinalize, Changes, Fails
  <2>2. program[p] \notin Samplers
    BY <1>3 DEF CreateRegion, InitLock, gr_stub_init, LoadScheduler, gr_get_sender,
                gr_attach_monitor_buffer, AnalyticsFinalize, At, Samplers
  <2> QED
    BY <2>1, <2>2
<1>4. CASE RunPhase(p)
  BY <1>1, <1>4 DEF RunPhase, At, Samplers
<1>5. CASE SimulationFinalize(p)
  BY <1>1, <1>5 DEF SimulationFinalize, At, Fails, Samplers
<1> QED
  BY <1>2, <1>3, <1>4, <1>5 DEF LifeStep

LEMMA StepLog == LIInv /\ LogIInv /\ [Next]_vars => LogIInv'
<1> SUFFICES ASSUME LIInv, LogIInv, [Next]_vars PROVE LogIInv'
  OBVIOUS
<1>1. ASSUME UNCHANGED <<probe, program>>,
             \A s \in Procs : program[s] \in Samplers => perf'[s] = perf[s]
      PROVE  LogIInv'
  <2> SUFFICES ASSUME NEW s \in Procs, program[s] \in Samplers PROVE LogInv(s)'
    BY <1>1 DEF LogIInv
  <2>1. LogInv(s) /\ perf'[s] = perf[s]
    BY <1>1 DEF LogIInv
  <2> QED
    BY <1>1, <2>1 DEF LogInv
<1>2. ASSUME NEW s \in Procs, program[s] \in Samplers, SamplerStep(s, program[s]),
             UNCHANGED <<program, proc, senders, regions>>
      PROVE  LogIInv'
  <2>1. /\ probe[s] \in ProbeRecord /\ probe \in [Procs -> ProbeRecord]
        /\ perf \in [Procs -> CountersRecord]
        /\ LogInv(s)
    BY <1>2, SamplerState, StateOf DEF LogIInv
  <2>2. ASSUME NEW c, NEW q, perf' = [perf EXCEPT ![s] = c], probe' = [probe EXCEPT ![s] = q],
               q.at # "main", LogOf(q.log, c.refused),
               q.at # "end" => \E m \in Nat : BufferOf(q, c.refused, m),
               q.at = "end" => Len(q.log) = q.taken
        PROVE  LogIInv'
    <3>1. probe'[s] = q /\ perf'[s] = c
      BY <2>1, <2>2
    <3>2. LogInv(s)'
      BY <2>2, <3>1 DEF LogInv
    <3>3. \A u \in Procs \ {s} : perf'[u] = perf[u] /\ probe'[u] = probe[u]
      BY <2>1, <2>2
    <3>4. ASSUME NEW u \in Procs \ {s}
          PROVE  IF program[u] \in Samplers THEN LogInv(u)' ELSE probe'[u] = NewProbe
      <4>1. IF program[u] \in Samplers THEN LogInv(u) ELSE probe[u] = NewProbe
        BY DEF LogIInv
      <4> QED
        BY <3>3, <4>1 DEF LogInv
    <3> QED
      BY <1>2, <3>2, <3>4 DEF LogIInv
  <2>3. CASE StartSampling(s, program[s])
    <3> DEFINE at == IF program[s] = "gr_perf_probe" THEN "end" ELSE "loop"
               q == [NewProbe EXCEPT !.at = at]
    <3>1. \E c : perf' = [perf EXCEPT ![s] = c]
      BY <2>3 DEF StartSampling
    <3>2. probe[s] = NewProbe
      BY <2>1, <2>3 DEF LogInv, StartSampling, SamplerAt
    <3>3. probe' = [probe EXCEPT ![s] = q]
      BY <2>1, <2>3, <3>2 DEF StartSampling
    <3>4. at \in {"end", "loop"} /\ 0 \in Nat
      OBVIOUS
    <3> HIDE DEF at
    <3>5. \A refused : /\ LogOf(q.log, refused) /\ BufferOf(q, refused, 0)
                       /\ Len(q.log) = q.taken /\ q.at = at
      BY EmptyLog
    <3> QED
      BY <2>2, <3>1, <3>3, <3>4, <3>5
  <2>4. CASE Sample(s)
    <3>1. PICK counted \in BOOLEAN, over \in BOOLEAN, c \in CountersRecord :
            /\ perf' = [perf EXCEPT ![s] = c]
            /\ probe' = [probe EXCEPT ![s] = Turned(probe[s], counted, over)]
            /\ ~c.refused => counted /\ ~perf[s].refused
      BY <1>2, <2>4, SampleIs
    <3>2. PICK m \in Nat : BufferOf(probe[s], perf[s].refused, m)
      BY <2>1, <2>4 DEF LogInv, Sample, SamplerAt
    <3>3. c.refused \in BOOLEAN /\ perf[s].refused \in BOOLEAN
      BY <2>1 DEF CountersRecord
    <3> DEFINE z == Turned(probe[s], counted, over)
    <3>4. LogOf(z.log, c.refused) /\ \E k \in Nat : BufferOf(z, c.refused, k)
      <4>1. LogOf(probe[s].log, perf[s].refused)
        BY <2>1 DEF LogInv
      <4>2. ~c.refused => counted /\ ~perf[s].refused
        BY <3>1
      <4> HIDE DEF z
      <4>3. LogOf(Turned(probe[s], counted, over).log, c.refused)
            /\ \E k \in Nat : BufferOf(Turned(probe[s], counted, over), c.refused, k)
        BY <2>1, <3>2, <3>3, <4>1, <4>2, TurnedLog
      <4> QED
        BY <4>3 DEF z
    <3>5. z.at \in {"dump", "loop"}
      BY <2>1, TurnedIs
    <3> QED
      BY <2>2, <3>1, <3>4, <3>5
  <2>5. CASE EndSampling(s)
    <3>1. PICK c : /\ perf' = [perf EXCEPT ![s] = c]
                   /\ probe' = [probe EXCEPT ![s] = Dumped(probe[s])]
                   /\ Agrees(c) /\ (perf[s].refused => c.refused)
      BY <1>2, <2>5, EndSamplingIs
    <3>2. PICK m \in Nat : BufferOf(probe[s], perf[s].refused, m)
      BY <2>1, <2>5 DEF LogInv, EndSampling, SamplerAt
    <3>3. c.refused \in BOOLEAN /\ perf[s].refused \in BOOLEAN
      BY <2>1, <3>1 DEF Agrees, CountersRecord
    <3> DEFINE z == Dumped(probe[s])
    <3>4. LogOf(z.log, c.refused) /\ Len(z.log) = z.taken
      <4>1. LogOf(probe[s].log, perf[s].refused) /\ (~c.refused => ~perf[s].refused)
        BY <2>1, <3>1 DEF LogInv
      <4> QED
        BY <2>1, <3>2, <3>3, <4>1, DumpedLog
    <3>5. z.at = "end"
      BY <2>1, DumpedIs
    <3> QED
      BY <2>2, <3>1, <3>4, <3>5
  <2> QED
    BY <1>2, <2>3, <2>4, <2>5 DEF SamplerStep
<1>3. CASE \E p \in Procs : LifeStep(p) /\ UNCHANGED probe
  BY <1>1, <1>3, LifeIsApart
<1>4. CASE RegisterSender /\ UNCHANGED probe
  BY <1>1, <1>4 DEF RegisterSender
<1>5. CASE UNCHANGED vars
  BY <1>1, <1>5 DEF vars, lifevars
<1> QED
  BY <1>2, <1>3, <1>4, <1>5 DEF Next

-----------------------------------------------------------------------------
(* The two together are invariant.                                         *)
THEOREM InvHolds == Spec => [](LIInv /\ LogIInv)
<1>1. Init => LIInv /\ LogIInv
  BY InitLIInv, InitLog
<1>2. LIInv /\ LogIInv /\ [Next]_vars => (LIInv /\ LogIInv)'
  BY StepLIInv, StepLog
<1> QED
  BY <1>1, <1>2, PTL DEF Spec

(* Every variable keeps its type, whatever is refused.                     *)
THEOREM TypeCorrect == Spec => []TypeOK
<1>1. LIInv => TypeOK
  BY DEF LIInv
<1> QED
  BY <1>1, InvHolds, PTL

(* The flag of gr_perfctr.c and PAPI agree about counting.                 *)
THEOREM CountersAgree == Spec => []CountingMeansRunning
<1>1. LIInv => CountingMeansRunning
  BY StateOf DEF CountingMeansRunning, CountersInv, Agrees
<1> QED
  BY <1>1, InvHolds, PTL

(* Undefined behaviour in a first life has one of the reasons listed.      *)
THEOREM FaultsExplained == Spec => []FaultsAreExplained
<1>1. ASSUME LIInv, NEW p \in Procs, Once(p) PROVE Explained(perf[p])
  BY <1>1, StateOf DEF CountersInv, FirstUse
<1>2. LIInv => FaultsAreExplained
  <2> SUFFICES ASSUME LIInv, NEW p \in Procs, Once(p)
               PROVE  Explained(perf[p]) /\ FaultInv(p)
    BY DEF FaultsAreExplained, Explained, FaultInv
  <2> QED
    BY <1>1, StateOf
<1> QED
  BY <1>2, InvHolds, PTL

(* What a simulation acquired is released when gr_finalize has returned.   *)
THEOREM FinalizeReleases == Spec => []FinalizedHasReleased
<1>1. LIInv => FinalizedHasReleased
  BY StateOf DEF FinalizedHasReleased, ReleasedInv, Sims
<1> QED
  BY <1>1, InvHolds, PTL

(* If the sender is registered when the buffers exist, a scheduler never   *)
(* attaches to a buffer without its lock in the simulation's first life.   *)
THEOREM AttachedIsReady ==
  ASSUME BufferFirst
  PROVE  Spec => []AttachedBufferIsReady
<1>1. LIInv => AttachedBufferIsReady
  BY DEF LIInv
<1> QED
  BY <1>1, InvHolds, PTL

(* The log of a sampling program is its samples, each once and in order.   *)
THEOREM LogsAreInOrder == Spec => []SamplesAreLoggedInOrder
<1>1. LIInv /\ LogIInv => SamplesAreLoggedInOrder
  <2> SUFFICES ASSUME LIInv, LogIInv, NEW s \in Procs
               PROVE  LET log == probe[s].log IN
                      /\ LogOf(log, perf[s].refused)
                      /\ Len(log) = probe[s].taken
                                      - (IF probe[s].at = "end" THEN 0 ELSE probe[s].perf_idx)
    BY DEF SamplesAreLoggedInOrder, LogOf
  <2>1. CASE program[s] \in Samplers
    <3>1. LogInv(s) /\ probe[s] \in ProbeRecord
      BY <2>1, SamplerState DEF LogIInv
    <3>2. /\ probe[s].taken \in Nat /\ probe[s].perf_idx \in Nat
          /\ \A m \in Nat : PERF_BUFFER_SIZE * m \in Nat
      BY <3>1, ProbeAssumption DEF ProbeRecord, Entries
    <3>3. CASE probe[s].at = "end"
      BY <3>1, <3>2, <3>3 DEF LogInv
    <3>4. CASE probe[s].at # "end"
      BY <3>1, <3>2, <3>4 DEF LogInv, BufferOf
    <3> QED
      BY <3>3, <3>4
  <2>2. CASE program[s] \notin Samplers
    <3>1. probe[s] = NewProbe
      BY <2>2 DEF LogIInv
    <3>2. /\ [NewProbe EXCEPT !.at = "main"] = NewProbe
          /\ NewProbe.perf_idx = 0 /\ NewProbe.at = "main" /\ NewProbe.taken = 0
      BY DEF NewProbe
    <3>3. LogOf(NewProbe.log, perf[s].refused) /\ Len(NewProbe.log) = NewProbe.taken
      BY <3>2, EmptyLog
    <3>4. Len(NewProbe.log) = 0 - 0
      BY <3>2, <3>3
    <3> QED
      BY <3>1, <3>2, <3>3, <3>4
  <2> QED
    BY <2>1, <2>2
<1> QED
  BY <1>1, InvHolds, PTL
=============================================================================
