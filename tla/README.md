# GoldRush: a verification development

GoldRush runs analytics on the idle cores of a simulation. The simulation (an
MPI/OpenMP program) marks its sequential phases with `gr_phase_start` and
`gr_phase_end`; the runtime predicts how long the coming phase will be, hands
the worker cores to analytics processes when it is long enough, and watches
through hardware counters whether the analytics get in the way.

This directory holds TLA+ modules translated from the C source, the
configurations that check them with TLC, and proofs for TLAPS. The source is
the reference throughout; where a comment of the source promises something
else, a run shows the difference.

    tlc -config MCPhaseTable.cfg MCPhaseTable      # check one model
    tlapm PhaseTableProofs.tla                     # check one module's proofs

`PROJECT.json` lists the components, the runs, the lines of code each
definition stands for, the hazards, the findings and the theorems.

## 1. The system

### Components

| Component | Source | State | Operations |
|---|---|---|---|
| Phase table | `gr_phase.c`, `goldrush.c` | `gr_phases`, `gr_phases_perf`, their two sizes, the guesses `current_phase`, `previous_phase`, `new_phase`, the open call site, `is_in_mainloop` | `gr_phase_start` (`gr_find_phase`), `gr_phase_end` (`gr_get_phase`, `gr_update_phase`), `gr_mainloop_start`, `gr_mainloop_end` |
| Phase tracking by a team | the same, `gr_is_main_thread` | the same variables, shared by all OpenMP threads without a lock; `is_resumed`, `current_phase_id` | as above, by every thread |
| Table of source files | `gr_phase.c` | `gr_files` | `gr_open_file`, `gr_record_fd`, `gr_destroy_opened_files` |
| Monitoring stub | `gr_stub.c` | two buffers for readings, two pointers, `disable_handler`, the timer, the disposition of SIGALRM | `gr_stub_phase_start`, `gr_stub_phase_end`, `gr_timer_handler`, `gr_stub_finalize` |
| Monitor buffer | `gr_monitor_buffer.c` | one record in shared memory, a process-shared read-write lock | publish (stub), copy (scheduler), create, attach |
| Analytics scheduler | `gr_sched.c` | the registered scheduler, its timer, the window of own counters and of the buffer | `gr_load_scheduler`, `gr_timer_sched_handler`, `gr_finalize_scheduler` |
| Receiver registry | `goldrush.c`, `gr_internal.c` | arrays of receivers and data groups in shared memory | `gr_register_receiver`, `gr_get_receivers`, `gr_get_receiver_by_data_group` |
| Suspend and resume | `goldrush.c` | which analytics processes are stopped | `gr_suspend_receiver`, `gr_resume_receiver` |
| Hardware counters | `gr_perfctr.c` | the PAPI event set, `gr_num_events` and two arrays for the events, `is_counting`; sums and extremes of each phase | init, start, stop, finalize, read, print; update |
| Life cycle | `goldrush.c`, and the loading and attaching parts of `gr_sched.c` and `gr_monitor_buffer.c` | the tables, the handler of SIGALRM, the log or trace file, the mapped region | `gr_init`, `gr_finalize`, `gr_stub_init`, creating and attaching the buffer, `gr_load_scheduler` |
| Sampling programs | `gr_dummy_analytics.c`, `gr_perf_probe.c` | `perf_buffer`, `perf_idx`, the file they write | start, one turn of the loop, dump at the end |
| Fortran interface, `test.c`, build | `goldrush_f.c`, `test.c`, `Makefile`, `rdtsc.h` | none of the runtime's | wrappers and users |

The two sampling programs have one text, but `gr_perf_probe.c` returns at its
line 94, before the loop. `test.c` initialises PAPI and nothing else.

### How they interact

    simulation process                             analytics process
    main thread ─ gr_phase_start/end ─ phase table      gr_register_receiver ─┐
      │  workers ─ gr_phase_start ────────┘             scheduler (SIGALRM)   │
      │                                                     │ copies          │
      ├─ stub (SIGALRM) ── publishes ──► monitor buffer ◄───┘                 │
      └─ gr_get_receivers / suspend ◄─────────────────── receiver registry ◄──┘
             │ SIGSTOP, SIGCONT                                 (shared memory)
             └──────────────────────► analytics processes

Around this every process runs from `gr_init` to `gr_finalize`, with counters of
its own. The program around the library, not the library, creates the region of
the monitor buffer, installs the stub, and registers the sender by which a
scheduler finds the buffer.

The calls within a process are ordinary function calls. Concurrency comes from
four sides: the threads of the OpenMP team call `gr_phase_start` together; the
two timer handlers interrupt their process anywhere; the processes of a node
share two regions of memory; and an analytics process may be stopped or end
between any two of its steps.

### What is hard about it, and what would make it correct

- **Phase table.** Only `gr_phase_end` knows which phase it was. In between,
  `gr_find_phase` leaves a guess and a flag that `gr_get_phase` trusts without
  a check. Correct: the table is a map from pairs of call sites to summaries, a
  run is counted in the right entry, no index leaves either array.
- **Team of threads.** All of this is written by all threads at once. Correct:
  the races leave nothing behind when the phase ends.
- **Stub.** One-shot timer, re-armed by its own handler, against phase start
  and end and against workers that are still guessing. Correct: an open phase is
  monitored until it ends and no longer, and a published record is the counts of
  one interval with a guess at its phase, also after a failed attempt.
- **Buffer and lock.** Two handlers that may not wait. Correct: copies are
  whole, and nobody is held up by a process that was stopped with the lock.
- **Scheduler.** Correct: it goes on ticking, its window is one interval, its
  end leaves no lock and no timer.
- **Files, receivers.** Tables in which several threads or processes insert
  without a lock. Correct: what is visible is complete and stays so.
- **Suspend, resume.** Every simulation process signals a share of a receiver.
  Correct: the shares add up and do not disturb each other.
- **Counters.** PAPI may refuse any call, memory may be missing, no caller looks
  at a result. Correct: the flag agrees with PAPI, and the arrays are only left
  in the ways one can name.
- **Life cycle.** `gr_finalize` gives back what other functions acquired, in an
  order of its own, and a scheduler waits for what somebody else creates in two
  steps. Correct: what was acquired is released, undefined behaviour is reached
  only for stated reasons, an attached buffer has its lock, loading returns.
- **Sampling programs.** A buffer that is used again and again. Correct: every
  sample is written once, in order, with its own time.

The hazards are listed one by one, with their lines, in `PROJECT.json`.

## 2. The modules

| Module | What it is | EXTENDS / INSTANCE |
|---|---|---|
| `PhaseRecords` | records and pure functions of the phase table, constants and their assumptions | |
| `PhaseTable` | the phase table under one thread: one action per call | `PhaseRecords`, `PhaseHistory` (refinement) |
| `PhaseHistory` | abstract: the map from pairs of call sites to summaries | |
| `PhaseTableProofs` | the theorems | `PhaseTable`, `TLAPS` |
| `PhaseThreads` | `gr_phase_start` of every thread, access by access | `PhaseRecords`, `PhaseTable`, `PhaseHistory` (refinement) |
| `FileTable` | `gr_open_file` of every thread, access by access | |
| `MonitorBuffer` | the record and its lock, external `pthread_rwlock` | |
| `Stub` | the simulation side, handler step by step | `MonitorBuffer` |
| `Scheduler` | the analytics side, handler step by step, stop and continue | `MonitorBuffer` |
| `Monitor` | the composition of the two, fairness, what they agree on | `Stub`, `Scheduler`, `MonitorFeed` (refinement) |
| `MonitorFeed` | abstract: intervals are measured, published or lost, and received | |
| `Receivers` | registry, lookups, suspend and resume | |
| `Counters` | the hardware counters of a process, with refusals | |
| `Probe` | the sampling programs | `Counters` |
| `LifeCycle` | `gr_init` to `gr_finalize` on both sides, attaching, loading | `Counters` |
| `Programs` | the composition: all processes of a node, fairness | `LifeCycle`, `Probe` |
| `PhaseRefinementProofs` | that the phase table implements the map | `PhaseTableProofs` |
| `PhaseThreadsProofs` | the races in `gr_phase_start`, and that the team implements the map | `PhaseThreads`, `TLAPS` |
| `FileRoomProofs` | what the races on the file table can waste | `FileTableProofs` |
| `FileTableProofs`, `MonitorProofs`, `ReceiversProofs`, `ProgramsProofs` | theorems about the modules of these names | the module, `TLAPS` |
| `MC*` | constants for TLC | |

### How state and actions correspond to the code

*Names.* Variables and operators have the names of the source wherever there is
one. An action is named after the function it models, or after the step of it.

*Granularity.* `PhaseTable` takes a call as one step, because one thread makes
them, and so do `LifeCycle` and `Probe`, except where another process can see
what a call has done so far (creating a region, the loops of
`gr_load_scheduler`). `PhaseThreads`, `FileTable`, `Stub`, `Scheduler` and
`Receivers` take an access to shared memory as one step, with a program counter
(`pc`, `call[t].at`, `handler`, `proc[a].handler`, `reg[q].at`) and the local
variables that survive it. Accesses take effect in program order, and a store of
one word is whole.

*Data.* A call site, the pair (file, line), is only ever compared, and is one
model value; a start site and an end site are never compared with each other.
The hardware events of a reading are one number. A file name, a data group, a
process id is a model value. `ScanRank` says in which order `gr_get_phase`
visits the table, instead of its two loops.

*Calls that may fail.* A call of `Counters` is an operator from the state to the
set of states in which it may leave it: PAPI refuses, memory is missing, or it
succeeds. An action chooses from the set, and `UNION` composes calls that a
function makes one after the other.

*`status`, `fault`.* The code goes on after some errors into undefined behaviour (a
division by a wrapped counter, NULL, a write behind an array). `PhaseTable` and
`FileTable` then reach "fault" and stop, a process of `LifeCycle` or `Probe` has a
`fault` that names the first such access and stops: nothing is claimed from there
on, and it is a matter of the properties which ways lead there.

*Auxiliary variables* (`base`, `tick`, `shown` in `Stub`; `since`, `elapsed`,
`ticks` in `Scheduler`; `told`, `subscribed`, `sure`, `outcome`; `named`,
`no_memory`, `refused`, `fault` in `Counters`; `inits`, `ends`, `lives` and
`fault` in `LifeCycle`; `taken` in `Probe`) record what happened, and say what
the code's own variables should be. No guard of the code depends on them;
`fault` stops a process, `lives` and `MaxSamples` bound what it does.

*Mutations.* Next to some definitions stands a changed form of it, marked
"Mutation": a plausible error, which makes one of the properties fail. They are
used by no specification, and are the evidence that the property bites.

### The abstract specifications

`PhaseHistory` has no table, index, guess, cache or sentinel: a set of
summaries, one for each pair of call sites that has completed, with number,
longest and shortest length and the events counted in the main loop.
`PhaseTable!ImplementsHistory` instantiates it with the rows of the table:

    history <- Rows     open <- OpenSite     counting <- is_in_mainloop
    alive <- status = "ok"     MaxCount <- CountMod - 1     Room <- DefaultNumPhases

Two things in the mapping are worth a look. The sentinel -1 of the counters is
mapped away, so that the refinement says that it is never taken for a
measurement; the sentinel 0 of `min_length` is not, because it can be: a phase
may take 0 ticks, and the abstract specification has to say so. And `Stop`
requires exhaustion: the table dies only when a count is at its maximum or the
initial slots are used up, never before.

`PhaseThreads!ImplementsHistory` instantiates the same map with the table a team
writes, and `open` with the call site that the main thread has marked. It says
what the races are not allowed to change: a thread that searches, claims the
free slot or stores its call site takes a step that the map does not see.

`MonitorFeed` is what the monitoring path promises to the analytics: the work of
the simulation is cut into intervals, each within one phase and each starting
where the one before ended, or the phase began; an interval is published once or
lost; and who receives a record receives the one published last, as a whole. An
interval is published with the guess of its phase that stands at that moment: every
thread of the team stores its own in `current_phase_id` (gr_phase.c:167), the
late ones while the phase is open, so that the feed lets the guess change at any
time, between two records of one phase too. `Monitor!ImplementsFeed` instantiates
it with

    phase <- current_phase_id     monitored <- main = "open"
    from <- IntervalStart         measured <- Measured
    published <- Published        received <- Received

`IntervalStart` follows the start of the interval in progress through the three
buffers that the stub exchanges. A record is published where the writer stores its
`phase_id`, because there the guess is read, and received where the reader copies
the last field; the lock is what makes these points the right ones. The mapping
uses no auxiliary variable: the code's own bookkeeping has to be enough. The feed
may lose any interval, because the stub gives up after `num_lock_tries`, and it
says nothing of when an interval is measured.

What a guess is worth is not the monitoring path's to say: `Stub!Guess` stores any
phase. That in an open phase each of them is a slot with the start site of this
phase is the second part of `PhaseThreads!EndSeesItsOwnStart`.

## 3. The runs

| Run | Constants | Distinct states | Checks |
|---|---|---|---|
| `phase_table` | 2 start and 2 end sites, 2 measurements (0 ticks with many events, 2 ticks with none), counts modulo 3, 2 slots; sites symmetric | 412 000 | `TypeOK`, `NoDuplicatePhase`, `OpenPhaseIsLocated`, `PhasesAreStable`, `RunsAreAttributed`, `ImplementsHistory` |
| `phase_threads` | main thread and 2 workers (symmetric), 3 phases, every plan over 2 start and 2 end sites, fork-join | 315 000 | `TypeOK`, `TableIsHistoryOfPlan`, `EndSeesItsOwnStart`, `ResumedInLongPhase`, `ImplementsHistory` |
| `monitor` | 1 simulation and 1 analytics process, phases 0 and 1, counters to 1, 2 attempts at the lock to write and 1 to read, every scheduler name, intervals 0, 100 and 2000 ms, 1000 µs for the stub, workers that change the guess, handler on the main thread, fairness | 686 000 | `StubTypeOK`, `PublishedIsOneInterval`, `OpenPhaseIsMonitored`, `EndedPhaseHasNoTimer`, `SurvivesFinalize`, `SelfWindowIsOneInterval`, `SchedTypeOK`, `DeadReaderHoldsNoLock`, `SchedulerTicks`, `ImplementsFeed`, `SimulationIsNotHeldUp`, `SchedulerIsNotHeldUp` |
| `file_table` | 2 threads (symmetric), 2 files and one that cannot be opened, 6 slots | 97 000 | `TypeOK`, `ToldIsDescriptorOfFile`, `OpenedOncePerThread`, `TableHasRoom`, `SettledFilesAreStable` |
| `receivers` | programs of 3 and 1 processes, 2 simulation processes, 2 data groups, 1 process may exit, programs register in turn | 1 600 000 | `TypeOK`, `VisibleReceiverIsComplete`, `LookupIsRight`, `ShareIsSettled`, `SuspendedWhenAllReturned` |
| `programs` | 4 processes of ranks 0, 0, 1, 2; one program alone, one or two simulation processes with an analytics process, a sampler alone; 0, 1 or 2 events with room for 1; 2 entries, 5 samples; 2 lives; fairness | 46 000 | `TypeOK`, `FaultsAreExplained`, `FinalizedHasReleased`, `AttachedBufferIsReady`, `CountingMeansRunning`, `SamplesAreLoggedInOrder`, `LoadReturns` |

Six more runs show that the code does not do what a comment in it says:

| Run | Property | What the run shows |
|---|---|---|
| `guess_is_most_frequent` | `GuessIsMostFrequent` | "pick the most frequent one" (gr_phase.c:128): `current_score` is never raised, the last candidate stays |
| `average_within_extremes` | `AverageIsWithinExtremes` | `avg_length` (gr_phase.c:282) grows by length/count with every run, past the longest one |
| `allocated_has_statistics` | `AllocatedPhaseHasStatistics` | `gr_get_phase` grows one of its two arrays (gr_phase.c:243) and writes behind the other |
| `finalized_is_not_killed` | `FinalizedIsNotKilled` | "diable timer" (gr_sched.c:362): the timer runs on, and the restored default of SIGALRM ends the process |
| `file_has_one_identifier` | `FileHasOneIdentifier` | the first call of `gr_open_file` for a file falls off the end of the function |
| `second_registration` | `VisibleReceiverIsComplete` | a program that registers for two data groups publishes a receiver that lacks a pid |

### What the bounds are, and why they are enough

- *Phase table.* With 2 slots and 4 pairs of sites the table fills, grows on
  either path, and a reallocation fails in either array; with counts modulo 3 a
  count wraps in three runs; with two entries the scan from `previous_phase` has
  to wrap around to find the other one. The code's 256 and 2^32 add nothing but
  depth, and the theorems hold for every value.
- *Threads.* Two workers are the least for which a worker races with another
  that is not the main thread; three phases are the least in which a pair of
  sites is new, known, and known next to another with the same start.
  `FitsTable` keeps the table from growing, by programs that have fewer pairs of
  call sites than there are slots at first (256): two threads that grow it at the
  same time free each other's memory, which is outside this model and stated as a
  hazard. In the run it excludes nothing. `PhaseThreadsProofs` has any number of
  threads, and as many phases as a count can hold.
- *Monitor.* `MaxCounter` and `MaxOwnCounter` stop the counters, not the
  behaviour: at the bound the counters stand still and the handlers run on. With
  counters up to 1 an interval is 0 or 1, and one of each can follow the other.
  With two attempts at the lock the handler of the simulation succeeds after a
  failure as well as gives up. One analytics process is enough for what is
  checked of the buffer: readers meet each other only in the lock's set of
  readers, and the writer only sees whether it is empty. An interval appears only
  in the test for what `setitimer` does with it (`SetTimer` of `MonitorBuffer`):
  start the timer, stop it (0), or refuse (a second or more). 0, 100 and 2000 ms
  are one of each. The stub's is fixed for the run at one that starts the timer,
  since with the others the stub never ticks; the theorems have every value.
- *Files.* Two threads and two files have every overlap of a lookup with an
  insertion and a lost update of `size`. Six slots are one per thread and file,
  the premise of `TableHasRoom`, with nothing to spare. Three threads exceed what
  can be checked in minutes; the theorems have any number of them.
- *Receivers.* Three and one processes on two simulation processes make shares
  of two and one, and of one and none; `MaxGone` lets one process exit at any
  time, before or during a call.
- *Programs.* Processes share nothing but the sender and the regions, so that one
  process alone is enough for what it acquires and releases, and the casts with
  several are there for attaching. Rank 2 beside two simulation processes is
  served by the second of them, rank 1 beside one by none. Two events with
  room for one is the least that overruns; a second life is the least that meets
  what the first one left. Five samples turn a buffer of two entries twice and
  leave one entry for the end.

`CHECK_DEADLOCK FALSE` stands where a program really ends: the processes of
`Monitor` finalize, fault or are killed, the file table is freed, receivers
stop registering when they have done so `Registrations` times, and the processes
of `Programs` finalize, exit or fault.

### Fairness

`Monitor!FairSpec` assumes that a handler that has been entered goes on as long
as its process may run: weak fairness of `HandlerStep`, and of
`SchedHandlerStep(a)` for each analytics process. The operating system schedules
runnable threads; nothing in a handler waits. Nothing more is assumed: the
simulation need not start another phase, a timer need not expire, a stopped
analytics process need never be continued, and indeed may hold the read lock for
ever. Under this the handler of the simulation comes to its end
(`SimulationIsNotHeldUp`), because it counts its attempts; and one of an
analytics process does unless it is stopped or faults.

`Programs!FairSpec` assumes that the two loops of `gr_load_scheduler` look again
(weak fairness of `gr_get_sender` or `gr_attach_monitor_buffer`, of each process):
they sleep a second and test. It does not assume that the simulation creates a
buffer or that anybody registers the sender; `LoadReturns` starts from a
registered sender, and allows for a buffer that is gone.

### Assumptions of the models

- The program brackets its phases: `gr_phase_end` comes before `gr_finalize`,
  and no phase begins after it. In `Stub` and `Receivers`, `gr_stub_init`,
  `gr_create_monitor_buffer` and `gr_init_shm_meta_region`, which `gr_init` does not
  call, have been called. In `LifeCycle` the first two may be missing, and
  `gr_finalize` may be followed by another `gr_init`.
- *`BufferFirst`.* The sender is registered when all buffers exist. Nothing in the
  library registers it; with FALSE a scheduler can attach to a region that has
  no lock yet, and `AttachedBufferIsReady` fails.
- *Shared regions (external).* Another process can attach to a region as soon as it
  is created. When its creator destroys it, it may be removed or stay under its
  name; a process that attached only detaches. `MPI_Barrier` in `gr_finalize` is
  left out: the processes end in any order.
- *Lives.* `lives` bounds the calls of `gr_init` and `gr_finalize` of a process.
  What a second life finds is modelled as to what is acquired and freed only.
- *`HandlerOnMain`.* SIGALRM of `ITIMER_REAL` is sent to the process. Linux
  offers such a signal to the main thread first if that does not block it;
  `monitor` assumes that the main thread takes it. This is an assumption about
  timing, too: without SA_NODEFER (gr_stub.c:88) SIGALRM is blocked in the main
  thread while it runs the handler, and when the next interval is over before the
  handler, which has armed the timer again (gr_stub.c:64), has returned, the signal
  may go to another thread. With FALSE another thread takes it, the handler and
  the main thread run side by side, and the handler arms the timer again after
  `gr_stub_phase_end` has disarmed it, or goes on with the buffers that
  `gr_stub_phase_start` resets: `EndedPhaseHasNoTimer`, `SurvivesFinalize` and
  `PublishedIsOneInterval` fail. So these three say that the code is right when the
  overlap does not happen, not that it is ready for it. The theorems on the lock,
  the copies' exclusion of the writer, the scheduler's window and its timer do not
  assume it.
- *`ForkJoin`.* Every thread returns from `gr_phase_start` before the main thread
  ends the phase, as in a parallel region per phase. With FALSE a worker that is
  a phase behind sets `new_phase` or the call site after the main thread has set
  its own, and `EndSeesItsOwnStart` fails; the code has no defence against it.
  `Stub` has the same assumption in the guard of `Guess`: a worker stores its guess
  after the main thread has or before it, up to the open phase, but not between
  `gr_phase_end` and the end of `gr_stub_phase_end`.
- *Intervals.* `OpenPhaseIsMonitored` is stated of a stub whose interval is more
  than 0 and less than a second, `SchedulerTicks` of a scheduler with 1 to 999 ms.
  Outside of that `setitimer` stops or refuses the timer and nobody looks at its
  result. A scheduler's interval times 1000 is an `int` (gr_sched.c:349):
  `IntervalAssumption` keeps the product within it.
- *`DEBUG_TIMING`* is defined by every configuration of the Makefile but one, with
  the value 0 too, and the code only asks whether it is defined: `programs` has it.
- *`OneAtATime`.* Programs register in turn. With FALSE two of them take the same
  slot and `VisibleReceiverIsComplete` fails, which the code concedes: "TODO:
  lock the shm region" (goldrush.c:641).
- `gr_local_size` is the number of simulation processes on the node.
  `gr_get_num_procs_per_node` divides, and is right when the nodes are alike.
- Hardware counters only grow, and in `PhaseTable`, `Stub` and `Scheduler`
  reading them succeeds; in `Counters` every call may be refused.

## 4. The proofs

`PROJECT.json` lists the theorems. All are checked to the last step, from the
assumptions on the constants and those named below, and hold for every value of
the constants. The modules of proofs share a layout: an inductive invariant, one
lemma for each action that it survives, one lemma that combines them for `Next`,
and the theorems.

### The phase table (`PhaseTableProofs`)

For every set of call sites, every set of measurements, every counter width above
1 and every initial table size above 0:

| Theorem | States |
|---|---|
| `IInvHolds` | `Spec => []IInv` |
| `TypeCorrect` | `Spec => []TypeOK` |
| `NoDuplicates` | `Spec => []NoDuplicatePhase` |
| `GuessIsSound` | `Spec => []OpenPhaseIsLocated` |
| `ScanIsInTable` | `Spec => []ScanStartsInTable` |
| `AttributionIsRight` | `Spec => RunsAreAttributed` |
| `TableIsStable` | `Spec => PhasesAreStable` |

**The inductive invariant.** `IInv` is the conjunction of the three checked
invariants, `ScanStartsInTable` (the wrap-around scan of `gr_get_phase` starts at a
registered phase, not at the -1 of `previous_phase`), and two more, each of which
closes a step that the others leave open:

- `CountsArePositive`: a registered phase has run. `gr_find_phase` only takes
  candidates with a positive count for its guess; if it could pass over all of
  them, `current_phase` would still name a phase of another start site while
  `new_phase` is false, and `OpenPhaseIsLocated` would not survive the call.
- `FreeSlotWithoutStatistics`: when `gr_phases_perf` is lost, `gr_phases` has
  just grown. Otherwise the next `gr_phase_start` could find the table full, or
  write outside an array of unknown size.

**The argument.** `InitIInv` and one lemma for each call: `StartPreserves` (four
cases, after the four ways through `gr_find_phase`; it writes at most the free
slot) and `EndPreserves` (five cases). The three of them that update an entry
share one step, stated of any entry `i` and any arrays, from `UpdateEffect`: one
count changes, no site does, and the call either closes the phase or divides by
zero. A new entry is not a duplicate for one of two reasons: its start site is in
no entry (`OpenPhaseIsLocated`), or no entry matched (the guard of `EndSplit`).
`NextPreserves` combines them.

`RunsAreAttributed` follows by `EndAttributes`, again by the ways an entry is
found: `UpdateCounts` (a counter that has not wrapped is one more, `NextCount`)
and `FreshCounts` (a new entry counts 1). `PhasesAreStable` follows by
`StartChangesNothing` and `EndChangesOne`: each call changes the count of at most
one registered entry.

### The refinement (`PhaseRefinementProofs`)

`TableIsHistory` is `Spec => ImplementsHistory`: the table implements the map.
`RInv` adds three facts to `IInv`: the table is never smaller than at first
(`NeverShrinks`, for the exhaustion that `Stop` requires), an open phase has a
call site, and -1 stands in a counter exactly as long as nothing was counted
(`CountersAreSound`), so that mapping -1 away loses no measurement. `EndShapes`
shows that a call of `gr_phase_end` does one of four things: it adds a row,
counts in one, finds its count at the limit, or fails with all slots used. Each
is a step of `PhaseHistory` (`AddedRow`, `CountedRow`, `StopsWell`).
`NoDuplicatePhase` makes the rows a map (`RowsDiffer`) and their number that of
the slots (`RowsCount`).

### A team of threads (`PhaseThreadsProofs`)

For any number of worker threads, any plan of phases, any measurements and any
threshold, with `ForkJoin`. The assumptions: a count never wraps (`Rounds <
CountMod`), the threshold is not negative, and the plan fits the table
(`FitsTable`, in `Init`).

| Theorem | States |
|---|---|
| `IInvHolds` | `Spec => []IInv` |
| `TypeCorrect` | `Spec => []TypeOK` |
| `TableIsHistory` | `Spec => []TableIsHistoryOfPlan` |
| `EndSeesItsStart` | `Spec => []EndSeesItsOwnStart` |
| `ResumesInLongPhase` | `Spec => []ResumedInLongPhase` |
| `TeamIsHistory` | `Spec => ImplementsHistory` |

**The inductive invariant.** None of the four checked properties is inductive: at
most accesses the shared variables hold what some other thread is in the middle
of writing. `IInv`, which was model-checked before it was proved, has

- `Arrays`, `Scalars`, `Locals`: types, a free slot, and no statistics yet in any
  free slot, so that a thread that looks up the length of a phase which does not
  exist reads 0;
- `HistoryInv`: the entries are the pairs of the plan that the main thread has
  completed, each once, counted by the rounds that ran it (`Finished`);
- `ThreadInv`: a thread is in the main thread's phase, or it is a worker that has
  returned from the one before and has not left it; and, by its place in
  `gr_find_phase`, which of the shared variables are already right. `Sited` is the
  point: from the first store on, `current_phase` may be any of several slots, and
  change under a thread that reads it, but all of them have the start site of this
  phase, for everybody looks for the same one. So has `current_phase_id`, which the
  monitor publishes, from the main thread's store to the end of the phase;
- `FlagInv`: if an entry with this start site is registered and `new_phase` is set,
  then some thread is still to pass that entry, and will clear the flag
  (`Pending`). Every thread sets the flag before it scans, so the last one to
  clear it does so when nobody is left to set it; without this the main thread
  could register the pair once more.

**The argument.** The accesses of `gr_find_phase` register nothing. `SearchKeeps`
says what such a step has to respect, and one lemma for each access shows that it
does. `EndStores` reduces `gr_phase_end`, whatever way `gr_get_phase` takes, to one
entry that is stored (`Stores`); `EndKeepsHistory` counts the round in, and
`MeanGrows` shows that the average `gr_update_phase` computes never falls, so that
a worker that was promised a long phase still has one. `EntriesFit` maps the
entries into the pairs of the plan, one to one: there is a free slot.

**The refinement.** `MarkInv` adds that a phase is open exactly while the main
thread is between its mark and its end. `HiddenStep` shows that no step of a
thread but `Mark` and `End` changes a row or the site of an open phase
(a worker may store its call site after the mark, but it is the same one),
`MarkRefines` and `EndRefines` that these two are `Start` and `Complete` of the
map. `Stop` is never taken: with `FitsTable` the table is not exhausted.

### The monitoring path (`MonitorProofs`)

For any number of analytics processes, any phases, bounds and attempts, and any
intervals. The guess changes at any time; no part of the invariant is about what it
is.

- `LockInv` says where the handlers are when they hold the lock; from it follow
  `LockExcludes` and `DeadHoldNoLock`. `CopyInv` carries a reader's half-made copy
  through its steps, and holds because the writer writes only under the lock.
- `WindowInv` and `TickInv` say of each analytics process what its window and its
  timer are between the steps: `WindowsAreIntervals` and `SchedulersTick`.
  `MillisecondsArm` is the arithmetic: 1 to 999 ms are more than 0 and less than a
  million microseconds.
- With `HandlerOnMain`: `IntervalInv` says which of the two pointers holds the start
  of the running interval at every place of the handler (`old_pctr` until it
  reads, `current_pctr` from then to the swap, which also follows a failed attempt),
  that the record holds the counts of the interval when the lock is given back,
  and `TimerInv` where the timer runs. From `MainInvHolds` follow
  `PublishedIntervals`, `SnapshotsAreWhole`, `MonitoredWhileOpen`,
  `NoTimerAfterwards` and `SimulationSurvives`.
- `MonitorIsFeed` is `Spec => ImplementsFeed`, with `HandlerOnMain`. `StubRefines`
  goes through the steps of the simulation: the reading of the counters is
  `Measure`, storing the `phase_id` under the lock is `Publish`, giving up is `Lose`,
  a worker's guess is `Guess`, and everything between them is hidden: the lock
  itself, the store of the counts, and the exchange of the pointers because of
  `IntervalInv`.
  `SchedRefines` does the same for a scheduler: the copy of the last field is
  `Receive`, of the published record because of `CopyInv` and because nobody
  writes while somebody reads; starting over is `Forget`.

### Files (`FileTableProofs`, `FileRoomProofs`)

For any number of threads, files and slots, with `ForkJoin`. Slots may be written
by several threads, counted twice, and uncounted again, so that neither `size` nor
a slot behaves. What does is the *first* counted slot of a file. Calls that
overlap are for one file; every thread that has opened it writes at or behind the
first slot of that file, and strictly behind the first slots of all others
(`Behind`), because all others were counted before the overlap began. Hence
`ToldIsRight` and `SettledStays`.

How much the races waste takes an invariant of its own, `RoomInv`, over finite sets
of threads and files (`FinitenessAssumption`). `OwnThread`: the openings of a file
can be given to different threads. That survives another opening because of
`StillInCall`: as long as no slot of the file is counted, every thread that has
opened it is still in that call, and once one is counted, nobody opens it again.
`OpeningsAreBounded` counts the threads. `SlotsAreOver` weighs the size, and every
slot a thread is about to fill, against the calls that are over: each adds one to
a size it has read, later or earlier than others did. With `OpeningsInAll`, which
maps the openings into threads and files, `RoomIsEnough` follows: a table with a
slot for each thread and file is never left.

### Receivers (`ReceiversProofs`)

For any programs of any number of processes and any number of simulation
processes, with `Registrations = 1` and `OneAtATime`. A registration has stages:
its processes gather before the barrier, rank 0 publishes the receiver, then the
group (`StageInv`). `num_receivers` is the number of programs past the first
publication and `num_files` of those past the second (`ReceiverInv`,
`GroupInv`), so that the slot a process computes from its own reading is the
right one. What a lookup has seen only grows (`LookupInv`):
`ReceiversAreComplete`, `LookupsAreRight`. The shares are residue classes:
`Remainders`, proved from the definition of `%`, makes them disjoint and
stepping by `gr_local_size` complete. Hence `SharesAreSettled` and
`SharesAddUp`.

### Programs (`ProgramsProofs`)

For any cast, any number of lives, of events and of samples.

- *Counters.* `Agrees` is `CountingMeansRunning` with what is in the event set;
  every call keeps it, whatever is refused (`CountersAgree`). `FirstUse` says how
  the arrays of a process in its first life relate to what was named, and gives
  `FaultsExplained` together with `FaultInv`.
- *Life cycle.* `ReleasedInv` gives `FinalizeReleases`. `SenderInv` says that once
  the sender is registered a buffer is complete, or gone with its simulation, in
  the first life; with `BufferFirst` it gives `AttachedIsReady`.
- *Samples.* After m turns of the buffer the log is m times as long as the buffer;
  the entries before `perf_idx` hold the samples of this turn, the others those of
  the last one, and the count of an entry is the number of turns it has seen.
  `Quotient` turns a position in the log into a turn. `LogsAreInOrder` follows.

## 5. Checked only

Every invariant and every safety property of a step that the passing runs check
has a theorem. Liveness is out of the prover's reach and stays with TLC:
`SimulationIsNotHeldUp`, `SchedulerIsNotHeldUp`, `LoadReturns`. So do the six
findings, which are counterexamples, and what fails without `ForkJoin`,
`OneAtATime`, `HandlerOnMain` and `BufferFirst`.

## 6. Not modelled

- What happens after undefined behaviour. `gr_open_file` may read behind `gr_files`
  when `size` was counted too far; `FileTable` ends there.
- `avg_length * count` as a 64-bit number; lines of 32 bits; torn stores and
  reordering by the compiler or the processor.
- Growth of the phase table by several threads at once; file names of more than
  63 characters; a sixth receiver; a `gr_local_size` that is not the number of
  local processes: each is a hazard with a note.
- The ring of windows in the scheduler: of it only the element written last is
  kept. The default `GR_SCHEDULING_WINDOW_SIZE` is 1, with which the index turns
  to 0 after every window and `perf_window_idx - 1`, which the trace
  (gr_sched.c:180) and the contention scheduler read, is always -1. The trace
  goes to a file and nowhere else. The contention scheduler reads its thresholds
  through a NULL pointer (gr_sched.c:158 passes NULL) and faults at its first
  decision. The first own window holds everything since the counters started.
- A doubly counted slot of `gr_files` holds 0, and closing it closes the standard
  input; nothing in the library reads that.
- A `kill` of pid 0 (the caller's own group), which an incomplete receiver leads
  to; `gr_do_suspend` off, when both calls do nothing.
- `gr_suspend_receiver` says "All processes of the receiver is suspended upon
  return of this function" (goldrush.c:548). That is so of the caller's share;
  `ShareIsSettled` and `SuspendedWhenAllReturned` say what does hold.
- The phase table in a second life: `gr_init` allocates a new one and sets the number
  of entries to 0 (gr_phase.c:98), but leaves the guesses and the open site as they
  were, and before that initialises the counters of as many entries as the table
  of the first life had slots (gr_phase.c:91; none in a first life). `LifeCycle`
  has which memory is there, not what a phase start reads of it.
- A process that is killed by another one, with the read lock in its hands or
  elsewhere. `DeadReaderHoldsNoLock` covers the ends that a scheduler brings upon
  itself.
- The Fortran wrappers, which dereference their arguments and call the C
  functions. Two cannot be of use: `gr_get_receivers_` discards what it gets, and
  `gr_load_scheduelr_`, which is misspelt, passes on a name that Fortran does not
  terminate.
- Cooperative scheduling, MPI and PAPI beyond what their callers see (external);
  the settings that only choose constants; command lines and the binding of
  processes to cores in the sampling programs; `test.c`; printing.

## 7. Plan

Done: the phase table with its abstract specification, proofs and refinement
proof; the team of threads for fork-join and the monitoring path, the same; the
file table and the receivers with proofs for any number of threads and processes;
counters, life cycle, attaching and the sampling programs with proofs. Left, in
this order:

1. An abstract registry, the set of (program, group) pairs, with `Receivers`
   implementing it. The theorems above say most of it as invariants.
2. Growth of the phase table by several threads: the blocks that `realloc` frees as
   part of the state, and who still holds a pointer to them.
3. The contents of the phase table in a second life, composing `PhaseTable` with
   `LifeCycle`.
