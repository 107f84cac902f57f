------------------------------ MODULE LifeCycle ------------------------------
(***************************************************************************)
(* From gr_init to gr_finalize in the processes of one node: what each of  *)
(* them acquires and releases, and how a scheduler finds the monitor       *)
(* buffer of a simulation process, which the program around the library    *)
(* creates.                                                                *)
(*                                                                         *)
(* A call is one action where it runs to its end by itself, and several    *)
(* where other processes can see what it has done so far.                  *)
(***************************************************************************)
EXTENDS Counters, FiniteSets

CONSTANTS
  Rank,          \* OMPI_COMM_WORLD_LOCAL_RANK of a process in its program
  DebugTiming,   \* DEBUG_TIMING is defined, with any value
  BufferFirst    \* the sender is registered when the buffers exist

ASSUME LifeCycleAssumption ==
  /\ Rank \in [Procs -> Nat]
  /\ DebugTiming \in BOOLEAN /\ BufferFirst \in BOOLEAN

VARIABLES
  program,   \* what each process runs
  proc,      \* what it keeps, a record
  senders,   \* the sender of the meta-data region: app_id 0 is registered
  regions    \* the named region for the buffer of each simulation process

lifevars == <<perf, program, proc, senders, regions>>

Sims == {p \in Procs : program[p] = "simulation"}

(***************************************************************************)
(* at is the place in the program; phases stands for gr_phases and         *)
(* gr_phases_perf, with known if there is an entry, files for gr_files;    *)
(* do_perfctr and do_stub are gr_do_phase_perfctr and gr_do_stub, as the   *)
(* environment has them, which gr_init reads before they are used; handler *)
(* is TRUE while SIGALRM goes to the library; file is log_file, or         *)
(* sched_tracefile; region is gr_mon_buffer_region; name is TRUE from the  *)
(* registration of a scheduler on. inits and ends, the calls of gr_init    *)
(* and gr_finalize, with lives, a bound on them, and fault, as in perf,    *)
(* are auxiliary.                                                          *)
(***************************************************************************)
NewProcess(do_perfctr, do_stub, lives) ==
  [at |-> "out", phases |-> "null", known |-> FALSE, files |-> "null",
   do_perfctr |-> do_perfctr, do_stub |-> do_stub, handler |-> FALSE, file |-> "null",
   region |-> "null", name |-> FALSE,
   lives |-> lives, inits |-> 0, ends |-> 0, fault |-> "none"]

At(p, what, place) ==
  /\ program[p] = what /\ proc[p].at = place
  /\ proc[p].fault = "none" /\ perf[p].fault = "none"

Fails(p, how) ==
  /\ proc' = [proc EXCEPT ![p].fault = how]
  /\ UNCHANGED <<perf, program, senders, regions>>

Changes(p, q) ==
  /\ proc' = [proc EXCEPT ![p] = q]
  /\ UNCHANGED <<perf, program, senders, regions>>

-----------------------------------------------------------------------------
(* gr_init. Whether the counters count is not looked at. Without memory    *)
(* for the tables a simulation exits; the log file may be missing.         *)
gr_init(p) ==
  /\ program[p] \in {"simulation", "analytics"}
  /\ At(p, program[p], "out") \/ At(p, program[p], "final")
  /\ proc[p].inits < proc[p].lives
  /\ \E c \in IF proc[p].do_perfctr THEN InitAndStart(perf[p]) ELSE {perf[p]} :
       perf' = [perf EXCEPT ![p] = c]
  /\ LET q == [proc[p] EXCEPT !.at = "in", !.inits = @ + 1]
         tables == [q EXCEPT !.phases = "live", !.files = "live", !.known = FALSE]
     IN \E file \in {"open", "null"} :
          proc' \in {[proc EXCEPT ![p] = r] :
                       r \in IF program[p] = "analytics" THEN {q}
                             ELSE {[q EXCEPT !.at = "exit"], [tables EXCEPT !.file = file]}}
  /\ UNCHANGED <<program, senders, regions>>

-----------------------------------------------------------------------------
(* What the program around the simulation does: it creates the buffer, in  *)
(* a region that others can attach to before there is a lock in it, ...    *)
CreateRegion(p) ==
  /\ At(p, "simulation", "in")
  /\ regions[p] = "none"
  /\ regions' = [regions EXCEPT ![p] = "raw"]
  /\ proc' = [proc EXCEPT ![p].at = "lock"]
  /\ UNCHANGED <<perf, program, senders>>

InitLock(p) ==
  /\ At(p, "simulation", "lock")
  /\ \/ /\ regions' = [regions EXCEPT ![p] = "ready"]
        /\ proc' = [proc EXCEPT ![p].at = "in", ![p].region = "mapped"]
     \/ /\ proc' = [proc EXCEPT ![p].at = "in"]
        /\ UNCHANGED regions
  /\ UNCHANGED <<perf, program, senders>>

(* ... installs the stub, and registers the sender, with the keys of all   *)
(* simulation processes, once and for all.                                 *)
gr_stub_init(p) ==
  /\ At(p, "simulation", "in")
  /\ ~proc[p].handler
  /\ Changes(p, [proc[p] EXCEPT !.handler = TRUE])

RegisterSender ==
  /\ ~senders
  /\ Sims # {}
  /\ BufferFirst => \A s \in Sims : regions[s] = "ready"
  /\ senders' = TRUE
  /\ UNCHANGED <<perf, program, proc, regions>>

(* gr_phase_start and gr_phase_end. The handler, if the timer expires in   *)
(* between, goes to the buffer.                                            *)
RunPhase(p) ==
  /\ At(p, "simulation", "in")
  /\ \E expires \in BOOLEAN, refused \in BOOLEAN :
       /\ proc' = [proc EXCEPT ![p].known = TRUE,
            ![p].fault = IF expires /\ proc[p].do_stub /\ proc[p].handler
                            /\ proc[p].region # "mapped"
                         THEN proc[p].region ELSE @]
       /\ perf' = [perf EXCEPT ![p] =
            CASE ~proc[p].do_perfctr -> @
              [] refused /\ @.gr_num_events <= NUM_EVENTS -> Refused(@)
              [] OTHER -> gr_perfctr_read(@)]
  /\ UNCHANGED <<program, senders, regions>>

(* gr_finalize of a simulation, with gr_destroy_global_phases first and    *)
(* gr_print_phases, which goes through the phases, after it.               *)
FinalizeFault(q) ==
  CASE q.phases = "freed"                   -> "dangling"
    [] DebugTiming /\ q.file = "null"       -> "null"
    [] DebugTiming /\ q.known               -> "dangling"
    [] q.do_stub /\ q.region # "mapped"     -> q.region
    [] OTHER                                -> "none"

Finalized(q) ==
  [q EXCEPT !.at = "final", !.ends = @ + 1, !.phases = "freed", !.files = "freed",
            !.file = "null", !.handler = @ /\ ~q.do_stub,
            !.region = IF q.do_stub THEN "dangling" ELSE @]

(* Mutation: gr_finalize returns where it does for the analytics.          *)
SimulationFinalizeEarly(p) ==
  /\ At(p, "simulation", "in") \/ At(p, "simulation", "final")
  /\ proc[p].ends < proc[p].lives
  /\ FinalizeFault(proc[p]) = "none"
  /\ Changes(p, Finalized(proc[p]))

SimulationFinalize(p) ==
  /\ At(p, "simulation", "in") \/ At(p, "simulation", "final")
  /\ proc[p].ends < proc[p].lives
  /\ IF FinalizeFault(proc[p]) # "none" THEN Fails(p, FinalizeFault(proc[p]))
     ELSE /\ proc' = [proc EXCEPT ![p] = Finalized(@)]
          /\ \E c \in gr_perfctr_finalize(perf[p]) : perf' = [perf EXCEPT ![p] = c]
          /\ \E left \in IF proc[p].do_stub THEN {"none", regions[p]} ELSE {regions[p]} :
               regions' = [regions EXCEPT ![p] = left]
          /\ UNCHANGED <<program, senders>>

-----------------------------------------------------------------------------
(* gr_load_scheduler, with a name that exists, waits for the sender and    *)
(* for the buffer of one of its processes.                                 *)
LoadScheduler(p) ==
  /\ At(p, "analytics", "in")
  /\ ~proc[p].name
  /\ Changes(p, [proc[p] EXCEPT !.at = "wait", !.name = TRUE])

(* Mutation: without the sender's number of processes.                     *)
OwnRank(p) == Rank[p]

sim_rank(p) == Rank[p] \div Cardinality(Sims)

gr_get_sender(p) ==
  /\ At(p, "analytics", "wait")
  /\ senders
  /\ Changes(p, [proc[p] EXCEPT !.at = "attach"])

(* Mutation: the loop ends with the first round.                           *)
AttachUnawaited(p) ==
  /\ At(p, "analytics", "attach") \/ At(p, "analytics", "wait")
  /\ \E s \in Sims :
       /\ Rank[s] = sim_rank(p)
       /\ regions[s] # "none"
       /\ \E loaded, opened \in BOOLEAN :
            Changes(p, [proc[p] EXCEPT
              !.at = "in", !.region = IF regions[s] = "raw" THEN "raw" ELSE "mapped",
              !.handler = loaded, !.file = IF loaded /\ opened THEN "open" ELSE "null"])

(* Afterwards there may be no memory for the windows, and no trace file.   *)
gr_attach_monitor_buffer(p) ==
  /\ At(p, "analytics", "attach")
  /\ \E s \in Sims :
       /\ Rank[s] = sim_rank(p)
       /\ regions[s] # "none"
       /\ \E loaded, opened \in BOOLEAN :
            Changes(p, [proc[p] EXCEPT
              !.at = "in", !.region = IF regions[s] = "raw" THEN "raw" ELSE "mapped",
              !.handler = loaded, !.file = IF loaded /\ opened THEN "open" ELSE "null"])

(* gr_finalize of the analytics: there are no tables to free, and the      *)
(* counters go on.                                                         *)
AnalyticsFinalize(p) ==
  /\ At(p, "analytics", "in") \/ At(p, "analytics", "final")
  /\ proc[p].ends < proc[p].lives
  /\ LET q == [proc[p] EXCEPT !.at = "final", !.ends = @ + 1]
     IN IF ~q.name THEN Changes(p, q)
        ELSE IF q.region = "dangling" THEN Fails(p, "dangling")
        ELSE IF DebugTiming /\ q.file = "null" THEN Fails(p, "null")
        ELSE Changes(p, [q EXCEPT !.region = "dangling", !.handler = FALSE, !.file = "null"])

LifeStep(p) ==
  \/ gr_init(p)
  \/ CreateRegion(p) \/ InitLock(p) \/ gr_stub_init(p)
  \/ RunPhase(p) \/ SimulationFinalize(p)
  \/ LoadScheduler(p) \/ gr_get_sender(p) \/ gr_attach_monitor_buffer(p)
  \/ AnalyticsFinalize(p)

-----------------------------------------------------------------------------
ProcessRecord ==
  [at : {"out", "in", "lock", "wait", "attach", "final", "exit"},
   phases : {"null", "live", "freed"}, known : BOOLEAN, files : {"null", "live", "freed"},
   do_perfctr : BOOLEAN, do_stub : BOOLEAN, handler : BOOLEAN,
   file : {"null", "open"}, region : {"null", "raw", "mapped", "dangling"},
   name : BOOLEAN, lives : Nat, inits : Nat, ends : Nat,
   fault : {"none", "null", "dangling"}]

(***************************************************************************)
(* A process that calls gr_init and gr_finalize once comes to undefined    *)
(* behaviour only in these ways: it was refused memory in gr_perfctr_init, *)
(* or names more events than there is room for; or it installed the stub,  *)
(* or left GR_DO_STUB on, without a buffer; or, in a build with            *)
(* DEBUG_TIMING, a file is missing, or gr_finalize prints the phases that  *)
(* it has freed.                                                           *)
(***************************************************************************)
Once(p) == proc[p].inits <= 1 /\ proc[p].ends = 0

FaultsAreExplained ==
  \A p \in Procs : Once(p) =>
    /\ perf[p].fault \in {"overrun", "null"} =>
         perf[p].no_memory \/ perf[p].named > NUM_EVENTS
    /\ perf[p].fault # "dangling"
    /\ proc[p].fault = "null" =>
         (DebugTiming /\ proc[p].file = "null") \/ (proc[p].do_stub /\ proc[p].region = "null")
    /\ proc[p].fault = "dangling" =>
         DebugTiming /\ proc[p].known /\ proc[p].at = "in"

(***************************************************************************)
(* A simulation that has returned from gr_finalize has given back what it  *)
(* had: the tables, the files, SIGALRM, the buffer, and the counters       *)
(* unless PAPI would not.                                                  *)
(***************************************************************************)
FinalizedHasReleased ==
  \A p \in Sims :
    proc[p].at = "final" /\ perf[p].fault = "none" =>
      /\ proc[p].phases = "freed" /\ proc[p].files = "freed"
      /\ proc[p].do_stub => ~proc[p].handler /\ proc[p].region # "mapped"
      /\ perf[p].eventset = "null" \/ perf[p].refused

(***************************************************************************)
(* A scheduler attaches to a buffer that has its lock (the loop of         *)
(* gr_attach_monitor_buffer waits until the region exists, the lock comes  *)
(* later), while the simulation is in its first life: nobody takes the     *)
(* sender off the list when it ends.                                       *)
(***************************************************************************)
AttachedBufferIsReady ==
  \A p \in Procs :
    proc[p].region = "raw" => \E s \in Sims : Rank[s] = sim_rank(p) /\ proc[s].inits > 1

(***************************************************************************)
(* gr_load_scheduler returns: if there is a simulation process for its     *)
(* rank, which there is for the first n * n processes beside n of the      *)
(* simulation, and the sender is registered, unless the buffer is gone.    *)
(***************************************************************************)
Served(p) == \E s \in Sims : Rank[s] = Rank[p] \div Cardinality(Sims)

Loading(p) == proc[p].at \in {"wait", "attach"} /\ perf[p].fault = "none"

BufferIsGone(p) ==
  \E s \in Sims : Rank[s] = Rank[p] \div Cardinality(Sims) /\ regions[s] = "none"

LoadReturns ==
  \A p \in Procs :
    senders /\ Loading(p) /\ Served(p) ~> ~Loading(p) \/ BufferIsGone(p)
=============================================================================
