------------------------------ MODULE Scheduler ------------------------------
(***************************************************************************)
(* The scheduler of gr_sched.c, which every analytics process loads: a     *)
(* one-shot timer whose handler takes down how far the process's own       *)
(* counters have moved, copies the monitor buffer of the simulation, calls *)
(* the scheduling function and arms the timer again.                       *)
(*                                                                         *)
(* An analytics process has one thread, which the handler interrupts, and  *)
(* can be stopped by SIGSTOP between any two steps. The model starts when  *)
(* the simulation has registered and created its buffer; before that       *)
(* loading a scheduler waits.                                              *)
(***************************************************************************)
EXTENDS MonitorBuffer

CONSTANTS
  SchedNames,            \* names passed to gr_load_scheduler
  Intervals,             \* intervals passed to it, in milliseconds
  MaxOwnCounter,         \* bound on the counters of an analytics process
  num_read_lock_tries

Known == {"greedy", "contention"}

ASSUME SchedulerAssumption ==
  /\ SchedNames \subseteq Known \cup {"default", "unknown", "NULL"}
  /\ Intervals \subseteq Int
  /\ MaxOwnCounter \in Nat
  /\ num_read_lock_tries \in Nat

(* The microseconds are an int, too.                                       *)
ASSUME IntervalAssumption ==
  \A interval \in Intervals : interval \in -2147483 .. 2147483

VARIABLE proc   \* the state of each analytics process, a record

(***************************************************************************)
(* Fields: status, alive or what ended the process; stopped, by SIGSTOP;   *)
(* main, where its thread is; name and interval of the scheduler; disable, *)
(* timer and action (the disposition of SIGALRM) as in the stub; handler,  *)
(* where gr_timer_sched_handler is; tries, its loop index, and copied, the *)
(* phase_id and the window it fills from the buffer, which are forgotten   *)
(* when it returns; own, the hardware counters; cur and old, what          *)
(* cur_perfctr and old_perfctr point to; self_window, the window written   *)
(* last. The auxiliary fields since (the last reading of own), elapsed     *)
(* (how far own had moved at the last tick since the reading before) and   *)
(* ticks (up to 2) say what self_window ought to be.                       *)
(***************************************************************************)
NothingCopied == [phase_id |-> 0, value |-> 0]

NewProcess ==
  [status |-> "alive", stopped |-> FALSE, main |-> "new",
   name |-> "NULL", interval |-> 0,
   disable |-> FALSE, timer |-> FALSE, action |-> "default",
   handler |-> "none", tries |-> 0, copied |-> NothingCopied,
   own |-> 0, cur |-> 0, old |-> 0, self_window |-> 0,
   since |-> 0, elapsed |-> 0, ticks |-> 0]

SchedInit == proc = [a \in Analytics |-> NewProcess]

Runs(a) == proc[a].status = "alive" /\ ~proc[a].stopped

(* The one-shot timer has expired or was never started where it is set, in *)
(* milliseconds: where that is refused, or 0, it does not run.             *)
ArmsFor(interval) == Arms(interval * 1000)

-----------------------------------------------------------------------------
(* Environment: work, and signals of the simulation processes.             *)
Work(a) ==
  /\ Runs(a)
  /\ proc[a].handler = "none"
  /\ proc[a].own < MaxOwnCounter
  /\ proc' = [proc EXCEPT ![a].own = @ + 1]
  /\ UNCHANGED buffer

Stop(a) ==
  /\ Runs(a)
  /\ proc' = [proc EXCEPT ![a].stopped = TRUE]
  /\ UNCHANGED buffer

Continue(a) ==
  /\ proc[a].stopped
  /\ proc' = [proc EXCEPT ![a].stopped = FALSE]
  /\ UNCHANGED buffer

-----------------------------------------------------------------------------
(* The thread of the process. It runs when no handler does.                *)
At(a, place) ==
  /\ Runs(a)
  /\ proc[a].handler = "none"
  /\ proc[a].main = place

(* gr_internal_load_scheduler. A missing name is compared with strcmp      *)
(* before it is compared with NULL.                                        *)
LoadNull(a) ==
  /\ At(a, "new")
  /\ "NULL" \in SchedNames
  /\ proc' = [proc EXCEPT ![a].status = "faulted"]
  /\ UNCHANGED buffer

(* No scheduler wanted, an unknown one, or no memory for its parameters.   *)
LoadNone(a, name) ==
  /\ At(a, "new")
  /\ name \in (SchedNames \ {"NULL"}) \ {"greedy"}
  /\ proc' = [proc EXCEPT ![a].main = "loaded"]
  /\ UNCHANGED buffer

(* The scheduler is registered and then there is no memory for windows.    *)
LoadNoWindows(a, name) ==
  /\ At(a, "new")
  /\ name \in SchedNames \cap Known
  /\ proc' = [proc EXCEPT ![a].main = "loaded", ![a].name = name]
  /\ UNCHANGED buffer

(* The initial reading of the counters goes to cur_perfctr; old_perfctr is *)
(* left as it was.                                                         *)
Load(a, name, interval) ==
  /\ At(a, "new")
  /\ name \in SchedNames \cap Known
  /\ proc' = [proc EXCEPT ![a].main = "loaded", ![a].name = name,
                          ![a].interval = interval, ![a].action = "handler",
                          ![a].cur = proc[a].own, ![a].since = proc[a].own,
                          ![a].timer = ArmsFor(interval)]
  /\ UNCHANGED buffer

(* gr_finalize_scheduler: without a scheduler nothing; otherwise disable   *)
(* the handler, restore the disposition of SIGALRM, and free everything.   *)
FinalizeNone(a) ==
  /\ At(a, "loaded")
  /\ proc[a].name = "NULL"
  /\ proc' = [proc EXCEPT ![a].main = "finalized"]
  /\ UNCHANGED buffer

SchedDisable(a) ==
  /\ At(a, "loaded")
  /\ proc[a].name # "NULL"
  /\ proc' = [proc EXCEPT ![a].main = "restore", ![a].disable = TRUE]
  /\ UNCHANGED buffer

SchedRestore(a) ==
  /\ At(a, "restore")
  /\ proc' = [proc EXCEPT ![a].main = "finalized", ![a].action = "default"]
  /\ UNCHANGED buffer

-----------------------------------------------------------------------------
(* gr_timer_sched_handler.                                                 *)
HandlerAt(a, place) ==
  /\ Runs(a)
  /\ proc[a].handler = place

Goto(a, place) == [proc EXCEPT ![a].handler = place]

SchedExpire(a) ==
  /\ HandlerAt(a, "none")
  /\ proc[a].timer
  /\ proc' = [proc EXCEPT ![a].timer = FALSE,
                          ![a].status = IF proc[a].action = "default"
                                        THEN "killed" ELSE @,
                          ![a].handler = IF proc[a].action = "default"
                                         THEN @ ELSE "check"]
  /\ UNCHANGED buffer

SchedCheck(a) ==
  /\ HandlerAt(a, "check")
  /\ proc' = Goto(a, IF proc[a].disable THEN "none" ELSE "self")
  /\ UNCHANGED buffer

(* Mutation: the two readings are not exchanged.                           *)
ReadSelfUnswapped(a) ==
  /\ HandlerAt(a, "self")
  /\ proc' = [proc EXCEPT ![a].handler = "try",
                          ![a].self_window = proc[a].own - proc[a].old,
                          ![a].cur = proc[a].own,
                          ![a].elapsed = proc[a].own - proc[a].since,
                          ![a].since = proc[a].own,
                          ![a].ticks = IF @ < 2 THEN @ + 1 ELSE @]
  /\ UNCHANGED buffer

(* The own window: read into cur, subtract old, exchange the two.          *)
ReadSelf(a) ==
  /\ HandlerAt(a, "self")
  /\ proc' = [proc EXCEPT ![a].handler = "try",
                          ![a].self_window = proc[a].own - proc[a].old,
                          ![a].cur = proc[a].old, ![a].old = proc[a].own,
                          ![a].elapsed = proc[a].own - proc[a].since,
                          ![a].since = proc[a].own,
                          ![a].ticks = IF @ < 2 THEN @ + 1 ELSE @]
  /\ UNCHANGED buffer

ReadLock(a) ==
  /\ HandlerAt(a, "try")
  /\ proc[a].tries < num_read_lock_tries
  /\ rdlock(a)
  /\ proc' = Goto(a, "copy_id")
  /\ UNCHANGED monitor_buffer

(* Mutations: without a limit, and without counting.                       *)
ReadLockBusyUnlimited(a) ==
  /\ HandlerAt(a, "try")
  /\ ~Readable
  /\ proc' = [proc EXCEPT ![a].tries = @ + 1]
  /\ UNCHANGED buffer

ReadLockBusyUncounted(a) ==
  /\ HandlerAt(a, "try")
  /\ proc[a].tries < num_read_lock_tries
  /\ ~Readable
  /\ UNCHANGED <<proc, buffer>>

ReadLockBusy(a) ==
  /\ HandlerAt(a, "try")
  /\ proc[a].tries < num_read_lock_tries
  /\ ~Readable
  /\ proc' = [proc EXCEPT ![a].tries = @ + 1]
  /\ UNCHANGED buffer

(* Mutation: nothing read, nothing to decide, back to the analytics.       *)
ReadGiveUpAndReturn(a) ==
  /\ HandlerAt(a, "try")
  /\ proc[a].tries >= num_read_lock_tries
  /\ proc' = Goto(a, "none")
  /\ UNCHANGED buffer

ReadGiveUp(a) ==
  /\ HandlerAt(a, "try")
  /\ proc[a].tries >= num_read_lock_tries
  /\ proc' = Goto(a, "decide")
  /\ UNCHANGED buffer

(* Mutations: the lock is given back after the phase_id, or never.         *)
CopyIdAndUnlock(a) ==
  /\ HandlerAt(a, "copy_id")
  /\ rdunlock(a)
  /\ proc' = [Goto(a, "copy_value") EXCEPT
                ![a].copied.phase_id = monitor_buffer.phase_id]
  /\ UNCHANGED monitor_buffer

CopyValueAndBreak(a) ==
  /\ HandlerAt(a, "copy_value")
  /\ proc' = [Goto(a, "decide") EXCEPT ![a].copied.value = monitor_buffer.value]
  /\ UNCHANGED buffer

CopyId(a) ==
  /\ HandlerAt(a, "copy_id")
  /\ proc' = [Goto(a, "copy_value") EXCEPT
                ![a].copied.phase_id = monitor_buffer.phase_id]
  /\ UNCHANGED buffer

CopyValue(a) ==
  /\ HandlerAt(a, "copy_value")
  /\ proc' = [Goto(a, "unlock") EXCEPT ![a].copied.value = monitor_buffer.value]
  /\ UNCHANGED buffer

ReadUnlock(a) ==
  /\ HandlerAt(a, "unlock")
  /\ rdunlock(a)
  /\ proc' = Goto(a, "decide")
  /\ UNCHANGED monitor_buffer

(* The greedy scheduler lets the analytics run. The contention scheduler   *)
(* is given NULL for its parameters, and reads the thresholds from there.  *)
Decide(a) ==
  /\ HandlerAt(a, "decide")
  /\ IF proc[a].name = "contention"
     THEN proc' = [proc EXCEPT ![a].status = "faulted"]
     ELSE proc' = Goto(a, "rearm")
  /\ UNCHANGED buffer

SchedRearm(a) ==
  /\ HandlerAt(a, "rearm")
  /\ proc' = [Goto(a, "none") EXCEPT
                ![a].timer = ArmsFor(proc[a].interval),
                ![a].tries = 0, ![a].copied = NothingCopied]
  /\ UNCHANGED buffer

SchedHandlerStep(a) ==
  \/ SchedCheck(a) \/ ReadSelf(a)
  \/ ReadLock(a) \/ ReadLockBusy(a) \/ ReadGiveUp(a)
  \/ CopyId(a) \/ CopyValue(a) \/ ReadUnlock(a)
  \/ Decide(a) \/ SchedRearm(a)

LoadStep(a) ==
  \/ LoadNull(a)
  \/ \E name \in SchedNames : LoadNone(a, name) \/ LoadNoWindows(a, name)
  \/ \E name \in SchedNames, interval \in Intervals : Load(a, name, interval)

FinalizeStep(a) == FinalizeNone(a) \/ SchedDisable(a) \/ SchedRestore(a)

SchedNext ==
  \E a \in Analytics :
    \/ Work(a) \/ Stop(a) \/ Continue(a)
    \/ LoadStep(a) \/ FinalizeStep(a)
    \/ SchedExpire(a) \/ SchedHandlerStep(a)

-----------------------------------------------------------------------------
(* Types.                                                                  *)
Processes ==
  [status : {"alive", "killed", "faulted"}, stopped : BOOLEAN,
   main : {"new", "loaded", "restore", "finalized"},
   name : Known \cup {"NULL"}, interval : Intervals \cup {0},
   disable : BOOLEAN, timer : BOOLEAN, action : {"default", "handler"},
   handler : {"none", "check", "self", "try", "copy_id", "copy_value", "unlock",
              "decide", "rearm"},
   tries : 0 .. num_read_lock_tries,
   copied : [phase_id : PhaseIds, value : Int],
   own : 0 .. MaxOwnCounter, cur : 0 .. MaxOwnCounter, old : 0 .. MaxOwnCounter,
   self_window : 0 .. MaxOwnCounter,
   since : 0 .. MaxOwnCounter, elapsed : 0 .. MaxOwnCounter, ticks : 0 .. 2]

SchedTypeOK ==
  /\ rwlock.readers \subseteq Analytics
  /\ proc \in [Analytics -> Processes]

(***************************************************************************)
(* The own window is what the process did between two readings of its      *)
(* counters (from the second tick on: the first reading is lost).          *)
(***************************************************************************)
SelfWindowIsOneInterval ==
  \A a \in Analytics :
    proc[a].ticks = 2 => proc[a].self_window = proc[a].elapsed

(***************************************************************************)
(* A process that has ended does not leave the lock taken, which would     *)
(* keep the simulation from publishing for ever.                           *)
(***************************************************************************)
DeadReaderHoldsNoLock ==
  \A a \in Analytics : proc[a].status # "alive" => a \notin rwlock.readers

(***************************************************************************)
(* A loaded scheduler whose interval is a part of a second always has its  *)
(* next tick before it, whether or not it could read the buffer at the     *)
(* last. (With any other interval it never ticks.)                         *)
(***************************************************************************)
Ticking(a) ==
  /\ proc[a].status = "alive" /\ proc[a].main = "loaded"
  /\ proc[a].handler = "none" /\ proc[a].action = "handler"

SchedulerTicks ==
  \A a \in Analytics :
    Ticking(a) /\ 0 < proc[a].interval /\ proc[a].interval < 1000 => proc[a].timer

(***************************************************************************)
(* "diable timer and signal handler" (gr_finalize_scheduler): no SIGALRM   *)
(* terminates a process that has finalized.                                *)
(***************************************************************************)
FinalizedIsNotKilled ==
  \A a \in Analytics : proc[a].status # "killed"
=============================================================================
