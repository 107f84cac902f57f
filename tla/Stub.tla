-------------------------------- MODULE Stub --------------------------------
(***************************************************************************)
(* The monitoring stub of gr_stub.c in the simulation process. While a     *)
(* phase is open a one-shot timer fires again and again; its handler reads *)
(* the performance counters and publishes how far they moved since the     *)
(* previous reading, and the phase, in the monitor buffer.                 *)
(*                                                                         *)
(* The handler interrupts the main thread between any two of its steps.    *)
(* With HandlerOnMain it then runs to its end before the main thread goes  *)
(* on. Otherwise SIGALRM, which is sent to the process, was taken by       *)
(* another thread, and the two run side by side. Beside both, the workers  *)
(* of the team are in gr_phase_start, and store their guess of the phase   *)
(* where the main thread has stored its own.                               *)
(*                                                                         *)
(* The model starts where gr_stub_init and gr_create_monitor_buffer have   *)
(* been called, which the embedding program has to do.                     *)
(***************************************************************************)
EXTENDS MonitorBuffer

CONSTANTS
  HandlerOnMain,
  MaxCounter,       \* bound on the hardware counters
  timer_interval_us,
  num_lock_tries

ASSUME StubAssumption ==
  /\ HandlerOnMain \in BOOLEAN
  /\ MaxCounter \in Nat
  /\ timer_interval_us \in Int
  /\ num_lock_tries \in Nat

VARIABLES
  counter,          \* the hardware counters, one number for all events
  current_phase_id, \* written by every thread of the team
  start_value,      \* current_phase_perfctr_values
  perfctr_values,   \* perfctr_values1 and perfctr_values2
  current_pctr,     \* pointers: 1 or 2
  old_pctr,
  disable_handler,
  timer,            \* ITIMER_REAL is running
  action,           \* disposition of SIGALRM: "handler", or "default" (terminate)
  main,             \* where the main thread is
  handler,          \* where gr_timer_handler is, or "none"
  tries,            \* i, the loop index of the handler, forgotten when it returns
  base, tick, shown \* auxiliary, see below

stubvars == <<counter, current_phase_id, start_value, perfctr_values,
              current_pctr, old_pctr, disable_handler, timer, action,
              main, handler, tries, base, tick, shown>>

(***************************************************************************)
(* The auxiliary variables say what ought to be published. base is the     *)
(* reading that the next interval starts from, tick the counts of the      *)
(* interval that ended last (forgotten when the handler returns), shown    *)
(* the record published last, with these counts.                           *)
(***************************************************************************)
pointers == <<perfctr_values, current_pctr, old_pctr>>
aux      == <<base, tick, shown>>
record(id, value) == [phase_id |-> id, value |-> value]

StubInit ==
  /\ counter = 0
  /\ current_phase_id = 0
  /\ start_value = 0
  /\ perfctr_values = [b \in {1, 2} |-> 0]
  /\ current_pctr = 2 /\ old_pctr = 1
  /\ disable_handler = FALSE
  /\ timer = FALSE
  /\ action = "handler"
  /\ main = "idle"
  /\ handler = "none"
  /\ tries = 0
  /\ base = 0 /\ tick = 0 /\ shown = record(0, 0)

(* The counters advance with the work the simulation does.                 *)
Count ==
  /\ counter < MaxCounter
  /\ counter' = counter + 1
  /\ UNCHANGED <<current_phase_id, start_value, pointers, disable_handler, timer,
                 action, main, handler, tries, aux, buffer>>

(* A worker comes to the end of gr_find_phase: after the main thread, or   *)
(* before it, in the phase to come. Before the main thread ends the phase  *)
(* all have returned (ForkJoin of PhaseThreads).                           *)
Guess(id) ==
  /\ main \in {"idle", "reset", "enable", "arm", "open"}
  /\ action # "killed"
  /\ current_phase_id' = id
  /\ UNCHANGED <<counter, start_value, pointers, disable_handler, timer,
                 action, main, handler, tries, aux, buffer>>

-----------------------------------------------------------------------------
(* The main thread.                                                        *)
MainMoves(from, to) ==
  /\ main = from
  /\ HandlerOnMain => handler = "none"
  /\ action # "killed"
  /\ main' = to

(* gr_phase_start up to its call of gr_stub_phase_start: the new phase is  *)
(* guessed and the counters are read.                                      *)
PhaseStart(id) ==
  /\ MainMoves("idle", "reset")
  /\ action = "handler"
  /\ current_phase_id' = id
  /\ start_value' = counter
  /\ UNCHANGED <<counter, pointers, disable_handler, timer, action, handler,
                 tries, aux, buffer>>

(* gr_stub_phase_start: pointers and first reading, ...                    *)
Reset ==
  /\ MainMoves("reset", "enable")
  /\ old_pctr' = 1 /\ current_pctr' = 2
  /\ perfctr_values' = [perfctr_values EXCEPT ![1] = start_value]
  /\ base' = start_value
  /\ UNCHANGED <<counter, current_phase_id, start_value, disable_handler, timer,
                 action, handler, tries, tick, shown, buffer>>

(* Mutation: the flag stays as the last phase left it.                     *)
EnableForgotten ==
  /\ MainMoves("enable", "arm")
  /\ UNCHANGED <<counter, current_phase_id, start_value, disable_handler, pointers,
                 timer, action, handler, tries, aux, buffer>>

(* ... the handler's flag, ...                                             *)
Enable ==
  /\ MainMoves("enable", "arm")
  /\ disable_handler' = FALSE
  /\ UNCHANGED <<counter, current_phase_id, start_value, pointers, timer, action,
                 handler, tries, aux, buffer>>

(* ... and the timer.                                                      *)
Arm ==
  /\ MainMoves("arm", "open")
  /\ timer' = SetTimer(timer, timer_interval_us)
  /\ UNCHANGED <<counter, current_phase_id, start_value, pointers, disable_handler,
                 action, handler, tries, aux, buffer>>

(* gr_stub_phase_end: "disable timer".                                     *)
Disable ==
  /\ MainMoves("open", "disarm")
  /\ disable_handler' = TRUE
  /\ UNCHANGED <<counter, current_phase_id, start_value, pointers, timer, action,
                 handler, tries, aux, buffer>>

(* Mutation: the timer is left running.                                    *)
DisarmForgotten ==
  /\ MainMoves("disarm", "idle")
  /\ UNCHANGED <<counter, current_phase_id, start_value, pointers, disable_handler,
                 timer, action, handler, tries, aux, buffer>>

Disarm ==
  /\ MainMoves("disarm", "idle")
  /\ timer' = SetTimer(timer, 0)
  /\ UNCHANGED <<counter, current_phase_id, start_value, pointers, disable_handler,
                 action, handler, tries, aux, buffer>>

(* gr_stub_finalize, called by gr_finalize: the old disposition of SIGALRM *)
(* is restored, which terminates the process.                              *)
StubFinalize ==
  /\ MainMoves("idle", "finalized")
  /\ disable_handler' = TRUE
  /\ action' = "default"
  /\ UNCHANGED <<counter, current_phase_id, start_value, pointers, timer, handler,
                 tries, aux, buffer>>

-----------------------------------------------------------------------------
(* gr_timer_handler.                                                       *)
HandlerMoves(from, to) ==
  /\ handler = from
  /\ action # "killed"
  /\ handler' = to

Expire ==
  /\ timer
  /\ action # "killed"
  /\ handler = "none"
  /\ timer' = FALSE
  /\ IF action = "default"
     THEN action' = "killed" /\ UNCHANGED handler
     ELSE handler' = "check" /\ UNCHANGED action
  /\ UNCHANGED <<counter, current_phase_id, start_value, pointers, disable_handler,
                 main, tries, aux, buffer>>

Check ==
  /\ HandlerMoves("check", IF disable_handler THEN "none" ELSE "read")
  /\ UNCHANGED <<counter, current_phase_id, start_value, pointers, disable_handler,
                 timer, action, main, tries, aux, buffer>>

ReadCounters ==
  /\ HandlerMoves("read", "subtract")
  /\ perfctr_values' = [perfctr_values EXCEPT ![current_pctr] = counter]
  /\ base' = counter
  /\ tick' = counter - base
  /\ UNCHANGED <<counter, current_phase_id, start_value, current_pctr, old_pctr,
                 disable_handler, timer, action, main, tries, shown, buffer>>

Subtract ==
  /\ HandlerMoves("subtract", "try")
  /\ perfctr_values' = [perfctr_values EXCEPT ![old_pctr] =
                          perfctr_values[current_pctr] - @]
  /\ UNCHANGED <<counter, current_phase_id, start_value, current_pctr, old_pctr,
                 disable_handler, timer, action, main, tries, aux, buffer>>

Lock ==
  /\ tries < num_lock_tries
  /\ wrlock
  /\ HandlerMoves("try", "put_id")
  /\ UNCHANGED <<counter, current_phase_id, start_value, pointers, disable_handler,
                 timer, action, main, tries, aux, monitor_buffer>>

(* Mutations: without a limit, and without counting.                       *)
LockBusyUnlimited ==
  /\ ~Writable
  /\ HandlerMoves("try", "try")
  /\ tries' = tries + 1
  /\ UNCHANGED <<counter, current_phase_id, start_value, pointers, disable_handler,
                 timer, action, main, aux, buffer>>

LockBusyUncounted ==
  /\ tries < num_lock_tries
  /\ ~Writable
  /\ HandlerMoves("try", "try")
  /\ UNCHANGED <<counter, current_phase_id, start_value, pointers, disable_handler,
                 timer, action, main, tries, aux, buffer>>

(* The lock is taken: try again, at most num_lock_tries times.             *)
LockBusy ==
  /\ tries < num_lock_tries
  /\ ~Writable
  /\ HandlerMoves("try", "try")
  /\ tries' = tries + 1
  /\ UNCHANGED <<counter, current_phase_id, start_value, pointers, disable_handler,
                 timer, action, main, aux, buffer>>

(* Mutation: what was not published leaves the pointers as they are.       *)
GiveUpUnswapped ==
  /\ tries >= num_lock_tries
  /\ HandlerMoves("try", "rearm")
  /\ UNCHANGED <<counter, current_phase_id, start_value, pointers, disable_handler,
                 timer, action, main, tries, aux, buffer>>

GiveUp ==
  /\ tries >= num_lock_tries
  /\ HandlerMoves("try", "swap")
  /\ UNCHANGED <<counter, current_phase_id, start_value, pointers, disable_handler,
                 timer, action, main, tries, aux, buffer>>

PutId ==
  /\ HandlerMoves("put_id", "put_value")
  /\ monitor_buffer' = [monitor_buffer EXCEPT !.phase_id = current_phase_id]
  /\ UNCHANGED <<counter, current_phase_id, start_value, pointers, disable_handler,
                 timer, action, main, tries, aux, rwlock>>

PutValue ==
  /\ HandlerMoves("put_value", "unlock")
  /\ monitor_buffer' = [monitor_buffer EXCEPT !.value = perfctr_values[old_pctr]]
  /\ UNCHANGED <<counter, current_phase_id, start_value, pointers, disable_handler,
                 timer, action, main, tries, aux, rwlock>>

Unlock ==
  /\ HandlerMoves("unlock", "swap")
  /\ wrunlock
  /\ shown' = record(monitor_buffer.phase_id, tick)
  /\ UNCHANGED <<counter, current_phase_id, start_value, pointers, disable_handler,
                 timer, action, main, tries, base, tick, monitor_buffer>>

Swap ==
  /\ HandlerMoves("swap", "rearm")
  /\ current_pctr' = old_pctr
  /\ old_pctr' = current_pctr
  /\ UNCHANGED <<counter, current_phase_id, start_value, perfctr_values,
                 disable_handler, timer, action, main, tries, aux, buffer>>

Rearm ==
  /\ HandlerMoves("rearm", "none")
  /\ timer' = SetTimer(timer, timer_interval_us)
  /\ tries' = 0
  /\ tick' = 0
  /\ UNCHANGED <<counter, current_phase_id, start_value, pointers, disable_handler,
                 action, main, base, shown, buffer>>

HandlerStep ==
  Check \/ ReadCounters \/ Subtract \/ Lock \/ LockBusy \/ GiveUp \/ PutId
    \/ PutValue \/ Unlock \/ Swap \/ Rearm

MainStep ==
  Reset \/ Enable \/ Arm \/ Disable \/ Disarm

StubNext ==
  \/ Count
  \/ \E id \in PhaseIds : PhaseStart(id) \/ Guess(id)
  \/ MainStep
  \/ StubFinalize
  \/ Expire
  \/ HandlerStep

-----------------------------------------------------------------------------
(* Types.                                                                  *)
Records == [phase_id : PhaseIds, value : Int]

StubTypeOK ==
  /\ rwlock.writing \in BOOLEAN
  /\ monitor_buffer \in Records
  /\ counter \in 0 .. MaxCounter
  /\ current_phase_id \in PhaseIds
  /\ start_value \in 0 .. MaxCounter
  /\ perfctr_values \in [{1, 2} -> Int]
  /\ current_pctr \in {1, 2} /\ old_pctr \in {1, 2}
  /\ disable_handler \in BOOLEAN
  /\ timer \in BOOLEAN
  /\ action \in {"handler", "default", "killed"}
  /\ main \in {"idle", "reset", "enable", "arm", "open", "disarm", "finalized"}
  /\ handler \in {"none", "check", "read", "subtract", "try", "put_id",
                  "put_value", "unlock", "swap", "rearm"}
  /\ tries \in 0 .. num_lock_tries
  /\ base \in 0 .. MaxCounter /\ tick \in Int /\ shown \in Records

(***************************************************************************)
(* What a reader finds in the buffer is the record of one interval: the    *)
(* counts since the reading before, whether or not that one could be       *)
(* published, and the phase_id that they were published with.              *)
(***************************************************************************)
PublishedIsOneInterval ==
  ~rwlock.writing => monitor_buffer = shown

(***************************************************************************)
(* Monitoring does not stop before the phase does: with no handler running *)
(* the timer of an open phase is armed. (The timer is one-shot, and a      *)
(* handler that finds itself disabled returns without arming it again.)    *)
(* The interval of the stub has to be a part of a second.                  *)
(***************************************************************************)
OpenPhaseIsMonitored ==
  Arms(timer_interval_us) =>
    (main = "open" /\ handler = "none" => timer)

(***************************************************************************)
(* "disable the timer" (gr_phase_end) and "disable timer" (its callee      *)
(* gr_stub_phase_end): when the phase has ended the timer does not run.    *)
(***************************************************************************)
EndedPhaseHasNoTimer ==
  main = "idle" => ~timer

(***************************************************************************)
(* No SIGALRM is left over to terminate a program that has called          *)
(* gr_finalize.                                                            *)
(***************************************************************************)
SurvivesFinalize ==
  action # "killed"
=============================================================================
