--------------------------- MODULE MonitorBuffer ----------------------------
(***************************************************************************)
(* The buffer in shared memory through which the simulation tells the      *)
(* analytics on its node how it is doing, and the read-write lock in it.   *)
(* Both sides run in signal handlers and only ever try the lock.           *)
(***************************************************************************)
EXTENDS Integers

CONSTANTS
  Analytics,    \* the analytics processes that attach to the buffer
  PhaseIds      \* values of current_phase_id

ASSUME PhaseIdsAssumption == 0 \in PhaseIds

VARIABLES
  rwlock,          \* who holds the lock: one writer or any number of readers
  monitor_buffer   \* phase_id, and one number for the perfctr_values

buffer == <<rwlock, monitor_buffer>>

(* As gr_create_monitor_buffer leaves it, in memory fresh from the kernel. *)
BufferInit ==
  /\ rwlock = [writing |-> FALSE, readers |-> {}]
  /\ monitor_buffer = [phase_id |-> 0, value |-> 0]

Writable    == ~rwlock.writing /\ rwlock.readers = {}
Readable    == ~rwlock.writing
wrlock      == Writable /\ rwlock' = [rwlock EXCEPT !.writing = TRUE]
wrunlock    == rwlock' = [rwlock EXCEPT !.writing = FALSE]
rdlock(a)   == Readable /\ rwlock' = [rwlock EXCEPT !.readers = @ \cup {a}]
rdunlock(a) == rwlock' = [rwlock EXCEPT !.readers = @ \ {a}]

(* setitimer with the one-shot times of both sides: 0 stops the timer, and *)
(* microseconds that do not make less than a second are refused, which no  *)
(* caller looks at.                                                        *)
Arms(us)    == 0 < us /\ us < 1000000
Refused(us) == us < 0 \/ us >= 1000000
SetTimer(running, us) == Arms(us) \/ (running /\ Refused(us))
=============================================================================
