----------------------------- MODULE MonitorFeed -----------------------------
(***************************************************************************)
(* What the monitoring path promises: the analytics on a node are told how *)
(* the simulation did in intervals of its phases. An interval starts where *)
(* the one before ended, or the phase began, and belongs to one phase; it  *)
(* is published once, with the guess that stands for this phase, or lost;  *)
(* and who receives a record receives the one published last, as a whole.  *)
(* No timer, lock, pointer or window is here.                              *)
(*                                                                         *)
(*   counter    the work of the simulation                                 *)
(*   phase      the guess of which phase runs, which the threads of the    *)
(*              team may change; monitored, while it runs                    *)
(*   from       where the interval in progress starts                      *)
(*   measured   what an interval that has ended counted, if there is one   *)
(*              to be published                                              *)
(*   published  the record everybody can receive                           *)
(*   received   what each analytics process has received, or Nothing       *)
(***************************************************************************)
EXTENDS Integers

CONSTANTS Analytics, PhaseIds

VARIABLES counter, phase, monitored, from, measured, published, received

vars == <<counter, phase, monitored, from, measured, published, received>>

Interval(id, n) == [phase_id |-> id, value |-> n]
Nothing == Interval(0, 0)

Init ==
  /\ counter = 0 /\ phase = 0 /\ monitored = FALSE /\ from = 0
  /\ measured = {} /\ published = Nothing
  /\ received = [a \in Analytics |-> Nothing]

Work ==
  /\ counter' = counter + 1
  /\ UNCHANGED <<phase, monitored, from, measured, published, received>>

(* A phase begins, is monitored from some point on, and no longer.         *)
Begin(id) ==
  /\ ~monitored
  /\ phase' = id /\ from' = counter
  /\ UNCHANGED <<counter, monitored, measured, published, received>>

(* Another thread guesses.                                                 *)
Guess(id) ==
  /\ phase' = id
  /\ UNCHANGED <<counter, monitored, from, measured, published, received>>

Open ==
  /\ ~monitored
  /\ monitored' = TRUE
  /\ UNCHANGED <<counter, phase, from, measured, published, received>>

Close ==
  /\ monitored /\ measured = {}
  /\ monitored' = FALSE
  /\ UNCHANGED <<counter, phase, from, measured, published, received>>

(* An interval ends, and the next one starts from the same reading.        *)
Measure ==
  /\ monitored /\ measured = {}
  /\ measured' = {counter - from}
  /\ from' = counter
  /\ UNCHANGED <<counter, phase, monitored, published, received>>

Publish ==
  /\ \E n \in measured : published' = Interval(phase, n)
  /\ measured' = {}
  /\ UNCHANGED <<counter, phase, monitored, from, received>>

Lose ==
  /\ measured # {}
  /\ measured' = {}
  /\ UNCHANGED <<counter, phase, monitored, from, published, received>>

Receive(a) ==
  /\ received[a] = Nothing
  /\ received' = [received EXCEPT ![a] = published]
  /\ UNCHANGED <<counter, phase, monitored, from, measured, published>>

Forget(a) ==
  /\ received' = [received EXCEPT ![a] = Nothing]
  /\ UNCHANGED <<counter, phase, monitored, from, measured, published>>

Next ==
  \/ Work
  \/ \E id \in PhaseIds : Begin(id) \/ Guess(id)
  \/ Open \/ Close \/ Measure \/ Publish \/ Lose
  \/ \E a \in Analytics : Receive(a) \/ Forget(a)

Spec == Init /\ [][Next]_vars
=============================================================================
