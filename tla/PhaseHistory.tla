---------------------------- MODULE PhaseHistory ----------------------------
(***************************************************************************)
(* What the phase tracker promises its caller: every completed phase is    *)
(* counted once, in the summary of its own pair of call sites, and in no   *)
(* other. There is no table here, no guess and no cache.                   *)
(*                                                                         *)
(*   history  the summaries, at most one for a pair of call sites          *)
(*   open     the call site of the phase in progress, or NoSite            *)
(*   counting the events of a phase that ends now count                    *)
(*   alive    the tracker still answers; when it stops, nothing is kept    *)
(***************************************************************************)
EXTENDS Integers, FiniteSets

CONSTANTS
  StartSites, EndSites, NoSite, Measurements,
  MaxCount,    \* the largest number of runs a summary can count
  Room         \* the number of summaries there is certainly room for

VARIABLES history, open, counting, alive

vars == <<history, open, counting, alive>>

Init == history = {} /\ open = NoSite /\ counting = FALSE /\ alive = TRUE

(* A phase that was open is forgotten: only one is open at a time.         *)
Start(s) ==
  /\ alive
  /\ open' = s
  /\ UNCHANGED <<history, counting, alive>>

SummariesOf(s, e) == {r \in history : r.start = s /\ r.end = e}

NoEvents == [runs |-> 0, sum |-> 0, most |-> 0, least |-> 0]

MoreEvents(v, n) ==
  [runs |-> v.runs + 1, sum |-> v.sum + n,
   most  |-> IF v.runs = 0 \/ n > v.most THEN n ELSE v.most,
   least |-> IF v.runs = 0 \/ n < v.least THEN n ELSE v.least]

Counted(v, run) == IF counting THEN MoreEvents(v, run.events) ELSE v

FirstRun(s, e, run) ==
  [start |-> s, end |-> e, count |-> 1,
   longest |-> run.length, shortest |-> run.length,
   events |-> Counted(NoEvents, run)]

(* A shortest length of 0 counts as "none yet".                            *)
AnotherRun(r, run) ==
  [r EXCEPT !.count = @ + 1,
            !.longest = IF run.length > @ THEN run.length ELSE @,
            !.shortest = IF @ = 0 \/ run.length < @ THEN run.length ELSE @,
            !.events = Counted(@, run)]

Complete(e, run) ==
  /\ alive
  /\ open # NoSite
  /\ open' = NoSite
  /\ \/ /\ SummariesOf(open, e) = {}
        /\ history' = history \cup {FirstRun(open, e, run)}
     \/ \E r \in SummariesOf(open, e) :
          /\ r.count < MaxCount
          /\ history' = (history \ {r}) \cup {AnotherRun(r, run)}
  /\ UNCHANGED <<counting, alive>>

Count(on) ==
  /\ counting' = on
  /\ UNCHANGED <<history, open, alive>>

Exhausted ==
  \/ \E r \in history : r.count = MaxCount
  \/ Cardinality(history) >= Room

Stop ==
  /\ alive
  /\ Exhausted
  /\ alive' = FALSE
  /\ open' = NoSite
  /\ history' = {}
  /\ UNCHANGED counting

Next ==
  \/ \E s \in StartSites : Start(s)
  \/ \E e \in EndSites, run \in Measurements : Complete(e, run)
  \/ \E on \in BOOLEAN : Count(on)
  \/ Stop

Spec == Init /\ [][Next]_vars
=============================================================================
