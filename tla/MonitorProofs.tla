---------------------------- MODULE MonitorProofs ----------------------------
(***************************************************************************)
(* The monitoring path is correct for any number of analytics processes,   *)
(* any phases, any counters, any number of attempts at the lock and any    *)
(* schedulers and intervals. Some of it needs the handler of the           *)
(* simulation to run on the main thread (HandlerOnMain).                   *)
(***************************************************************************)
EXTENDS Monitor, TLAPS

(***************************************************************************)
(* The lock. Who holds it is where the handlers are, and a handler that    *)
(* writes excludes all those that read. A process ends only where its      *)
(* handler does not hold the lock.                                         *)
(***************************************************************************)
Writing == {"put_id", "put_value", "unlock"}
Reading == {"copy_id", "copy_value", "unlock"}

LockInv ==
  /\ rwlock \in [writing : BOOLEAN, readers : SUBSET Analytics]
  /\ rwlock.writing <=> handler \in Writing
  /\ \A a \in Analytics : a \in rwlock.readers <=> proc[a].handler \in Reading
  /\ rwlock.writing => rwlock.readers = {}
  /\ \A a \in Analytics :
       proc[a].status # "alive" => proc[a].handler \in {"none", "decide"}

TypeInv == StubTypeOK /\ SchedTypeOK /\ LockInv

(***************************************************************************)
(* What is in the buffer. Between the writer's lock and its unlock nobody  *)
(* reads; a reader that has copied a field still finds it there.           *)
(***************************************************************************)
CopyInv ==
  \A a \in Analytics :
    /\ proc[a].handler \in {"copy_value", "unlock"} =>
         proc[a].copied.phase_id = monitor_buffer.phase_id
    /\ proc[a].handler = "unlock" => proc[a].copied.value = monitor_buffer.value

(***************************************************************************)
(* The readings of the stub, with its handler on the main thread. Until    *)
(* the handler reads, old_pctr holds what the next interval starts from;   *)
(* then current_pctr does, and old_pctr holds the interval that has ended. *)
(***************************************************************************)
Ended == {"try", "put_id", "put_value", "unlock", "swap"}

IntervalInv ==
  /\ old_pctr # current_pctr
  /\ handler \in {"none", "check", "read", "rearm"} => perfctr_values[old_pctr] = base
  /\ handler \in {"subtract"} \cup Ended => perfctr_values[current_pctr] = base
  /\ handler = "subtract" =>
       tick = perfctr_values[current_pctr] - perfctr_values[old_pctr]
  /\ handler \in Ended => tick = perfctr_values[old_pctr]
  /\ handler = "unlock" => monitor_buffer.value = tick
  /\ ~rwlock.writing => monitor_buffer = shown

(***************************************************************************)
(* The timer of the stub, with its handler on the main thread: it runs in  *)
(* an open phase, if its interval is a part of a second, or where the main *)
(* thread is about to stop it.                                             *)
(***************************************************************************)
TimerInv ==
  /\ action # "killed"
  /\ action = "default" <=> main = "finalized"
  /\ main \in {"idle", "reset", "enable", "arm", "finalized"} =>
       ~timer /\ handler = "none"
  /\ main \in {"arm", "open"} => ~disable_handler
  /\ main = "open" /\ Arms(timer_interval_us) => timer \/ handler # "none"
  /\ main = "disarm" => disable_handler /\ handler \in {"none", "check"}

(***************************************************************************)
(* The scheduler's own windows and its timer. Before a process has loaded  *)
(* its scheduler nothing has happened.                                     *)
(***************************************************************************)
WindowInv ==
  \A a \in Analytics :
    /\ proc[a].old <= proc[a].own /\ proc[a].since <= proc[a].own
    /\ proc[a].main = "new" =>
         proc[a].ticks = 0 /\ ~proc[a].timer /\ proc[a].handler = "none"
    /\ proc[a].ticks > 0 => proc[a].old = proc[a].since
    /\ proc[a].ticks = 2 => proc[a].self_window = proc[a].elapsed

TickInv ==
  \A a \in Analytics :
    /\ proc[a].disable => proc[a].main \in {"restore", "finalized"}
    /\ proc[a].main = "new" =>
         proc[a].action = "default" /\ proc[a].handler = "none"
    /\ Ticking(a) /\ 0 < proc[a].interval /\ proc[a].interval < 1000 => proc[a].timer

-----------------------------------------------------------------------------
(* An interval of 0 stops a timer.                                         *)
LEMMA Stopped == \A running \in BOOLEAN : SetTimer(running, 0) = FALSE
<1>1. ~Arms(0) /\ ~Refused(0)
  BY DEF Arms, Refused
<1> QED
  BY <1>1 DEF SetTimer

(* 1 to 999 ms start one.                                                  *)
LEMMA MillisecondsArm ==
  \A interval \in Int : 0 < interval /\ interval < 1000 => ArmsFor(interval)
<1> QED
  BY DEF ArmsFor, Arms

(* A step of the simulation keeps the types, and takes the lock only from *)
(* nobody.                                                                 *)
LEMMA StubTypes ==
  ASSUME TypeInv, StubNext, UNCHANGED proc
  PROVE  TypeInv'
<1> USE StubAssumption, PhaseIdsAssumption
    DEF TypeInv, StubTypeOK, LockInv, SchedTypeOK, Records, Writing, Reading, buffer, pointers, aux, record
<1>1. ASSUME NEW id \in PhaseIds, PhaseStart(id)
      PROVE  TypeInv'
  BY <1>1 DEF PhaseStart, MainMoves
<1>2. CASE Count
  BY <1>2 DEF Count
<1>3. CASE Reset
  BY <1>3 DEF Reset, MainMoves
<1>4. CASE Enable
  BY <1>4 DEF Enable, MainMoves
<1>5. CASE Arm
  BY <1>5 DEF Arm, MainMoves, SetTimer
<1>6. CASE Disable
  BY <1>6 DEF Disable, MainMoves
<1>7. CASE Disarm
  BY <1>7, Stopped DEF Disarm, MainMoves
<1>8. CASE StubFinalize
  BY <1>8 DEF StubFinalize, MainMoves
<1>9. CASE Expire
  BY <1>9 DEF Expire
<1>10. CASE Check
  BY <1>10 DEF Check, HandlerMoves
<1>11. CASE ReadCounters
  BY <1>11 DEF ReadCounters, HandlerMoves
<1>12. CASE Subtract
  BY <1>12 DEF Subtract, HandlerMoves
<1>13. CASE Lock
  BY <1>13 DEF Lock, HandlerMoves, wrlock, Writable
<1>14. CASE LockBusy
  BY <1>14 DEF LockBusy, HandlerMoves, Writable
<1>15. CASE GiveUp
  BY <1>15 DEF GiveUp, HandlerMoves
<1>16. CASE PutId
  BY <1>16 DEF PutId, HandlerMoves
<1>17. CASE PutValue
  BY <1>17 DEF PutValue, HandlerMoves
<1>18. CASE Unlock
  BY <1>18 DEF Unlock, HandlerMoves, wrunlock
<1>19. CASE Swap
  BY <1>19 DEF Swap, HandlerMoves
<1>20. CASE Rearm
  BY <1>20 DEF Rearm, HandlerMoves, SetTimer
<1>21. ASSUME NEW id \in PhaseIds, Guess(id)
       PROVE  TypeInv'
  BY <1>21 DEF Guess
<1> QED
  BY <1>1, <1>2, <1>3, <1>4, <1>5, <1>6, <1>7, <1>8, <1>9, <1>10, <1>11,
     <1>12, <1>13, <1>14, <1>15, <1>16, <1>17, <1>18, <1>19, <1>20, <1>21
  DEF StubNext, MainStep, HandlerStep

(* A process that has the lock is reading or is about to give it back, and *)
(* one that has ended has not.                                             *)
Holding(q, reads) ==
  /\ q.handler \in Reading <=> reads
  /\ q.status # "alive" => q.handler \in {"none", "decide"}

LEMMA OneMoves ==
  ASSUME TypeInv, NEW a \in Analytics, UNCHANGED stubvars, UNCHANGED monitor_buffer,
         rwlock' \in [writing : BOOLEAN, readers : SUBSET Analytics],
         rwlock'.writing = rwlock.writing,
         rwlock'.writing => rwlock'.readers = {},
         NEW q \in Processes, proc' = [proc EXCEPT ![a] = q],
         Holding(q, a \in rwlock'.readers),
         \A b \in Analytics \ {a} : b \in rwlock'.readers <=> b \in rwlock.readers
  PROVE  TypeInv'
<1>1. /\ proc \in [Analytics -> Processes]
      /\ proc' = [b \in Analytics |-> IF b = a THEN q ELSE proc[b]]
  BY DEF TypeInv, SchedTypeOK
<1>2. proc' \in [Analytics -> Processes]
  BY <1>1
<1>3. StubTypeOK'
  BY DEF TypeInv, StubTypeOK, stubvars, Records
<1>4. SchedTypeOK'
  BY <1>2 DEF SchedTypeOK
<1>5. handler' = handler
  BY DEF stubvars
<1>6. LockInv'
  BY <1>1, <1>5 DEF TypeInv, LockInv, Holding
<1> QED
  BY <1>3, <1>4, <1>6 DEF TypeInv

(* ... most often without touching the lock.                               *)
LEMMA OneMovesAlone ==
  ASSUME TypeInv, NEW a \in Analytics, UNCHANGED stubvars, UNCHANGED buffer,
         NEW q \in Processes, proc' = [proc EXCEPT ![a] = q],
         Holding(q, proc[a].handler \in Reading)
  PROVE  TypeInv'
<1>1. Holding(q, a \in rwlock'.readers)
  BY DEF TypeInv, LockInv, buffer, Holding
<1> QED
  BY <1>1, OneMoves DEF TypeInv, LockInv, buffer

(* What a reading of the own counters leaves in the process.               *)
LEMMA ReadSelfMoves ==
  ASSUME proc \in [Analytics -> Processes], NEW a \in Analytics, ReadSelf(a)
  PROVE  /\ Runs(a) /\ proc[a].handler = "self" /\ UNCHANGED buffer
         /\ \A b \in Analytics \ {a} : proc'[b] = proc[b]
         /\ UNCHANGED <<proc[a].status, proc[a].stopped, proc[a].main, proc[a].interval,
                       proc[a].disable, proc[a].timer, proc[a].action, proc[a].copied,
                       proc[a].own>>
         /\ proc'[a].handler = "try"
         /\ proc'[a].self_window = proc[a].own - proc[a].old
         /\ proc'[a].old = proc[a].own
         /\ proc'[a].elapsed = proc[a].own - proc[a].since
         /\ proc'[a].since = proc[a].own
         /\ proc'[a].ticks = IF proc[a].ticks < 2 THEN proc[a].ticks + 1 ELSE proc[a].ticks
<1> DEFINE p == proc[a]
           q == [p EXCEPT !.handler = "try", !.self_window = p.own - p.old,
                          !.cur = p.old, !.old = p.own, !.elapsed = p.own - p.since,
                          !.since = p.own, !.ticks = IF @ < 2 THEN @ + 1 ELSE @]
<1>1. proc = [b \in Analytics |-> proc[b]] /\ p \in Processes
  OBVIOUS
<1>2. proc' = [proc EXCEPT ![a] = q] /\ UNCHANGED buffer
  BY <1>1 DEF ReadSelf
<1>3. proc'[a] = q /\ \A b \in Analytics \ {a} : proc'[b] = proc[b]
  BY <1>2
<1>4. Runs(a) /\ p.handler = "self"
  BY DEF ReadSelf, HandlerAt
<1>5. /\ UNCHANGED <<proc[a].status, proc[a].stopped, proc[a].main, proc[a].interval,
                    proc[a].disable, proc[a].timer, proc[a].action, proc[a].copied,
                    proc[a].own>>
      /\ q.handler = "try" /\ q.self_window = p.own - p.old /\ q.old = p.own
      /\ q.elapsed = p.own - p.since /\ q.since = p.own
      /\ q.ticks = IF p.ticks < 2 THEN p.ticks + 1 ELSE p.ticks
  BY <1>1, <1>3 DEF Processes
<1> QED
  BY <1>2, <1>3, <1>4, <1>5

(* What a scheduler being loaded, and one that returns from its handler,   *)
(* leave in the process.                                                   *)
LEMMA LoadMoves ==
  ASSUME proc \in [Analytics -> Processes], NEW a \in Analytics,
         NEW name \in SchedNames, NEW interval \in Intervals, Load(a, name, interval)
  PROVE  /\ proc[a].main = "new" /\ UNCHANGED buffer
         /\ \A b \in Analytics \ {a} : proc'[b] = proc[b]
         /\ UNCHANGED <<proc[a].handler, proc[a].copied, proc[a].disable,
                       proc[a].own, proc[a].old, proc[a].ticks>>
         /\ proc'[a].main = "loaded" /\ proc'[a].since = proc[a].own
         /\ proc'[a].interval = interval
         /\ 0 < interval /\ interval < 1000 => proc'[a].timer
<1> DEFINE p == proc[a]
           q == [p EXCEPT !.main = "loaded", !.name = name, !.interval = interval,
                          !.action = "handler", !.cur = p.own, !.since = p.own,
                          !.timer = ArmsFor(interval)]
<1>1. proc = [b \in Analytics |-> proc[b]] /\ p \in Processes
  OBVIOUS
<1>2. proc' = [proc EXCEPT ![a] = q] /\ UNCHANGED buffer /\ p.main = "new"
  BY <1>1 DEF Load, At
<1>3. proc'[a] = q /\ \A b \in Analytics \ {a} : proc'[b] = proc[b]
  BY <1>2
<1>4. /\ q.handler = p.handler /\ q.copied = p.copied /\ q.disable = p.disable
      /\ q.own = p.own /\ q.old = p.old /\ q.ticks = p.ticks
      /\ q.main = "loaded" /\ q.since = p.own
      /\ q.interval = interval /\ q.timer = ArmsFor(interval)
  BY <1>1 DEF Processes
<1>5. 0 < interval /\ interval < 1000 => ArmsFor(interval)
  BY SchedulerAssumption, MillisecondsArm
<1> QED
  BY <1>2, <1>3, <1>4, <1>5

LEMMA RearmMoves ==
  ASSUME proc \in [Analytics -> Processes], NEW a \in Analytics, SchedRearm(a)
  PROVE  /\ proc[a].handler = "rearm" /\ proc'[a].handler = "none" /\ UNCHANGED buffer
         /\ \A b \in Analytics \ {a} : proc'[b] = proc[b]
         /\ UNCHANGED <<proc[a].main, proc[a].interval, proc[a].disable, proc[a].action,
                       proc[a].own, proc[a].old, proc[a].since, proc[a].ticks,
                       proc[a].self_window, proc[a].elapsed>>
         /\ 0 < proc[a].interval /\ proc[a].interval < 1000 => proc'[a].timer
<1> DEFINE p == proc[a]
           q == [p EXCEPT !.handler = "none", !.timer = ArmsFor(p.interval),
                          !.tries = 0, !.copied = NothingCopied]
<1>1. proc = [b \in Analytics |-> proc[b]] /\ p \in Processes
  OBVIOUS
<1>2. proc' = [proc EXCEPT ![a] = q] /\ UNCHANGED buffer /\ p.handler = "rearm"
  BY <1>1 DEF SchedRearm, Goto, HandlerAt
<1>3. proc'[a] = q /\ \A b \in Analytics \ {a} : proc'[b] = proc[b]
  BY <1>2
<1>4. /\ q.main = p.main /\ q.interval = p.interval /\ q.disable = p.disable
      /\ q.action = p.action /\ q.own = p.own /\ q.old = p.old /\ q.since = p.since
      /\ q.ticks = p.ticks /\ q.self_window = p.self_window /\ q.elapsed = p.elapsed
      /\ q.handler = "none" /\ q.timer = ArmsFor(p.interval)
  BY <1>1 DEF Processes
<1>5. p.interval \in Int
  <2>1. p.interval \in Intervals \/ p.interval = 0
    BY <1>1 DEF Processes
  <2>2. \A interval \in Intervals : interval \in Int
    BY SchedulerAssumption
  <2> QED
    BY <2>1, <2>2
<1>6. 0 < p.interval /\ p.interval < 1000 => ArmsFor(p.interval)
  BY <1>5, MillisecondsArm
<1> HIDE DEF q
<1> QED
  BY <1>2, <1>3, <1>4, <1>6

(* A step of a scheduler keeps the types, and takes the lock only from     *)
(* readers.                                                                *)
LEMMA SchedTypes ==
  ASSUME TypeInv, WindowInv, SchedNext, UNCHANGED stubvars
  PROVE  TypeInv'
<1> SUFFICES ASSUME NEW a \in Analytics,
                    \/ Work(a) \/ Stop(a) \/ Continue(a)
                    \/ LoadStep(a) \/ FinalizeStep(a)
                    \/ SchedExpire(a) \/ SchedHandlerStep(a)
             PROVE  TypeInv'
  BY DEF SchedNext
<1> DEFINE p == proc[a]
<1>1. p \in Processes
  BY DEF TypeInv, SchedTypeOK
<1>2. proc = [b \in Analytics |-> proc[b]]
  BY DEF TypeInv, SchedTypeOK
<1>3. p.status # "alive" => p.handler \in {"none", "decide"}
  BY DEF TypeInv, LockInv
<1>4. CASE Work(a)
  <2> DEFINE q == [p EXCEPT !.own = @ + 1]
  <2>1. proc' = [proc EXCEPT ![a] = q] /\ UNCHANGED buffer
    BY <1>4, <1>2 DEF Work
  <2>2. p.own + 1 \in 0 .. MaxOwnCounter
    BY <1>4, <1>1, SchedulerAssumption, PhaseIdsAssumption DEF Work, Processes
  <2>3. q \in Processes
    BY <2>2, <1>1 DEF Processes
  <2>4. Holding(q, p.handler \in Reading)
    BY <1>4, <1>1, <1>3 DEF Work, Runs, Processes, Holding, Reading
  <2> QED
    BY <2>1, <2>3, <2>4, OneMovesAlone
<1>5. CASE Stop(a)
  <2> DEFINE q == [p EXCEPT !.stopped = TRUE]
  <2>1. proc' = [proc EXCEPT ![a] = q] /\ UNCHANGED buffer
    BY <1>5, <1>2 DEF Stop
  <2>2. q \in Processes
    BY <1>1 DEF Processes
  <2>3. Holding(q, p.handler \in Reading)
    BY <1>5, <1>1, <1>3 DEF Stop, Runs, Processes, Holding, Reading
  <2> QED
    BY <2>1, <2>2, <2>3, OneMovesAlone
<1>6. CASE Continue(a)
  <2> DEFINE q == [p EXCEPT !.stopped = FALSE]
  <2>1. proc' = [proc EXCEPT ![a] = q] /\ UNCHANGED buffer
    BY <1>6, <1>2 DEF Continue
  <2>2. q \in Processes
    BY <1>1 DEF Processes
  <2>3. Holding(q, p.handler \in Reading)
    BY <1>6, <1>1, <1>3 DEF Continue, Processes, Holding, Reading
  <2> QED
    BY <2>1, <2>2, <2>3, OneMovesAlone
<1>7. CASE LoadNull(a)
  <2> DEFINE q == [p EXCEPT !.status = "faulted"]
  <2>1. proc' = [proc EXCEPT ![a] = q] /\ UNCHANGED buffer
    BY <1>7, <1>2 DEF LoadNull
  <2>2. q \in Processes
    BY <1>1 DEF Processes
  <2>3. Holding(q, p.handler \in Reading)
    BY <1>7, <1>1, <1>3 DEF LoadNull, At, Runs, Processes, Holding, Reading
  <2> QED
    BY <2>1, <2>2, <2>3, OneMovesAlone
<1>8. CASE FinalizeNone(a)
  <2> DEFINE q == [p EXCEPT !.main = "finalized"]
  <2>1. proc' = [proc EXCEPT ![a] = q] /\ UNCHANGED buffer
    BY <1>8, <1>2 DEF FinalizeNone
  <2>2. q \in Processes
    BY <1>1 DEF Processes
  <2>3. Holding(q, p.handler \in Reading)
    BY <1>8, <1>1, <1>3 DEF FinalizeNone, At, Runs, Processes, Holding, Reading
  <2> QED
    BY <2>1, <2>2, <2>3, OneMovesAlone
<1>9. CASE SchedDisable(a)
  <2> DEFINE q == [p EXCEPT !.main = "restore", !.disable = TRUE]
  <2>1. proc' = [proc EXCEPT ![a] = q] /\ UNCHANGED buffer
    BY <1>9, <1>2 DEF SchedDisable
  <2>2. q \in Processes
    BY <1>1 DEF Processes
  <2>3. Holding(q, p.handler \in Reading)
    BY <1>9, <1>1, <1>3 DEF SchedDisable, At, Runs, Processes, Holding, Reading
  <2> QED
    BY <2>1, <2>2, <2>3, OneMovesAlone
<1>10. CASE SchedRestore(a)
  <2> DEFINE q == [p EXCEPT !.main = "finalized", !.action = "default"]
  <2>1. proc' = [proc EXCEPT ![a] = q] /\ UNCHANGED buffer
    BY <1>10, <1>2 DEF SchedRestore
  <2>2. q \in Processes
    BY <1>1 DEF Processes
  <2>3. Holding(q, p.handler \in Reading)
    BY <1>10, <1>1, <1>3 DEF SchedRestore, At, Runs, Processes, Holding, Reading
  <2> QED
    BY <2>1, <2>2, <2>3, OneMovesAlone
<1>11. CASE SchedExpire(a)
  <2> DEFINE q == [p EXCEPT !.timer = FALSE,
                        !.status = IF p.action = "default" THEN "killed" ELSE @,
                        !.handler = IF p.action = "default" THEN @ ELSE "check"]
  <2>1. proc' = [proc EXCEPT ![a] = q] /\ UNCHANGED buffer
    BY <1>11, <1>2 DEF SchedExpire
  <2>2. q \in Processes
    <3>1. CASE p.action = "default"
      BY <3>1, <1>1, ZenonT(30) DEF Processes
    <3>2. CASE p.action # "default"
      BY <3>2, <1>1, ZenonT(30) DEF Processes
    <3> QED
      BY <3>1, <3>2
  <2>3. Holding(q, p.handler \in Reading)
    BY <1>11, <1>1, <1>3 DEF SchedExpire, HandlerAt, Runs, Processes, Holding, Reading
  <2> QED
    BY <2>1, <2>2, <2>3, OneMovesAlone
<1>12. CASE SchedCheck(a)
  <2> DEFINE q == [p EXCEPT !.handler = IF p.disable THEN "none" ELSE "self"]
  <2>1. proc' = [proc EXCEPT ![a] = q] /\ UNCHANGED buffer
    BY <1>12, <1>2 DEF SchedCheck, Goto
  <2>2. q \in Processes
    BY <1>1 DEF Processes
  <2>3. Holding(q, p.handler \in Reading)
    BY <1>12, <1>1, <1>3 DEF SchedCheck, HandlerAt, Runs, Processes, Holding, Reading
  <2> QED
    BY <2>1, <2>2, <2>3, OneMovesAlone
<1>13. CASE ReadSelf(a)
  <2> DEFINE w == p.own - p.old
             e == p.own - p.since
             n == IF p.ticks < 2 THEN p.ticks + 1 ELSE p.ticks
             q == [p EXCEPT !.handler = "try", !.self_window = w,
                            !.cur = p.old, !.old = p.own, !.elapsed = e,
                            !.since = p.own, !.ticks = n]
  <2>1. proc' = [proc EXCEPT ![a] = q] /\ UNCHANGED buffer
    BY <1>13, <1>2 DEF ReadSelf
  <2>2. w \in 0 .. MaxOwnCounter /\ e \in 0 .. MaxOwnCounter /\ n \in 0 .. 2
    BY <1>13, <1>1, SchedulerAssumption DEF Processes, WindowInv
  <2> HIDE DEF w, e, n
  <2>3. q \in Processes
    BY <2>2, <1>1 DEF Processes
  <2>4. Holding(q, p.handler \in Reading)
    BY <1>13, <1>1, <1>3 DEF ReadSelf, HandlerAt, Runs, Processes, Holding, Reading
  <2> QED
    BY <2>1, <2>3, <2>4, OneMovesAlone
<1>14. CASE ReadLock(a)
  <2> DEFINE q == [p EXCEPT !.handler = "copy_id"]
  <2>1. proc' = [proc EXCEPT ![a] = q] /\ UNCHANGED monitor_buffer
    BY <1>14, <1>2 DEF ReadLock, Goto
  <2>2. q \in Processes
    BY <1>1 DEF Processes
  <2>3. Holding(q, TRUE)
    BY <1>14, <1>1, <1>3 DEF ReadLock, HandlerAt, Runs, Processes, Holding, Reading
  <2>4. rwlock' = [rwlock EXCEPT !.readers = rwlock.readers \cup {a}] /\ ~rwlock.writing
    BY <1>14 DEF ReadLock, rdlock, Readable
  <2>5. rwlock \in [writing : BOOLEAN, readers : SUBSET Analytics]
        /\ (rwlock.writing => rwlock.readers = {})
    BY DEF TypeInv, LockInv
  <2>6. /\ rwlock' \in [writing : BOOLEAN, readers : SUBSET Analytics]
        /\ rwlock'.writing = rwlock.writing
        /\ rwlock'.writing => rwlock'.readers = {}
        /\ a \in rwlock'.readers
        /\ \A b \in Analytics \ {a} : b \in rwlock'.readers <=> b \in rwlock.readers
    BY <2>4, <2>5
  <2>7. Holding(q, a \in rwlock'.readers)
    BY <2>3, <2>6 DEF Holding
  <2> QED
    BY <2>1, <2>2, <2>6, <2>7, OneMoves
<1>15. CASE ReadLockBusy(a)
  <2> DEFINE q == [p EXCEPT !.tries = @ + 1]
  <2>1. proc' = [proc EXCEPT ![a] = q] /\ UNCHANGED buffer
    BY <1>15, <1>2 DEF ReadLockBusy
  <2>2. p.tries + 1 \in 0 .. num_read_lock_tries
    BY <1>15, <1>1, SchedulerAssumption, PhaseIdsAssumption DEF ReadLockBusy, Processes
  <2>3. q \in Processes
    BY <2>2, <1>1 DEF Processes
  <2>4. Holding(q, p.handler \in Reading)
    BY <1>15, <1>1, <1>3 DEF ReadLockBusy, HandlerAt, Runs, Processes, Holding, Reading
  <2> QED
    BY <2>1, <2>3, <2>4, OneMovesAlone
<1>16. CASE ReadGiveUp(a)
  <2> DEFINE q == [p EXCEPT !.handler = "decide"]
  <2>1. proc' = [proc EXCEPT ![a] = q] /\ UNCHANGED buffer
    BY <1>16, <1>2 DEF ReadGiveUp, Goto
  <2>2. q \in Processes
    BY <1>1 DEF Processes
  <2>3. Holding(q, p.handler \in Reading)
    BY <1>16, <1>1, <1>3 DEF ReadGiveUp, HandlerAt, Runs, Processes, Holding, Reading
  <2> QED
    BY <2>1, <2>2, <2>3, OneMovesAlone
<1>17. CASE CopyId(a)
  <2> DEFINE q == [p EXCEPT !.handler = "copy_value",
                        !.copied.phase_id = monitor_buffer.phase_id]
  <2>1. proc' = [proc EXCEPT ![a] = q] /\ UNCHANGED buffer
    BY <1>17, <1>2 DEF CopyId, Goto
  <2>2. monitor_buffer.phase_id \in PhaseIds
    BY <1>17, <1>1, SchedulerAssumption, PhaseIdsAssumption DEF TypeInv, StubTypeOK, Records
  <2>3. q \in Processes
    BY <2>2, <1>1 DEF Processes
  <2>4. Holding(q, p.handler \in Reading)
    BY <1>17, <1>1, <1>3 DEF CopyId, HandlerAt, Runs, Processes, Holding, Reading
  <2> QED
    BY <2>1, <2>3, <2>4, OneMovesAlone
<1>18. CASE CopyValue(a)
  <2> DEFINE q == [p EXCEPT !.handler = "unlock",
                        !.copied.value = monitor_buffer.value]
  <2>1. proc' = [proc EXCEPT ![a] = q] /\ UNCHANGED buffer
    BY <1>18, <1>2 DEF CopyValue, Goto
  <2>2. monitor_buffer.value \in Int
    BY <1>18, <1>1, SchedulerAssumption, PhaseIdsAssumption DEF TypeInv, StubTypeOK, Records
  <2>3. q \in Processes
    BY <2>2, <1>1 DEF Processes
  <2>4. Holding(q, p.handler \in Reading)
    BY <1>18, <1>1, <1>3 DEF CopyValue, HandlerAt, Runs, Processes, Holding, Reading
  <2> QED
    BY <2>1, <2>3, <2>4, OneMovesAlone
<1>19. CASE ReadUnlock(a)
  <2> DEFINE q == [p EXCEPT !.handler = "decide"]
  <2>1. proc' = [proc EXCEPT ![a] = q] /\ UNCHANGED monitor_buffer
    BY <1>19, <1>2 DEF ReadUnlock, Goto
  <2>2. q \in Processes
    BY <1>1 DEF Processes
  <2>3. Holding(q, FALSE)
    BY <1>19, <1>1, <1>3 DEF ReadUnlock, HandlerAt, Runs, Processes, Holding, Reading
  <2>4. rwlock' = [rwlock EXCEPT !.readers = rwlock.readers \ {a}]
    BY <1>19 DEF ReadUnlock, rdunlock
  <2>5. rwlock \in [writing : BOOLEAN, readers : SUBSET Analytics]
        /\ (rwlock.writing => rwlock.readers = {})
    BY DEF TypeInv, LockInv
  <2>6. /\ rwlock' \in [writing : BOOLEAN, readers : SUBSET Analytics]
        /\ rwlock'.writing = rwlock.writing
        /\ rwlock'.writing => rwlock'.readers = {}
        /\ a \notin rwlock'.readers
        /\ \A b \in Analytics \ {a} : b \in rwlock'.readers <=> b \in rwlock.readers
    BY <2>4, <2>5
  <2>7. Holding(q, a \in rwlock'.readers)
    BY <2>3, <2>6 DEF Holding
  <2> QED
    BY <2>1, <2>2, <2>6, <2>7, OneMoves
<1>20. CASE Decide(a)
  <2>1. /\ p.handler = "decide" /\ p.status = "alive" /\ UNCHANGED buffer
        /\ \/ proc' = [proc EXCEPT ![a] = [p EXCEPT !.status = "faulted"]]
           \/ proc' = [proc EXCEPT ![a] = [p EXCEPT !.handler = "rearm"]]
    BY <1>20, <1>2 DEF Decide, HandlerAt, Runs, Goto
  <2>2. /\ [p EXCEPT !.status = "faulted"] \in Processes
        /\ [p EXCEPT !.handler = "rearm"] \in Processes
    BY <1>1 DEF Processes
  <2>3. /\ Holding([p EXCEPT !.status = "faulted"], p.handler \in Reading)
        /\ Holding([p EXCEPT !.handler = "rearm"], p.handler \in Reading)
    BY <2>1, <1>1 DEF Processes, Holding, Reading
  <2> QED
    BY <2>1, <2>2, <2>3, OneMovesAlone
<1>21. CASE SchedRearm(a)
  <2> DEFINE q == [p EXCEPT !.handler = "none",
                        !.timer = ArmsFor(p.interval),
                        !.tries = 0, !.copied = NothingCopied]
  <2>1. proc' = [proc EXCEPT ![a] = q] /\ UNCHANGED buffer
    BY <1>21, <1>2 DEF SchedRearm, Goto
  <2>2. /\ 0 \in 0 .. num_read_lock_tries
        /\ NothingCopied \in [phase_id : PhaseIds, value : Int]
    BY SchedulerAssumption, PhaseIdsAssumption DEF NothingCopied
  <2>3. ArmsFor(p.interval) \in BOOLEAN
    BY DEF ArmsFor, Arms
  <2>4. q \in Processes
    BY <2>2, <2>3, <1>1 DEF Processes
  <2>5. Holding(q, p.handler \in Reading)
    BY <1>21, <1>1, <1>3 DEF SchedRearm, HandlerAt, Runs, Processes, Holding, Reading
  <2> QED
    BY <2>1, <2>4, <2>5, OneMovesAlone
<1>22. ASSUME NEW name \in SchedNames, LoadNone(a, name)
      PROVE  TypeInv'
  <2> DEFINE q == [p EXCEPT !.main = "loaded"]
  <2>1. proc' = [proc EXCEPT ![a] = q] /\ UNCHANGED buffer
    BY <1>22, <1>2 DEF LoadNone
  <2>2. q \in Processes
    BY <1>1 DEF Processes
  <2>3. Holding(q, p.handler \in Reading)
    BY <1>22, <1>1, <1>3 DEF LoadNone, At, Runs, Processes, Holding, Reading
  <2> QED
    BY <2>1, <2>2, <2>3, OneMovesAlone
<1>23. ASSUME NEW name \in SchedNames, LoadNoWindows(a, name)
      PROVE  TypeInv'
  <2> DEFINE q == [p EXCEPT !.main = "loaded", !.name = name]
  <2>1. proc' = [proc EXCEPT ![a] = q] /\ UNCHANGED buffer
    BY <1>23, <1>2 DEF LoadNoWindows
  <2>2. name \in Known
    BY <1>23, <1>1, SchedulerAssumption, PhaseIdsAssumption DEF LoadNoWindows
  <2>3. q \in Processes
    BY <2>2, <1>1 DEF Processes
  <2>4. Holding(q, p.handler \in Reading)
    BY <1>23, <1>1, <1>3 DEF LoadNoWindows, At, Runs, Processes, Holding, Reading
  <2> QED
    BY <2>1, <2>3, <2>4, OneMovesAlone
<1>24. ASSUME NEW name \in SchedNames, NEW interval \in Intervals, Load(a, name, interval)
      PROVE  TypeInv'
  <2> DEFINE q == [p EXCEPT !.main = "loaded", !.name = name, !.interval = interval,
                        !.action = "handler", !.cur = p.own, !.since = p.own,
                        !.timer = ArmsFor(interval)]
  <2>1. proc' = [proc EXCEPT ![a] = q] /\ UNCHANGED buffer
    BY <1>24, <1>2 DEF Load
  <2>2. name \in Known
    BY <1>24 DEF Load
  <2>3. ArmsFor(interval) \in BOOLEAN
    BY DEF ArmsFor, Arms
  <2>4. q \in Processes
    BY <2>2, <2>3, <1>1 DEF Processes
  <2>5. Holding(q, p.handler \in Reading)
    BY <1>24, <1>1, <1>3 DEF Load, At, Runs, Processes, Holding, Reading
  <2> QED
    BY <2>1, <2>4, <2>5, OneMovesAlone
<1> QED
  BY <1>4, <1>5, <1>6, <1>7, <1>8, <1>9, <1>10, <1>11, <1>12, <1>13, <1>14,
     <1>15, <1>16, <1>17, <1>18, <1>19, <1>20, <1>21, <1>22, <1>23, <1>24
  DEF LoadStep, FinalizeStep, SchedHandlerStep

(* Each step of the handler turns one reading into the next interval.      *)
LEMMA StubIntervals ==
  ASSUME HandlerOnMain, TypeInv, TimerInv, IntervalInv, StubNext
  PROVE  IntervalInv'
<1> USE 
    DEF TypeInv, StubTypeOK, LockInv, IntervalInv, TimerInv, Ended, Records, Writing, buffer, pointers, aux, record
<1>1. ASSUME NEW id \in PhaseIds, PhaseStart(id)
      PROVE  IntervalInv'
  BY <1>1 DEF PhaseStart, MainMoves
<1>2. CASE Count
  BY <1>2 DEF Count
<1>3. CASE Reset
  BY <1>3 DEF Reset, MainMoves
<1>4. CASE Enable
  BY <1>4 DEF Enable, MainMoves
<1>5. CASE Arm
  BY <1>5 DEF Arm, MainMoves
<1>6. CASE Disable
  BY <1>6 DEF Disable, MainMoves
<1>7. CASE Disarm
  BY <1>7 DEF Disarm, MainMoves
<1>8. CASE StubFinalize
  BY <1>8 DEF StubFinalize, MainMoves
<1>9. CASE Expire
  BY <1>9 DEF Expire
<1>10. CASE Check
  BY <1>10 DEF Check, HandlerMoves
<1>11. CASE ReadCounters
  BY <1>11 DEF ReadCounters, HandlerMoves
<1>12. CASE Subtract
  BY <1>12 DEF Subtract, HandlerMoves
<1>13. CASE Lock
  BY <1>13 DEF Lock, HandlerMoves, wrlock, Writable
<1>14. CASE LockBusy
  BY <1>14 DEF LockBusy, HandlerMoves, Writable
<1>15. CASE GiveUp
  BY <1>15 DEF GiveUp, HandlerMoves
<1>16. CASE PutId
  BY <1>16 DEF PutId, HandlerMoves
<1>17. CASE PutValue
  BY <1>17 DEF PutValue, HandlerMoves
<1>18. CASE Unlock
  BY <1>18 DEF Unlock, HandlerMoves, wrunlock
<1>19. CASE Swap
  BY <1>19 DEF Swap, HandlerMoves
<1>20. CASE Rearm
  BY <1>20 DEF Rearm, HandlerMoves
<1>21. ASSUME NEW id \in PhaseIds, Guess(id)
       PROVE  IntervalInv'
  BY <1>21 DEF Guess
<1> QED
  BY <1>1, <1>2, <1>3, <1>4, <1>5, <1>6, <1>7, <1>8, <1>9, <1>10, <1>11,
     <1>12, <1>13, <1>14, <1>15, <1>16, <1>17, <1>18, <1>19, <1>20, <1>21
  DEF StubNext, MainStep, HandlerStep

(* While the handler runs the main thread does not move.                   *)
LEMMA StubTimer ==
  ASSUME HandlerOnMain, TypeInv, TimerInv, StubNext
  PROVE  TimerInv'
<1> USE 
    DEF TypeInv, StubTypeOK, TimerInv, buffer, pointers, aux
<1>1. ASSUME NEW id \in PhaseIds, PhaseStart(id)
      PROVE  TimerInv'
  BY <1>1 DEF PhaseStart, MainMoves
<1>2. CASE Count
  BY <1>2 DEF Count
<1>3. CASE Reset
  BY <1>3 DEF Reset, MainMoves
<1>4. CASE Enable
  BY <1>4 DEF Enable, MainMoves
<1>5. CASE Arm
  BY <1>5 DEF Arm, MainMoves, SetTimer
<1>6. CASE Disable
  BY <1>6 DEF Disable, MainMoves
<1>7. CASE Disarm
  BY <1>7, Stopped DEF Disarm, MainMoves
<1>8. CASE StubFinalize
  BY <1>8 DEF StubFinalize, MainMoves
<1>9. CASE Expire
  BY <1>9 DEF Expire
<1>10. CASE Check
  BY <1>10 DEF Check, HandlerMoves
<1>11. CASE ReadCounters
  BY <1>11 DEF ReadCounters, HandlerMoves
<1>12. CASE Subtract
  BY <1>12 DEF Subtract, HandlerMoves
<1>13. CASE Lock
  BY <1>13 DEF Lock, HandlerMoves, wrlock, Writable
<1>14. CASE LockBusy
  BY <1>14 DEF LockBusy, HandlerMoves, Writable
<1>15. CASE GiveUp
  BY <1>15 DEF GiveUp, HandlerMoves
<1>16. CASE PutId
  BY <1>16 DEF PutId, HandlerMoves
<1>17. CASE PutValue
  BY <1>17 DEF PutValue, HandlerMoves
<1>18. CASE Unlock
  BY <1>18 DEF Unlock, HandlerMoves, wrunlock
<1>19. CASE Swap
  BY <1>19 DEF Swap, HandlerMoves
<1>20. CASE Rearm
  BY <1>20 DEF Rearm, HandlerMoves, SetTimer
<1>21. ASSUME NEW id \in PhaseIds, Guess(id)
       PROVE  TimerInv'
  BY <1>21 DEF Guess
<1> QED
  BY <1>1, <1>2, <1>3, <1>4, <1>5, <1>6, <1>7, <1>8, <1>9, <1>10, <1>11,
     <1>12, <1>13, <1>14, <1>15, <1>16, <1>17, <1>18, <1>19, <1>20, <1>21
  DEF StubNext, MainStep, HandlerStep

(* The handler writes the buffer only where nobody is copying it.          *)
LEMMA StubCopies ==
  ASSUME TypeInv, CopyInv, StubNext, UNCHANGED proc
  PROVE  CopyInv'
<1> USE 
    DEF TypeInv, StubTypeOK, LockInv, CopyInv, Reading, Writing, Records, buffer, pointers, aux
<1>1. ASSUME NEW id \in PhaseIds, PhaseStart(id)
      PROVE  CopyInv'
  BY <1>1 DEF PhaseStart, MainMoves
<1>2. CASE Count
  BY <1>2 DEF Count
<1>3. CASE Reset
  BY <1>3 DEF Reset, MainMoves
<1>4. CASE Enable
  BY <1>4 DEF Enable, MainMoves
<1>5. CASE Arm
  BY <1>5 DEF Arm, MainMoves
<1>6. CASE Disable
  BY <1>6 DEF Disable, MainMoves
<1>7. CASE Disarm
  BY <1>7 DEF Disarm, MainMoves
<1>8. CASE StubFinalize
  BY <1>8 DEF StubFinalize, MainMoves
<1>9. CASE Expire
  BY <1>9 DEF Expire
<1>10. CASE Check
  BY <1>10 DEF Check, HandlerMoves
<1>11. CASE ReadCounters
  BY <1>11 DEF ReadCounters, HandlerMoves
<1>12. CASE Subtract
  BY <1>12 DEF Subtract, HandlerMoves
<1>13. CASE Lock
  BY <1>13 DEF Lock, HandlerMoves, wrlock, Writable
<1>14. CASE LockBusy
  BY <1>14 DEF LockBusy, HandlerMoves, Writable
<1>15. CASE GiveUp
  BY <1>15 DEF GiveUp, HandlerMoves
<1>16. CASE PutId
  BY <1>16 DEF PutId, HandlerMoves
<1>17. CASE PutValue
  BY <1>17 DEF PutValue, HandlerMoves
<1>18. CASE Unlock
  BY <1>18 DEF Unlock, HandlerMoves, wrunlock
<1>19. CASE Swap
  BY <1>19 DEF Swap, HandlerMoves
<1>20. CASE Rearm
  BY <1>20 DEF Rearm, HandlerMoves
<1>21. ASSUME NEW id \in PhaseIds, Guess(id)
       PROVE  CopyInv'
  BY <1>21 DEF Guess
<1> QED
  BY <1>1, <1>2, <1>3, <1>4, <1>5, <1>6, <1>7, <1>8, <1>9, <1>10, <1>11,
     <1>12, <1>13, <1>14, <1>15, <1>16, <1>17, <1>18, <1>19, <1>20, <1>21
  DEF StubNext, MainStep, HandlerStep

(* A scheduler copies field by field.                                      *)
LEMMA SchedCopies ==
  ASSUME TypeInv, CopyInv, SchedNext, UNCHANGED stubvars
  PROVE  CopyInv'
<1> USE DEF TypeInv, LockInv, SchedTypeOK, Processes, Known, Reading, Writing, buffer, CopyInv, StubTypeOK, Records
<1> SUFFICES ASSUME NEW a \in Analytics,
                    \/ Work(a) \/ Stop(a) \/ Continue(a)
                    \/ LoadStep(a) \/ FinalizeStep(a)
                    \/ SchedExpire(a) \/ SchedHandlerStep(a)
             PROVE  CopyInv'
  BY DEF SchedNext
<1>1. CASE Work(a)
  BY <1>1 DEF Work, Runs
<1>2. CASE Stop(a)
  BY <1>2 DEF Stop, Runs
<1>3. CASE Continue(a)
  BY <1>3 DEF Continue
<1>4. CASE LoadNull(a)
  BY <1>4 DEF LoadNull, At, Runs
<1>5. CASE FinalizeNone(a)
  BY <1>5 DEF FinalizeNone, At, Runs
<1>6. CASE SchedDisable(a)
  BY <1>6 DEF SchedDisable, At, Runs
<1>7. CASE SchedRestore(a)
  BY <1>7 DEF SchedRestore, At, Runs
<1>8. CASE SchedExpire(a)
  BY <1>8 DEF SchedExpire, HandlerAt, Runs
<1>9. CASE SchedCheck(a)
  BY <1>9 DEF SchedCheck, HandlerAt, Runs, Goto
<1>10. CASE ReadSelf(a)
  BY <1>10, ReadSelfMoves DEF Runs
<1>11. CASE ReadLock(a)
  BY <1>11 DEF ReadLock, HandlerAt, Runs, Goto, rdlock, Readable
<1>12. CASE ReadLockBusy(a)
  BY <1>12 DEF ReadLockBusy, HandlerAt, Runs, Readable
<1>13. CASE ReadGiveUp(a)
  BY <1>13 DEF ReadGiveUp, HandlerAt, Runs, Goto
<1>14. CASE CopyId(a)
  BY <1>14 DEF CopyId, HandlerAt, Runs, Goto
<1>15. CASE CopyValue(a)
  BY <1>15 DEF CopyValue, HandlerAt, Runs, Goto
<1>16. CASE ReadUnlock(a)
  BY <1>16 DEF ReadUnlock, HandlerAt, Runs, Goto, rdunlock
<1>17. CASE Decide(a)
  <2>1. CASE proc[a].name = "contention"
    BY <1>17, <2>1 DEF Decide, HandlerAt, Runs
  <2>2. CASE proc[a].name # "contention"
    BY <1>17, <2>2 DEF Decide, HandlerAt, Runs, Goto
  <2> QED
    BY <2>1, <2>2
<1>18. CASE SchedRearm(a)
  BY <1>18, RearmMoves
<1>19. ASSUME NEW name \in SchedNames, LoadNone(a, name) \/ LoadNoWindows(a, name)
      PROVE  CopyInv'
  <2>1. CASE LoadNone(a, name)
    BY <2>1 DEF LoadNone, At, Runs
  <2>2. CASE LoadNoWindows(a, name)
    BY <2>2 DEF LoadNoWindows, At, Runs
  <2> QED
    BY <1>19, <2>1, <2>2
<1>20. ASSUME NEW name \in SchedNames, NEW interval \in Intervals, Load(a, name, interval)
      PROVE  CopyInv'
  BY <1>20, LoadMoves
<1> QED
  BY <1>1, <1>2, <1>3, <1>4, <1>5, <1>6, <1>7, <1>8, <1>9, <1>10, <1>11,
     <1>12, <1>13, <1>14, <1>15, <1>16, <1>17, <1>18, <1>19, <1>20
  DEF LoadStep, FinalizeStep, SchedHandlerStep

(* The own counters grow, and a tick takes down where they are.            *)
LEMMA SchedWindows ==
  ASSUME TypeInv, WindowInv, SchedNext
  PROVE  WindowInv'
<1> USE SchedulerAssumption 
    DEF TypeInv, SchedTypeOK, Processes, WindowInv
<1> SUFFICES ASSUME NEW a \in Analytics,
                    \/ Work(a) \/ Stop(a) \/ Continue(a)
                    \/ LoadStep(a) \/ FinalizeStep(a)
                    \/ SchedExpire(a) \/ SchedHandlerStep(a)
             PROVE  WindowInv'
  BY DEF SchedNext
<1>1. CASE Work(a)
  BY <1>1 DEF Work, Runs
<1>2. CASE Stop(a)
  BY <1>2 DEF Stop, Runs
<1>3. CASE Continue(a)
  BY <1>3 DEF Continue
<1>4. CASE LoadNull(a)
  BY <1>4 DEF LoadNull, At, Runs
<1>5. CASE FinalizeNone(a)
  BY <1>5 DEF FinalizeNone, At, Runs
<1>6. CASE SchedDisable(a)
  BY <1>6 DEF SchedDisable, At, Runs
<1>7. CASE SchedRestore(a)
  BY <1>7 DEF SchedRestore, At, Runs
<1>8. CASE SchedExpire(a)
  BY <1>8 DEF SchedExpire, HandlerAt, Runs
<1>9. CASE SchedCheck(a)
  BY <1>9 DEF SchedCheck, HandlerAt, Runs, Goto
<1>10. CASE ReadSelf(a)
  BY <1>10, ReadSelfMoves DEF Runs
<1>11. CASE ReadLock(a)
  BY <1>11 DEF ReadLock, HandlerAt, Runs, Goto, rdlock, Readable
<1>12. CASE ReadLockBusy(a)
  BY <1>12 DEF ReadLockBusy, HandlerAt, Runs, Readable
<1>13. CASE ReadGiveUp(a)
  BY <1>13 DEF ReadGiveUp, HandlerAt, Runs, Goto
<1>14. CASE CopyId(a)
  BY <1>14 DEF CopyId, HandlerAt, Runs, Goto
<1>15. CASE CopyValue(a)
  BY <1>15 DEF CopyValue, HandlerAt, Runs, Goto
<1>16. CASE ReadUnlock(a)
  BY <1>16 DEF ReadUnlock, HandlerAt, Runs, Goto, rdunlock
<1>17. CASE Decide(a)
  <2>1. CASE proc[a].name = "contention"
    BY <1>17, <2>1 DEF Decide, HandlerAt, Runs
  <2>2. CASE proc[a].name # "contention"
    BY <1>17, <2>2 DEF Decide, HandlerAt, Runs, Goto
  <2> QED
    BY <2>1, <2>2
<1>18. CASE SchedRearm(a)
  BY <1>18, RearmMoves
<1>19. ASSUME NEW name \in SchedNames, LoadNone(a, name) \/ LoadNoWindows(a, name)
      PROVE  WindowInv'
  <2>1. CASE LoadNone(a, name)
    BY <2>1 DEF LoadNone, At, Runs
  <2>2. CASE LoadNoWindows(a, name)
    BY <2>2 DEF LoadNoWindows, At, Runs
  <2> QED
    BY <1>19, <2>1, <2>2
<1>20. ASSUME NEW name \in SchedNames, NEW interval \in Intervals, Load(a, name, interval)
      PROVE  WindowInv'
  BY <1>20, LoadMoves
<1> QED
  BY <1>1, <1>2, <1>3, <1>4, <1>5, <1>6, <1>7, <1>8, <1>9, <1>10, <1>11,
     <1>12, <1>13, <1>14, <1>15, <1>16, <1>17, <1>18, <1>19, <1>20
  DEF LoadStep, FinalizeStep, SchedHandlerStep

(* A tick arms the timer again unless the scheduler is being finalized.    *)
LEMMA SchedTimer ==
  ASSUME TypeInv, TickInv, SchedNext
  PROVE  TickInv'
<1> USE SchedulerAssumption 
    DEF TypeInv, SchedTypeOK, Processes, TickInv, Ticking
<1> SUFFICES ASSUME NEW a \in Analytics,
                    \/ Work(a) \/ Stop(a) \/ Continue(a)
                    \/ LoadStep(a) \/ FinalizeStep(a)
                    \/ SchedExpire(a) \/ SchedHandlerStep(a)
             PROVE  TickInv'
  BY DEF SchedNext
<1>1. CASE Work(a)
  BY <1>1 DEF Work, Runs
<1>2. CASE Stop(a)
  BY <1>2 DEF Stop, Runs
<1>3. CASE Continue(a)
  BY <1>3 DEF Continue
<1>4. CASE LoadNull(a)
  BY <1>4 DEF LoadNull, At, Runs
<1>5. CASE FinalizeNone(a)
  BY <1>5 DEF FinalizeNone, At, Runs
<1>6. CASE SchedDisable(a)
  BY <1>6 DEF SchedDisable, At, Runs
<1>7. CASE SchedRestore(a)
  BY <1>7 DEF SchedRestore, At, Runs
<1>8. CASE SchedExpire(a)
  BY <1>8 DEF SchedExpire, HandlerAt, Runs
<1>9. CASE SchedCheck(a)
  BY <1>9 DEF SchedCheck, HandlerAt, Runs, Goto
<1>10. CASE ReadSelf(a)
  <2>1. /\ proc'[a].handler = "try" /\ proc[a].handler = "self"
        /\ UNCHANGED <<proc[a].disable, proc[a].main>>
        /\ \A b \in Analytics \ {a} : proc'[b] = proc[b]
    BY <1>10, ReadSelfMoves
  <2> QED
    BY <2>1
<1>11. CASE ReadLock(a)
  BY <1>11 DEF ReadLock, HandlerAt, Runs, Goto, rdlock, Readable
<1>12. CASE ReadLockBusy(a)
  BY <1>12 DEF ReadLockBusy, HandlerAt, Runs, Readable
<1>13. CASE ReadGiveUp(a)
  BY <1>13 DEF ReadGiveUp, HandlerAt, Runs, Goto
<1>14. CASE CopyId(a)
  BY <1>14 DEF CopyId, HandlerAt, Runs, Goto
<1>15. CASE CopyValue(a)
  BY <1>15 DEF CopyValue, HandlerAt, Runs, Goto
<1>16. CASE ReadUnlock(a)
  BY <1>16 DEF ReadUnlock, HandlerAt, Runs, Goto, rdunlock
<1>17. CASE Decide(a)
  <2>1. CASE proc[a].name = "contention"
    BY <1>17, <2>1 DEF Decide, HandlerAt, Runs
  <2>2. CASE proc[a].name # "contention"
    BY <1>17, <2>2 DEF Decide, HandlerAt, Runs, Goto
  <2> QED
    BY <2>1, <2>2
<1>18. CASE SchedRearm(a)
  BY <1>18, RearmMoves
<1>19. ASSUME NEW name \in SchedNames, LoadNone(a, name) \/ LoadNoWindows(a, name)
      PROVE  TickInv'
  <2>1. CASE LoadNone(a, name)
    BY <2>1 DEF LoadNone, At, Runs
  <2>2. CASE LoadNoWindows(a, name)
    BY <2>2 DEF LoadNoWindows, At, Runs
  <2> QED
    BY <1>19, <2>1, <2>2
<1>20. ASSUME NEW name \in SchedNames, NEW interval \in Intervals, Load(a, name, interval)
      PROVE  TickInv'
  BY <1>20, LoadMoves
<1> QED
  BY <1>1, <1>2, <1>3, <1>4, <1>5, <1>6, <1>7, <1>8, <1>9, <1>10, <1>11,
     <1>12, <1>13, <1>14, <1>15, <1>16, <1>17, <1>18, <1>19, <1>20
  DEF LoadStep, FinalizeStep, SchedHandlerStep

-----------------------------------------------------------------------------
(* A scheduler only ever adds itself to the readers, or takes itself off.  *)
LEMMA SchedLeavesBuffer ==
  ASSUME TypeInv, SchedNext
  PROVE  monitor_buffer' = monitor_buffer /\ rwlock'.writing = rwlock.writing
<1> USE DEF TypeInv, LockInv, buffer
<1> SUFFICES ASSUME NEW a \in Analytics,
                    \/ Work(a) \/ Stop(a) \/ Continue(a)
                    \/ LoadStep(a) \/ FinalizeStep(a)
                    \/ SchedExpire(a) \/ SchedHandlerStep(a)
             PROVE  monitor_buffer' = monitor_buffer /\ rwlock'.writing = rwlock.writing
  BY DEF SchedNext
<1>1. CASE Work(a)
  BY <1>1 DEF Work, Runs
<1>2. CASE Stop(a)
  BY <1>2 DEF Stop, Runs
<1>3. CASE Continue(a)
  BY <1>3 DEF Continue
<1>4. CASE LoadNull(a)
  BY <1>4 DEF LoadNull, At, Runs
<1>5. CASE FinalizeNone(a)
  BY <1>5 DEF FinalizeNone, At, Runs
<1>6. CASE SchedDisable(a)
  BY <1>6 DEF SchedDisable, At, Runs
<1>7. CASE SchedRestore(a)
  BY <1>7 DEF SchedRestore, At, Runs
<1>8. CASE SchedExpire(a)
  BY <1>8 DEF SchedExpire, HandlerAt, Runs
<1>9. CASE SchedCheck(a)
  BY <1>9 DEF SchedCheck, HandlerAt, Runs, Goto
<1>10. CASE ReadSelf(a)
  BY <1>10 DEF ReadSelf
<1>11. CASE ReadLock(a)
  BY <1>11 DEF ReadLock, HandlerAt, Runs, Goto, rdlock, Readable
<1>12. CASE ReadLockBusy(a)
  BY <1>12 DEF ReadLockBusy, HandlerAt, Runs, Readable
<1>13. CASE ReadGiveUp(a)
  BY <1>13 DEF ReadGiveUp, HandlerAt, Runs, Goto
<1>14. CASE CopyId(a)
  BY <1>14 DEF CopyId, HandlerAt, Runs, Goto
<1>15. CASE CopyValue(a)
  BY <1>15 DEF CopyValue, HandlerAt, Runs, Goto
<1>16. CASE ReadUnlock(a)
  BY <1>16 DEF ReadUnlock, HandlerAt, Runs, Goto, rdunlock
<1>17. CASE Decide(a)
  BY <1>17 DEF Decide, HandlerAt, Runs, Goto
<1>18. CASE SchedRearm(a)
  BY <1>18 DEF SchedRearm, HandlerAt, Runs, Goto, NothingCopied
<1>19. ASSUME NEW name \in SchedNames, LoadNone(a, name) \/ LoadNoWindows(a, name)
      PROVE  monitor_buffer' = monitor_buffer /\ rwlock'.writing = rwlock.writing
  BY <1>19 DEF LoadNone, LoadNoWindows, At, Runs
<1>20. ASSUME NEW name \in SchedNames, NEW interval \in Intervals, Load(a, name, interval)
      PROVE  monitor_buffer' = monitor_buffer /\ rwlock'.writing = rwlock.writing
  BY <1>20 DEF Load, At, Runs
<1> QED
  BY <1>1, <1>2, <1>3, <1>4, <1>5, <1>6, <1>7, <1>8, <1>9, <1>10, <1>11,
     <1>12, <1>13, <1>14, <1>15, <1>16, <1>17, <1>18, <1>19, <1>20
  DEF LoadStep, FinalizeStep, SchedHandlerStep


-----------------------------------------------------------------------------
(* What holds whichever thread runs the handler of the simulation.         *)
IInv == TypeInv /\ CopyInv /\ WindowInv /\ TickInv

LEMMA InitIInv == Init => IInv
<1> SUFFICES ASSUME Init PROVE IInv
  OBVIOUS
<1>1. StubTypeOK
  <2>1. /\ 0 \in PhaseIds /\ 0 \in Int /\ 0 \in 0 .. MaxCounter /\ 0 \in 0 .. num_lock_tries
    BY StubAssumption, PhaseIdsAssumption
  <2>2. record(0, 0) \in Records /\ monitor_buffer \in Records /\ rwlock.writing \in BOOLEAN
    BY <2>1 DEF Init, BufferInit, Records, record
  <2> QED
    BY <2>1, <2>2 DEF Init, StubInit, StubTypeOK
<1>2. SchedTypeOK
  <2>1. /\ 0 \in PhaseIds /\ 0 \in Int /\ 0 \in 0 .. MaxOwnCounter
        /\ 0 \in 0 .. num_read_lock_tries /\ 0 \in 0 .. 2
    BY SchedulerAssumption, PhaseIdsAssumption
  <2>2. NewProcess \in Processes
    BY <2>1 DEF Processes, NewProcess, NothingCopied
  <2> QED
    BY <2>2 DEF SchedTypeOK, Init, BufferInit, SchedInit
<1> USE DEF Init, BufferInit, StubInit, SchedInit, NewProcess, NothingCopied
<1>3. LockInv
  BY DEF LockInv, Writing, Reading
<1>4. CopyInv /\ WindowInv /\ TickInv
  BY DEF CopyInv, WindowInv, TickInv, Ticking
<1> QED
  BY <1>1, <1>2, <1>3, <1>4 DEF IInv, TypeInv

LEMMA NextPreservesIInv == IInv /\ [Next]_vars => IInv'
<1> SUFFICES ASSUME IInv, [Next]_vars PROVE IInv'
  OBVIOUS
<1> USE DEF IInv
<1>1. CASE StubNext /\ UNCHANGED proc
  <2>1. TypeInv' /\ CopyInv'
    BY <1>1, StubTypes, StubCopies
  <2>2. WindowInv' /\ TickInv'
    BY <1>1 DEF WindowInv, TickInv, Ticking
  <2> QED
    BY <2>1, <2>2
<1>2. CASE SchedNext /\ UNCHANGED stubvars
  BY <1>2, SchedTypes, SchedCopies, SchedWindows, SchedTimer
<1>3. CASE UNCHANGED vars
  BY <1>3 DEF vars, buffer, stubvars, TypeInv, StubTypeOK, SchedTypeOK, LockInv,
              CopyInv, WindowInv, TickInv, Ticking
<1> QED
  BY <1>1, <1>2, <1>3 DEF Next

(* The inductive invariant holds.                                          *)
THEOREM IInvHolds == Spec => []IInv
<1> QED
  BY InitIInv, NextPreservesIInv, PTL DEF Spec

(* The stub stays within its types: its handler counts its attempts at the *)
(* lock, and publishes records.                                            *)
THEOREM StubTypeCorrect == Spec => []StubTypeOK
<1>1. IInv => StubTypeOK
  BY DEF IInv, TypeInv
<1> QED
  BY <1>1, IInvHolds, PTL

(* So does every scheduler.                                                *)
THEOREM SchedTypeCorrect == Spec => []SchedTypeOK
<1>1. IInv => SchedTypeOK
  BY DEF IInv, TypeInv
<1> QED
  BY <1>1, IInvHolds, PTL

(* The handler of the simulation never writes while a scheduler reads.     *)
Exclusion ==
  handler \in Writing => \A a \in Analytics : proc[a].handler \notin Reading

THEOREM LockExcludes == Spec => []Exclusion
<1>1. IInv => Exclusion
  BY DEF IInv, TypeInv, LockInv, Exclusion
<1> QED
  BY <1>1, IInvHolds, PTL

(* A scheduler process that was killed or has faulted left the lock free.  *)
THEOREM DeadHoldNoLock == Spec => []DeadReaderHoldsNoLock
<1>1. IInv => DeadReaderHoldsNoLock
  BY DEF IInv, TypeInv, LockInv, Reading, DeadReaderHoldsNoLock
<1> QED
  BY <1>1, IInvHolds, PTL

(* A loaded scheduler with an interval of 1 to 999 ms goes on ticking.     *)
THEOREM SchedulersTick == Spec => []SchedulerTicks
<1>1. IInv => SchedulerTicks
  BY DEF IInv, TickInv, SchedulerTicks
<1> QED
  BY <1>1, IInvHolds, PTL

(* The own window of a scheduler is what its process did between two ticks.*)
THEOREM WindowsAreIntervals == Spec => []SelfWindowIsOneInterval
<1>1. IInv => SelfWindowIsOneInterval
  BY DEF IInv, WindowInv, SelfWindowIsOneInterval
<1> QED
  BY <1>1, IInvHolds, PTL

-----------------------------------------------------------------------------
(* What needs the handler of the simulation on the main thread.            *)
MainInv == IInv /\ IntervalInv /\ TimerInv

LEMMA InitMainInv == Init => MainInv
<1> SUFFICES ASSUME Init PROVE MainInv
  OBVIOUS
<1> USE DEF Init, BufferInit, StubInit
<1>1. IntervalInv
  BY DEF IntervalInv, Ended, record
<1>2. TimerInv
  BY DEF TimerInv
<1> QED
  BY <1>1, <1>2, InitIInv DEF MainInv

LEMMA NextPreservesMainInv ==
  ASSUME HandlerOnMain, MainInv, [Next]_vars
  PROVE  MainInv'
<1> USE DEF MainInv
<1>1. IInv'
  BY NextPreservesIInv
<1>2. CASE StubNext /\ UNCHANGED proc
  BY <1>1, <1>2, StubIntervals, StubTimer DEF IInv
<1>3. CASE SchedNext /\ UNCHANGED stubvars
  <2>1. monitor_buffer' = monitor_buffer /\ rwlock'.writing = rwlock.writing
    BY <1>3, SchedLeavesBuffer DEF IInv
  <2> QED
    BY <1>1, <1>3, <2>1 DEF stubvars, IntervalInv, TimerInv
<1>4. CASE UNCHANGED vars
  BY <1>1, <1>4 DEF vars, buffer, stubvars, IntervalInv, TimerInv
<1> QED
  BY <1>2, <1>3, <1>4 DEF Next

(* With the handler on the main thread the readings and the timer of the   *)
(* stub are in order at every step.                                        *)
THEOREM MainInvHolds ==
  ASSUME HandlerOnMain
  PROVE  Spec => []MainInv
<1>1. MainInv /\ [Next]_vars => MainInv'
  BY NextPreservesMainInv
<1> QED
  BY <1>1, InitMainInv, PTL DEF Spec

(* What a reader finds is the counts of one interval, with the phase_id it *)
(* was published with, also after intervals that could not be published.   *)
THEOREM PublishedIntervals ==
  ASSUME HandlerOnMain
  PROVE  Spec => []PublishedIsOneInterval
<1>1. MainInv => PublishedIsOneInterval
  BY DEF MainInv, IntervalInv, PublishedIsOneInterval
<1> QED
  BY <1>1, MainInvHolds, PTL

(* What a scheduler has copied is one published record.                    *)
THEOREM SnapshotsAreWhole ==
  ASSUME HandlerOnMain
  PROVE  Spec => []SnapshotIsWhole
<1>1. MainInv => SnapshotIsWhole
  <2> SUFFICES ASSUME MainInv, NEW a \in Analytics, proc[a].handler = "unlock"
               PROVE  proc[a].copied = shown
    BY DEF SnapshotIsWhole
  <2>1. ~rwlock.writing
    BY DEF MainInv, IInv, TypeInv, LockInv, Reading
  <2>2. monitor_buffer = shown
    BY <2>1 DEF MainInv, IntervalInv
  <2>3. proc[a].copied \in Records /\ shown \in Records
    BY DEF MainInv, IInv, TypeInv, StubTypeOK, SchedTypeOK, Processes, Records
  <2> QED
    BY <2>2, <2>3 DEF MainInv, IInv, CopyInv, Records
<1> QED
  BY <1>1, MainInvHolds, PTL

(* An open phase is monitored until it ends, if the interval of the timer  *)
(* is a part of a second.                                                  *)
THEOREM MonitoredWhileOpen ==
  ASSUME HandlerOnMain
  PROVE  Spec => []OpenPhaseIsMonitored
<1>1. MainInv => OpenPhaseIsMonitored
  BY DEF MainInv, TimerInv, OpenPhaseIsMonitored
<1> QED
  BY <1>1, MainInvHolds, PTL

(* A phase that has ended is not monitored any longer: no tick is due.     *)
THEOREM NoTimerAfterwards ==
  ASSUME HandlerOnMain
  PROVE  Spec => []EndedPhaseHasNoTimer
<1>1. MainInv => EndedPhaseHasNoTimer
  BY DEF MainInv, TimerInv, EndedPhaseHasNoTimer
<1> QED
  BY <1>1, MainInvHolds, PTL

(* SIGALRM does not terminate the simulation.                              *)
THEOREM SimulationSurvives ==
  ASSUME HandlerOnMain
  PROVE  Spec => []SurvivesFinalize
<1>1. MainInv => SurvivesFinalize
  BY DEF MainInv, TimerInv, SurvivesFinalize
<1> QED
  BY <1>1, MainInvHolds, PTL

-----------------------------------------------------------------------------
(* The refinement. A step of the simulation leaves what the analytics have *)
(* received alone, and is one step of the feed or none.                    *)
FeedVars == <<counter, current_phase_id, main = "open", IntervalStart, Measured,
              Published, Received>>

LEMMA InitRefines == Init => Feed!Init
<1> SUFFICES ASSUME Init PROVE Feed!Init
  OBVIOUS
<1> USE DEF Init, BufferInit, StubInit, SchedInit, NewProcess, NothingCopied
<1>1. IntervalStart = 0 /\ Measured = {}
  BY DEF IntervalStart, Measured
<1>2. Published = Feed!Nothing
  BY DEF Published, Feed!Nothing, Feed!Interval
<1>3. Received = [a \in Analytics |-> Feed!Nothing]
  BY DEF Received, Feed!Nothing, Feed!Interval
<1> QED
  BY <1>1, <1>2, <1>3 DEF Feed!Init

LEMMA StubRefines ==
  ASSUME HandlerOnMain, MainInv, StubNext, UNCHANGED proc
  PROVE  Feed!Next \/ UNCHANGED FeedVars
<1> USE DEF MainInv, IInv, TypeInv, StubTypeOK, LockInv, Records, Writing, buffer, pointers, aux,
            IntervalInv, TimerInv, Ended, IntervalStart, Measured, Published, record
<1>0. Received' = Received
  BY DEF Received
<1>1. ASSUME NEW id \in PhaseIds, PhaseStart(id)
      PROVE  Feed!Begin(id)
  BY <1>0, <1>1 DEF PhaseStart, MainMoves, Feed!Begin
<1>11. ASSUME NEW id \in PhaseIds, Guess(id)
       PROVE  Feed!Guess(id)
  BY <1>0, <1>11 DEF Guess, Feed!Guess
<1>2. ASSUME Count
      PROVE  Feed!Work
  BY <1>0, <1>2 DEF Count, Feed!Work
<1>3. ASSUME Reset \/ Enable \/ Disarm \/ StubFinalize
      PROVE  UNCHANGED FeedVars
  <2>1. CASE Reset
    BY <1>0, <2>1 DEF Reset, MainMoves, FeedVars
  <2>2. CASE Enable
    BY <1>0, <2>2 DEF Enable, MainMoves, FeedVars
  <2>3. CASE Disarm
    BY <1>0, <2>3 DEF Disarm, MainMoves, FeedVars
  <2>4. CASE StubFinalize
    BY <1>0, <2>4 DEF StubFinalize, MainMoves, FeedVars
  <2> QED
    BY <1>3, <2>1, <2>2, <2>3, <2>4
<1>4. ASSUME Arm
      PROVE  Feed!Open
  BY <1>0, <1>4 DEF Arm, MainMoves, Feed!Open
<1>5. ASSUME Disable
      PROVE  Feed!Close
  BY <1>0, <1>5 DEF Disable, MainMoves, Feed!Close
<1>6. ASSUME ReadCounters
      PROVE  Feed!Measure
  BY <1>0, <1>6 DEF ReadCounters, HandlerMoves, Feed!Measure, Feed!Interval
<1>7. ASSUME PutId
      PROVE  Feed!Publish
  BY <1>0, <1>7 DEF PutId, HandlerMoves, Feed!Publish, Feed!Interval
<1>8. ASSUME GiveUp
      PROVE  Feed!Lose
  BY <1>0, <1>8 DEF GiveUp, HandlerMoves, Feed!Lose
<1>9. ASSUME Expire \/ Check \/ Subtract \/ LockBusy \/ Lock
      PROVE  UNCHANGED FeedVars
  <2>1. CASE Expire
    BY <1>0, <2>1 DEF Expire, FeedVars
  <2>2. CASE Check
    BY <1>0, <2>2 DEF Check, HandlerMoves, FeedVars
  <2>3. CASE Subtract
    BY <1>0, <2>3 DEF Subtract, HandlerMoves, FeedVars
  <2>4. CASE LockBusy
    BY <1>0, <2>4 DEF LockBusy, HandlerMoves, FeedVars
  <2>5. CASE Lock
    BY <1>0, <2>5 DEF Lock, HandlerMoves, wrlock, Writable, FeedVars
  <2> QED
    BY <1>9, <2>1, <2>2, <2>3, <2>4, <2>5
<1>10. ASSUME PutValue \/ Unlock \/ Swap \/ Rearm
       PROVE  UNCHANGED FeedVars
  <2>1. CASE PutValue
    BY <1>0, <2>1 DEF PutValue, HandlerMoves, FeedVars
  <2>2. CASE Unlock
    BY <1>0, <2>2 DEF Unlock, HandlerMoves, wrunlock, FeedVars
  <2>3. CASE Swap
    BY <1>0, <2>3 DEF Swap, HandlerMoves, FeedVars
  <2>4. CASE Rearm
    BY <1>0, <2>4 DEF Rearm, HandlerMoves, FeedVars
  <2> QED
    BY <1>10, <2>1, <2>2, <2>3, <2>4
<1> QED
  BY <1>1, <1>2, <1>3, <1>4, <1>5, <1>6, <1>7, <1>8, <1>9, <1>10, <1>11
  DEF StubNext, MainStep, HandlerStep, Feed!Next

(* A step of a scheduler is invisible unless it completes a copy or clears *)
(* one.                                                                    *)
LEMMA SchedRefines ==
  ASSUME MainInv, SchedNext, UNCHANGED stubvars
  PROVE  Feed!Next \/ UNCHANGED FeedVars
<1> DEFINE Else == UNCHANGED <<counter, current_phase_id, main = "open", IntervalStart,
                               Measured, Published>>
<1>0. Else
  BY SchedLeavesBuffer
  DEF MainInv, IInv, stubvars, IntervalStart, Measured, Published
<1>1. proc \in [Analytics -> Processes]
  BY DEF MainInv, IInv, TypeInv, SchedTypeOK
<1> SUFFICES ASSUME NEW a \in Analytics,
                    \/ Work(a) \/ Stop(a) \/ Continue(a)
                    \/ LoadStep(a) \/ FinalizeStep(a)
                    \/ SchedExpire(a) \/ SchedHandlerStep(a)
             PROVE  Feed!Next \/ UNCHANGED FeedVars
  BY DEF SchedNext
<1>2. ASSUME proc'[a].copied = proc[a].copied, proc'[a].handler # "copy_value",
             proc[a].handler # "copy_value",
             \A b \in Analytics \ {a} : proc'[b] = proc[b]
      PROVE  UNCHANGED FeedVars
  <2>1. Received' = Received
    BY <1>2 DEF Received
  <2> QED
    BY <1>0, <2>1 DEF FeedVars
<1>3. ASSUME proc'[a].handler = "copy_value" \/ proc'[a].copied = NothingCopied,
             \A b \in Analytics \ {a} : proc'[b] = proc[b]
      PROVE  Feed!Forget(a)
  <2>1. Received' = [Received EXCEPT ![a] = Feed!Nothing]
    BY <1>3 DEF Received, NothingCopied, Feed!Nothing, Feed!Interval
  <2> QED
    BY <1>0, <2>1 DEF Feed!Forget
<1>4. CASE CopyValue(a)
  <2>1. /\ proc[a].handler = "copy_value" /\ proc'[a].handler = "unlock"
        /\ proc'[a].copied = [proc[a].copied EXCEPT !.value = monitor_buffer.value]
        /\ \A b \in Analytics \ {a} : proc'[b] = proc[b]
    BY <1>1, <1>4 DEF CopyValue, HandlerAt, Goto, Processes
  <2>2. handler # "put_value" /\ proc[a].copied.phase_id = monitor_buffer.phase_id
    BY <2>1 DEF MainInv, IInv, TypeInv, LockInv, CopyInv, Reading, Writing
  <2>3. proc[a].copied \in Records /\ monitor_buffer \in Records
    BY <1>1 DEF MainInv, IInv, TypeInv, StubTypeOK, Processes, Records
  <2>4. proc'[a].copied = monitor_buffer
    BY <2>1, <2>2, <2>3 DEF Records
  <2>5. Received[a] = Feed!Nothing /\ Received' = [Received EXCEPT ![a] = Published]
    BY <2>1, <2>2, <2>4 DEF Received, Published, NothingCopied, Feed!Nothing, Feed!Interval
  <2> QED
    BY <1>0, <2>5 DEF Feed!Receive, Feed!Next
<1>5. CASE CopyId(a)
  <2>1. proc'[a].handler = "copy_value" /\ \A b \in Analytics \ {a} : proc'[b] = proc[b]
    BY <1>1, <1>5 DEF CopyId, HandlerAt, Goto, Processes
  <2> QED
    BY <1>3, <2>1 DEF Feed!Next
<1>6. CASE SchedRearm(a)
  <2>1. proc'[a].copied = NothingCopied /\ \A b \in Analytics \ {a} : proc'[b] = proc[b]
    BY <1>1, <1>6 DEF SchedRearm, HandlerAt, Goto, Processes
  <2> QED
    BY <1>3, <2>1 DEF Feed!Next
<1>7. CASE ReadLock(a) \/ ReadGiveUp(a) \/ ReadUnlock(a) \/ SchedCheck(a) \/ Decide(a)
  <2>1. /\ proc'[a].copied = proc[a].copied /\ proc'[a].handler # "copy_value"
        /\ proc[a].handler # "copy_value"
        /\ \A b \in Analytics \ {a} : proc'[b] = proc[b]
    BY <1>1, <1>7 DEF ReadLock, ReadGiveUp, ReadUnlock, SchedCheck, Decide, HandlerAt, Goto, Processes
  <2> QED
    BY <1>2, <2>1
<1>8. CASE ReadSelf(a) \/ ReadLockBusy(a) \/ SchedExpire(a)
  <2>1. /\ proc'[a].copied = proc[a].copied /\ proc'[a].handler # "copy_value"
        /\ proc[a].handler # "copy_value"
        /\ \A b \in Analytics \ {a} : proc'[b] = proc[b]
    BY <1>1, <1>8, ReadSelfMoves DEF ReadLockBusy, SchedExpire, HandlerAt, Processes
  <2> QED
    BY <1>2, <2>1
<1>9. CASE Work(a) \/ LoadStep(a) \/ FinalizeStep(a)
  <2> DEFINE Idle == /\ proc'[a].copied = proc[a].copied /\ proc'[a].handler = proc[a].handler
                     /\ proc[a].handler = "none"
                     /\ \A b \in Analytics \ {a} : proc'[b] = proc[b]
  <2>1. ASSUME Work(a) PROVE Idle
    BY <1>1, <2>1 DEF Work, Processes
  <2>2. ASSUME LoadNull(a) PROVE Idle
    BY <1>1, <2>2 DEF LoadNull, At, Processes
  <2>3. ASSUME NEW name \in SchedNames, LoadNone(a, name) \/ LoadNoWindows(a, name)
        PROVE  Idle
    BY <1>1, <2>3 DEF LoadNone, LoadNoWindows, At, Processes
  <2>4. ASSUME NEW name \in SchedNames, NEW interval \in Intervals, Load(a, name, interval)
        PROVE  Idle
    BY <1>1, <2>4 DEF Load, At, Processes
  <2>5. ASSUME FinalizeStep(a) PROVE Idle
    BY <1>1, <2>5 DEF FinalizeStep, FinalizeNone, SchedDisable, SchedRestore, At, Processes
  <2>6. Idle
    BY <1>9, <2>1, <2>2, <2>3, <2>4, <2>5 DEF LoadStep
  <2> QED
    BY <1>2, <2>6
<1>10. CASE Stop(a) \/ Continue(a)
  <2>1. /\ proc'[a].copied = proc[a].copied /\ proc'[a].handler = proc[a].handler
        /\ \A b \in Analytics \ {a} : proc'[b] = proc[b]
    BY <1>1, <1>10 DEF Stop, Continue, Processes
  <2>2. Received' = Received
    BY <2>1 DEF Received
  <2> QED
    BY <1>0, <2>2 DEF FeedVars
<1> QED
  BY <1>4, <1>5, <1>6, <1>7, <1>8, <1>9, <1>10 DEF SchedHandlerStep

(***************************************************************************)
(* With the handler of the simulation on its main thread, the stub, the    *)
(* lock and the schedulers of any number of analytics processes implement  *)
(* the feed: what a scheduler has copied is one whole interval of one      *)
(* phase, the one published last, with the guess that stood when it was    *)
(* published, and intervals join up although some are lost.                *)
(***************************************************************************)
THEOREM MonitorIsFeed ==
  ASSUME HandlerOnMain
  PROVE  Spec => ImplementsFeed
<1>1. MainInv /\ [Next]_vars => [Feed!Next]_(Feed!vars)
  <2> SUFFICES ASSUME MainInv, [Next]_vars
               PROVE  Feed!Next \/ UNCHANGED FeedVars
    BY DEF FeedVars, Feed!vars
  <2>1. CASE UNCHANGED vars
    BY <2>1 DEF vars, buffer, stubvars, FeedVars, IntervalStart, Measured, Published, Received
  <2>2. CASE Next
    BY <2>2, StubRefines, SchedRefines DEF Next
  <2> QED
    BY <2>1, <2>2
<1> QED
  BY <1>1, InitRefines, MainInvHolds, PTL DEF Spec, ImplementsFeed, Feed!Spec
=============================================================================
