------------------------------ MODULE Receivers ------------------------------
(***************************************************************************)
(* The receivers of a node: analytics programs register themselves in a    *)
(* region of shared memory, and the simulation processes look them up      *)
(* there and suspend and resume them with SIGSTOP and SIGCONT, each of     *)
(* them a share of every receiver's processes.                             *)
(*                                                                         *)
(* Nothing is locked ("TODO: lock the shm region"), so that one action is  *)
(* one access to the region that another process can tell apart. The model *)
(* is of one node with gr_do_suspend set; without it both calls return 0   *)
(* and do nothing.                                                         *)
(*                                                                         *)
(* With OneAtATime a program registers while no other program does.        *)
(***************************************************************************)
EXTENDS Integers, FiniteSets

CONSTANTS
  Apps,              \* analytics programs, by their application id
  ProcsOf,           \* ProcsOf[a]: how many processes program a has here
  Groups,            \* names of data groups
  NoApp, NoGroup, NoPid,  \* what the region holds before it is written
  gr_local_size,     \* number of simulation processes on the node
  GR_MAX_NUM_RECEIVERS, \* slots for receivers, and for data groups: 5
  Registrations,     \* how often a program registers: a bound
  MaxGone,           \* how many analytics processes may exit: a bound
  OneAtATime

Processes == UNION {{a} \X (0 .. ProcsOf[a] - 1) : a \in Apps}
Sims      == 0 .. gr_local_size - 1
Slots     == 0 .. GR_MAX_NUM_RECEIVERS - 1

ASSUME AppsAssumption ==
  /\ IsFiniteSet(Apps)
  /\ ProcsOf \in [Apps -> Nat \ {0}]
  /\ NoApp \notin Apps /\ NoGroup \notin Groups /\ NoPid \notin Processes

ASSUME SimsAssumption == gr_local_size \in Nat \ {0}

ASSUME SlotsAssumption ==   \* the code does not check that there is one left
  /\ GR_MAX_NUM_RECEIVERS \in Nat
  /\ Cardinality(Apps) * Registrations <= GR_MAX_NUM_RECEIVERS

VARIABLES
  num_receivers, receivers,   \* gr_shm_meta
  num_files, data_groups,
  reg,       \* where each analytics process is in gr_register_receiver
  subscribed, \* auxiliary: the groups each program has registered for
  sim,       \* where each simulation process is, and its receiver handle
  outcome,   \* auxiliary: what its last call on each receiver achieved
  stopped,   \* analytics processes stopped by SIGSTOP
  gone       \* analytics processes that have exited

shm  == <<num_receivers, receivers, num_files, data_groups>>
vars == <<shm, reg, subscribed, sim, outcome, stopped, gone>>

Ranks == UNION {0 .. ProcsOf[a] - 1 : a \in Apps}

NoReceiver == [app_id |-> NoApp, num_procs |-> 0, pid |-> [r \in Ranks |-> NoPid]]
NoHandle   == [at |-> "idle", handle |-> -1, pid_index |-> 0,
               num_r |-> 0, sought |-> NoGroup, sure |-> FALSE]

(* gr_init_shm_meta_region, in memory fresh from the kernel.               *)
Init ==
  /\ num_receivers = 0 /\ num_files = 0
  /\ receivers = [i \in Slots |-> NoReceiver]
  /\ data_groups = [i \in Slots |-> [name |-> NoGroup, receiver_app_id |-> NoApp]]
  /\ reg = [q \in Processes |-> [at |-> "out", calls |-> 0, slot |-> 0, count |-> 0]]
  /\ subscribed = [a \in Apps |-> {}]
  /\ sim = [s \in Sims |-> NoHandle]
  /\ outcome = [s \in Sims |-> [i \in Slots |-> "none"]]
  /\ stopped = {} /\ gone = {}

-----------------------------------------------------------------------------
(* gr_register_receiver in process q, the one of rank q[2] of program q[1].*)
At(q, place) == reg[q].at = place /\ q \notin stopped

(* What no step of a registration writes.                                  *)
simulation == <<sim, outcome, stopped, gone>>

Inside(a) == \E q \in Processes : q[1] = a /\ reg[q].at # "out"

ChooseSlot(q) ==
  /\ At(q, "out") /\ q \notin gone
  /\ reg[q].calls < Registrations
  /\ OneAtATime => \A b \in Apps \ {q[1]} : ~Inside(b)
  /\ reg' = [reg EXCEPT ![q].at = "pid", ![q].slot = num_receivers,
                        ![q].calls = @ + 1]
  /\ UNCHANGED <<shm, subscribed, simulation>>

WithPid(receiver, q) == [receiver EXCEPT !.pid[q[2]] = q]

gr_get_pids(q) ==
  /\ At(q, "pid")
  /\ receivers' = [receivers EXCEPT ![reg[q].slot] = WithPid(@, q)]
  /\ reg' = [reg EXCEPT ![q].at = "barrier"]
  /\ UNCHANGED <<num_receivers, num_files, data_groups, subscribed, simulation>>

(* Everyone leaves the barrier; rank 0 goes on, the others return.         *)
AfterBarrier(q) == IF q[2] = 0 THEN "fill" ELSE "out"

(* Mutation: rank 0 does not wait for the others.                          *)
BarrierUnawaited(a) ==
  /\ At(<<a, 0>>, "barrier")
  /\ reg' = [q \in Processes |->
               IF q[1] = a /\ reg[q].at = "barrier"
               THEN [reg[q] EXCEPT !.at = AfterBarrier(q)] ELSE reg[q]]
  /\ UNCHANGED <<shm, subscribed, simulation>>

Barrier(a) ==
  /\ \A r \in 0 .. ProcsOf[a] - 1 : At(<<a, r>>, "barrier")
  /\ reg' = [q \in Processes |->
               IF q[1] = a THEN [reg[q] EXCEPT !.at = AfterBarrier(q)] ELSE reg[q]]
  /\ UNCHANGED <<shm, subscribed, simulation>>

(* app_id and num_procs (state, which is never read, is left out). Nobody  *)
(* looks at the slot before num_receivers counts it.                       *)
Filled(receiver, a) == [receiver EXCEPT !.app_id = a, !.num_procs = ProcsOf[a]]

Fill(q) ==
  /\ At(q, "fill")
  /\ receivers' = [receivers EXCEPT ![reg[q].slot] = Filled(@, q[1])]
  /\ reg' = [reg EXCEPT ![q].at = "count"]
  /\ UNCHANGED <<num_receivers, num_files, data_groups, subscribed, simulation>>

(* num_receivers ++ is a load and a store.                                 *)
LoadCount(q) ==
  /\ At(q, "count")
  /\ reg' = [reg EXCEPT ![q].at = "publish", ![q].count = num_receivers]
  /\ UNCHANGED <<shm, subscribed, simulation>>

(* Mutation: the next receiver leaves a slot out.                          *)
PublishTwo(q) ==
  /\ At(q, "publish")
  /\ num_receivers' = reg[q].count + 2
  /\ reg' = [reg EXCEPT ![q].at = "group"]
  /\ UNCHANGED <<receivers, num_files, data_groups, subscribed, simulation>>

Publish(q) ==
  /\ At(q, "publish")
  /\ num_receivers' = reg[q].count + 1
  /\ reg' = [reg EXCEPT ![q].at = "group"]
  /\ UNCHANGED <<receivers, num_files, data_groups, subscribed, simulation>>

(* The data dependence, and then num_files ++ in the same way.             *)
AddGroup(q, g) ==
  /\ At(q, "group")
  /\ data_groups' = [data_groups EXCEPT ![num_files] =
                       [name |-> g, receiver_app_id |-> q[1]]]
  /\ reg' = [reg EXCEPT ![q].at = "count_group", ![q].slot = 0, ![q].count = 0]
  /\ subscribed' = [subscribed EXCEPT ![q[1]] = @ \cup {g}]
  /\ UNCHANGED <<num_receivers, receivers, num_files, simulation>>

LoadGroups(q) ==
  /\ At(q, "count_group")
  /\ reg' = [reg EXCEPT ![q].at = "publish_group", ![q].count = num_files]
  /\ UNCHANGED <<shm, subscribed, simulation>>

PublishGroup(q) ==
  /\ At(q, "publish_group")
  /\ num_files' = reg[q].count + 1
  /\ reg' = [reg EXCEPT ![q].at = "out", ![q].count = 0]
  /\ UNCHANGED <<num_receivers, receivers, data_groups, subscribed, simulation>>

RegisterStep(q) ==
  \/ ChooseSlot(q) \/ gr_get_pids(q) \/ Fill(q) \/ LoadCount(q) \/ Publish(q)
  \/ \E g \in Groups : AddGroup(q, g)
  \/ LoadGroups(q) \/ PublishGroup(q)

(* A receiver never takes itself off the list.                             *)
Exit(q) ==
  /\ At(q, "out") /\ q \notin gone
  /\ reg[q].calls > 0
  /\ Cardinality(gone) < MaxGone
  /\ gone' = gone \cup {q}
  /\ UNCHANGED <<shm, reg, subscribed, sim, outcome, stopped>>

-----------------------------------------------------------------------------
(* Simulation processes: finding a receiver.                               *)
analytics == <<shm, reg, subscribed, gone>>

Free(s) == sim[s].at \in {"idle", "ready", "null"}

(* gr_get_receivers: any of the receivers counted now.                     *)
gr_get_receivers(s, h) ==
  /\ Free(s)
  /\ h < num_receivers
  /\ sim' = [sim EXCEPT ![s] = [NoHandle EXCEPT !.at = "ready", !.handle = h]]
  /\ UNCHANGED <<analytics, outcome, stopped>>

(* gr_get_receiver_by_data_group reads num_receivers before num_files.     *)
Registered(a) == reg[<<a, 0>>].at = "out" /\ reg[<<a, 0>>].calls > 0

Seek(s, g) ==
  /\ Free(s)
  /\ sim' = [sim EXCEPT ![s] =
               [NoHandle EXCEPT !.at = "seek", !.num_r = num_receivers, !.sought = g,
                  !.sure = \E a \in Apps : Registered(a) /\ g \in subscribed[a]]]
  /\ UNCHANGED <<analytics, outcome, stopped>>

(* Mutation: the loop over the groups ends before the last one.            *)
EarlierGroups == {j \in Slots : j < num_files - 1}

KnownGroups == {j \in Slots : j < num_files}

(* The pairs <<group, receiver>> that match, and their order in the loops. *)
Pairs(s) ==
  {p \in KnownGroups \X {i \in Slots : i < sim[s].num_r} :
     /\ data_groups[p[1]].name = sim[s].sought
     /\ receivers[p[2]].app_id = data_groups[p[1]].receiver_app_id}

Precedes(p, q) == p[1] < q[1] \/ (p[1] = q[1] /\ p[2] <= q[2])

Find(s) ==
  /\ sim[s].at = "seek"
  /\ \E p \in Pairs(s) :
       /\ \A q \in Pairs(s) : Precedes(p, q)
       /\ sim' = [sim EXCEPT ![s].at = "ready", ![s].handle = p[2], ![s].num_r = 0]
  /\ UNCHANGED <<analytics, outcome, stopped>>

FindNone(s) ==
  /\ sim[s].at = "seek"
  /\ Pairs(s) = {}
  /\ sim' = [sim EXCEPT ![s].at = "null", ![s].num_r = 0]
  /\ UNCHANGED <<analytics, outcome, stopped>>

-----------------------------------------------------------------------------
(* gr_suspend_receiver and gr_resume_receiver, which differ in the signal. *)
(* Mutations: all start at the same process, or go through all of them.    *)
FirstOfAll(s) == 0
NextOfAll(i)  == i + 1

FirstIndex(s) == s
NextIndex(i)  == i + gr_local_size

Call(s, what) ==
  /\ sim[s].at = "ready"
  /\ sim' = [sim EXCEPT ![s].at = what, ![s].pid_index = FirstIndex(s),
                        ![s].sought = NoGroup, ![s].sure = FALSE]
  /\ outcome' = [outcome EXCEPT ![s][sim[s].handle] = "none"]
  /\ UNCHANGED <<analytics, stopped>>

Return(s, result) ==
  /\ sim' = [sim EXCEPT ![s].at = "ready", ![s].pid_index = 0]
  /\ outcome' = [outcome EXCEPT ![s][sim[s].handle] = result]

Target(s) == receivers[sim[s].handle].pid[sim[s].pid_index]

More(s) ==
  /\ sim[s].at \in {"suspend", "resume"}
  /\ sim[s].pid_index < receivers[sim[s].handle].num_procs

(* A slot that nobody has written holds 0, and kill(0, ...) means the      *)
(* caller's own process group; that is left out, since a complete receiver *)
(* has no such slot.                                                       *)
Kill(s) ==
  /\ More(s)
  /\ Target(s) \in Processes \ gone
  /\ stopped' = IF sim[s].at = "suspend" THEN stopped \cup {Target(s)}
                                         ELSE stopped \ {Target(s)}
  /\ sim' = [sim EXCEPT ![s].pid_index = NextIndex(@)]
  /\ UNCHANGED <<analytics, outcome>>

(* The process has exited: -1, and the rest of the share gets no signal.   *)
KillFails(s) ==
  /\ More(s)
  /\ Target(s) \in gone
  /\ Return(s, "failed")
  /\ UNCHANGED <<analytics, stopped>>

AllSignalled(s) ==
  /\ sim[s].at \in {"suspend", "resume"}
  /\ ~More(s)
  /\ Return(s, IF sim[s].at = "suspend" THEN "suspended" ELSE "resumed")
  /\ UNCHANGED <<analytics, stopped>>

SimStep(s) ==
  \/ \E h \in Slots : gr_get_receivers(s, h)
  \/ \E g \in Groups : Seek(s, g)
  \/ Find(s) \/ FindNone(s)
  \/ \E what \in {"suspend", "resume"} : Call(s, what)
  \/ Kill(s) \/ KillFails(s) \/ AllSignalled(s)

Next ==
  \/ \E q \in Processes : RegisterStep(q) \/ Exit(q)
  \/ \E a \in Apps : Barrier(a)
  \/ \E s \in Sims : SimStep(s)

Spec == Init /\ [][Next]_vars

-----------------------------------------------------------------------------
(* Types.                                                                  *)
TypeOK ==
  /\ num_receivers \in 0 .. GR_MAX_NUM_RECEIVERS
  /\ num_files \in 0 .. GR_MAX_NUM_RECEIVERS
  /\ receivers \in [Slots -> [app_id : Apps \cup {NoApp}, num_procs : Nat,
                              pid : [Ranks -> Processes \cup {NoPid}]]]
  /\ data_groups \in [Slots -> [name : Groups \cup {NoGroup},
                                receiver_app_id : Apps \cup {NoApp}]]
  /\ reg \in [Processes ->
                [at : {"out", "pid", "barrier", "fill", "count", "publish", "group",
                       "count_group", "publish_group"},
                 calls : 0 .. Registrations, slot : Slots, count : Slots]]
  /\ subscribed \in [Apps -> SUBSET Groups]
  /\ sim \in [Sims -> [at : {"idle", "ready", "null", "seek", "suspend", "resume"},
                       handle : Slots \cup {-1}, pid_index : Nat,
                       num_r : 0 .. GR_MAX_NUM_RECEIVERS,
                       sought : Groups \cup {NoGroup}, sure : BOOLEAN]]
  /\ outcome \in [Sims -> [Slots -> {"none", "suspended", "resumed", "failed"}]]
  /\ stopped \subseteq Processes /\ gone \subseteq Processes

(***************************************************************************)
(* "Get the pids of processes on each node. This is a collective call"     *)
(* (gr_get_pids): a receiver that a simulation process can see names every *)
(* process of its program, although each process writes its own pid.       *)
(***************************************************************************)
Complete(i) ==
  \E a \in Apps :
    /\ receivers[i].app_id = a
    /\ receivers[i].num_procs = ProcsOf[a]
    /\ \A r \in 0 .. ProcsOf[a] - 1 : receivers[i].pid[r] = <<a, r>>

VisibleReceiverIsComplete ==
  \A i \in Slots : i < num_receivers => Complete(i)

(***************************************************************************)
(* gr_get_receiver_by_data_group, which locks nothing, returns a receiver  *)
(* that registered for the group, and NULL only if no program had returned *)
(* from registering for it when the search began.                          *)
(***************************************************************************)
LookupIsRight ==
  \A s \in Sims :
    /\ sim[s].at = "null" => ~sim[s].sure
    /\ sim[s].at = "ready" /\ sim[s].sought # NoGroup =>
         sim[s].sought \in subscribed[receivers[sim[s].handle].app_id]

(***************************************************************************)
(* What a simulation process was told holds until it calls again, whatever *)
(* the others do meanwhile: the processes of its share are suspended, or   *)
(* running, or have exited.                                                *)
(***************************************************************************)
ProcessesOf(i) ==
  {receivers[i].pid[r] : r \in 0 .. receivers[i].num_procs - 1}

Share(s, i) ==
  {receivers[i].pid[r] :
     r \in {k \in 0 .. receivers[i].num_procs - 1 : k % gr_local_size = s}}

ShareIsSettled ==
  \A s \in Sims, i \in Slots :
    /\ outcome[s][i] = "suspended" => Share(s, i) \subseteq stopped \cup gone
    /\ outcome[s][i] = "resumed" => Share(s, i) \cap stopped = {}

(***************************************************************************)
(* The shares add up: when every simulation process of the node has        *)
(* returned 0 from gr_suspend_receiver, no process of the receiver runs.   *)
(***************************************************************************)
SuspendedWhenAllReturned ==
  \A i \in Slots :
    i < num_receivers /\ (\A s \in Sims : outcome[s][i] = "suspended") =>
      ProcessesOf(i) \subseteq stopped \cup gone
=============================================================================
