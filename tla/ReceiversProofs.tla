--------------------------- MODULE ReceiversProofs ---------------------------
(***************************************************************************)
(* The registry of receivers, for any programs with any number of          *)
(* processes, and any number of simulation processes: programs that        *)
(* register once (Registrations = 1) and in turn (OneAtATime) are found    *)
(* whole or not at all, although the lookups wait for nobody, and the      *)
(* shares of the simulation processes add up and do not disturb each other.*)
(***************************************************************************)
EXTENDS Receivers, FiniteSetTheorems, TLAPS

(***************************************************************************)
(* A registration comes in stages: the processes of a program gather, each *)
(* on its own, until the barrier; then rank 0 publishes the receiver, and  *)
(* after that the group.                                                   *)
(***************************************************************************)
Gathering  == {"pid", "barrier"}
Publishing == {"fill", "count", "publish"}
Announced  == {"count_group", "publish_group"}

RanksOf(a) == 0 .. ProcsOf[a] - 1
Leader(a)  == reg[<<a, 0>>]
Early(a)   == Leader(a).calls = 0 \/ Leader(a).at \in Gathering

(* The programs whose receiver is counted, and those whose group is too.   *)
Counted == {a \in Apps : ~Early(a) /\ Leader(a).at \notin Publishing}
Listed  == {a \in Apps : ~Early(a) /\ Leader(a).at = "out"}

Visible == {i \in Slots : i < num_receivers}
Known   == {j \in Slots : j < num_files}

(* One program registers at a time, and its processes keep together.       *)
StageInv ==
  /\ \A p, q \in Processes : reg[p].at # "out" /\ reg[q].at # "out" => p[1] = q[1]
  /\ \A a \in Apps :
       IF Early(a)
       THEN \A r \in RanksOf(a) :
              \/ reg[<<a, r>>].at = "out" /\ reg[<<a, r>>].calls = 0
              \/ reg[<<a, r>>].at \in Gathering /\ reg[<<a, r>>].calls = 1
       ELSE \A r \in RanksOf(a) \ {0} : reg[<<a, r>>].at = "out" /\ reg[<<a, r>>].calls = 1

(* What has been written of the receiver that is next.                     *)
SlotInv ==
  /\ \A q \in Processes :
       /\ reg[q].at \in Gathering \cup Publishing => reg[q].slot = num_receivers
       /\ reg[q].at = "barrier" => receivers[num_receivers].pid[q[2]] = q
  /\ \A a \in Apps :
       /\ Leader(a).at \in Publishing =>
            \A r \in RanksOf(a) : receivers[num_receivers].pid[r] = <<a, r>>
       /\ Leader(a).at \in {"count", "publish"} =>
            /\ receivers[num_receivers].app_id = a
            /\ receivers[num_receivers].num_procs = ProcsOf[a]
       /\ Leader(a).at = "publish" => Leader(a).count = num_receivers

(* The receivers that are counted are those of the programs that are.      *)
ReceiverInv ==
  /\ num_receivers = Cardinality(Counted)
  /\ \A i \in Visible : Complete(i) /\ receivers[i].app_id \in Counted
  /\ \A a \in Counted : \E i \in Visible : receivers[i].app_id = a
  /\ \A i, j \in Visible : receivers[i].app_id = receivers[j].app_id => i = j

(* The same of the groups.                                                 *)
GroupInv ==
  /\ num_files = Cardinality(Listed)
  /\ \A a \in Apps \ Listed :
       IF Leader(a).at \in Announced
       THEN /\ data_groups[num_files].receiver_app_id = a
            /\ subscribed[a] = {data_groups[num_files].name}
       ELSE subscribed[a] = {}
  /\ \A a \in Apps : Leader(a).at = "publish_group" => Leader(a).count = num_files
  /\ \A j \in Known : /\ data_groups[j].receiver_app_id \in Listed
                      /\ data_groups[j].name \in subscribed[data_groups[j].receiver_app_id]
  /\ \A a \in Listed : \A g \in subscribed[a] :
       \E j \in Known : data_groups[j].name = g /\ data_groups[j].receiver_app_id = a

(* What a lookup has seen and found.                                       *)
LookupInv(s) ==
  /\ sim[s].at \in {"ready", "suspend", "resume"} => sim[s].handle \in Visible
  /\ sim[s].at \in {"suspend", "resume"} => sim[s].sought = NoGroup
  /\ sim[s].at = "seek" =>
       /\ sim[s].num_r <= num_receivers
       /\ sim[s].sure => \E a \in Listed : /\ sim[s].sought \in subscribed[a]
                                           /\ \E i \in Visible : /\ i < sim[s].num_r
                                                                 /\ receivers[i].app_id = a
  /\ sim[s].at = "null" => ~sim[s].sure
  /\ sim[s].at = "ready" /\ sim[s].sought # NoGroup =>
       sim[s].sought \in subscribed[receivers[sim[s].handle].app_id]

(* What a call has signalled so far, and what the calls before it achieved.*)
Signalled(s) ==
  {receivers[sim[s].handle].pid[k] :
     k \in {j \in 0 .. receivers[sim[s].handle].num_procs - 1 :
              j % gr_local_size = s /\ j < sim[s].pid_index}}

SignalInv(s) ==
  /\ sim[s].at \in {"suspend", "resume"} =>
       /\ outcome[s][sim[s].handle] = "none"
       /\ sim[s].pid_index % gr_local_size = s
  /\ sim[s].at = "suspend" => Signalled(s) \subseteq stopped \cup gone
  /\ sim[s].at = "resume" => Signalled(s) \cap stopped = {}

SettledInv(s) ==
  \A i \in Slots :
    /\ outcome[s][i] # "none" => i \in Visible
    /\ outcome[s][i] = "suspended" => Share(s, i) \subseteq stopped \cup gone
    /\ outcome[s][i] = "resumed" => Share(s, i) \cap stopped = {}

RegInv    == StageInv /\ SlotInv /\ ReceiverInv /\ GroupInv
SimInv(s) == LookupInv(s) /\ SignalInv(s) /\ SettledInv(s)
IInv      == TypeOK /\ RegInv /\ \A s \in Sims : SimInv(s)

-----------------------------------------------------------------------------
RegRecord ==
  [at : {"out", "pid", "barrier", "fill", "count", "publish", "group",
         "count_group", "publish_group"},
   calls : 0 .. Registrations, slot : Slots, count : Slots]

LEMMA ProcessFacts ==
  /\ \A a \in Apps : \A r \in RanksOf(a) : <<a, r>> \in Processes /\ r \in Ranks
  /\ \A q \in Processes : /\ q[1] \in Apps /\ q[2] \in RanksOf(q[1]) /\ q[2] \in Ranks
                          /\ q = <<q[1], q[2]>>
  /\ \A a \in Apps : 0 \in RanksOf(a) /\ <<a, 0>> \in Processes /\ ProcsOf[a] \in Nat \ {0}
BY AppsAssumption DEF Processes, RanksOf, Ranks

(* As long as a program has not been counted there is a slot for it.       *)
LEMMA Room ==
  ASSUME Registrations = 1
  PROVE  /\ Cardinality(Counted) \in Nat /\ Cardinality(Listed) \in Nat
         /\ Cardinality(Counted) <= GR_MAX_NUM_RECEIVERS
         /\ Cardinality(Listed) <= GR_MAX_NUM_RECEIVERS
         /\ \A a \in Apps \ Counted :
              Cardinality(Counted) < GR_MAX_NUM_RECEIVERS /\ Cardinality(Counted) \in Slots
         /\ \A a \in Apps \ Listed :
              Cardinality(Listed) < GR_MAX_NUM_RECEIVERS /\ Cardinality(Listed) \in Slots
<1>1. IsFiniteSet(Apps) /\ Cardinality(Apps) <= GR_MAX_NUM_RECEIVERS
      /\ GR_MAX_NUM_RECEIVERS \in Nat /\ Cardinality(Apps) \in Nat
  <2>1. IsFiniteSet(Apps) /\ Cardinality(Apps) \in Nat
    BY AppsAssumption, FS_CardinalityType
  <2>2. Cardinality(Apps) * 1 = Cardinality(Apps)
    BY <2>1
  <2> QED
    BY <2>1, <2>2, SlotsAssumption
<1>2. ASSUME NEW S \in SUBSET Apps
      PROVE  /\ Cardinality(S) \in Nat /\ Cardinality(S) <= GR_MAX_NUM_RECEIVERS
             /\ \A a \in Apps \ S : Cardinality(S) < GR_MAX_NUM_RECEIVERS
                                   /\ Cardinality(S) \in Slots
  <2>1. IsFiniteSet(S) /\ Cardinality(S) \in Nat /\ Cardinality(S) <= Cardinality(Apps)
    BY <1>1, FS_Subset, FS_CardinalityType
  <2>2. ASSUME NEW a \in Apps \ S PROVE Cardinality(S) < Cardinality(Apps)
    <3>1. S # Apps
      BY <2>2
    <3> QED
      BY <1>1, <2>1, <3>1, FS_Subset
  <2> QED
    BY <1>1, <2>1, <2>2 DEF Slots
<1> QED
  BY <1>2 DEF Counted, Listed

(* Whatever a step of a registration adds, what was there stays.           *)
Grows ==
  /\ num_receivers <= num_receivers'
  /\ \A i \in Visible : receivers'[i] = receivers[i]
  /\ Listed \subseteq Listed'
  /\ \A a \in Apps : subscribed[a] \subseteq subscribed'[a]

LEMMA GrowthKeeps ==
  ASSUME IInv, TypeOK', RegInv', Grows, UNCHANGED <<sim, outcome, stopped>>,
         gone \subseteq gone'
  PROVE  IInv'
<1> SUFFICES ASSUME NEW s \in Sims PROVE SimInv(s)'
  BY DEF IInv
<1>1. num_receivers \in Nat /\ num_receivers' \in Nat /\ sim[s].num_r \in Nat
  BY DEF IInv, TypeOK
<1>2. Visible \subseteq Visible'
  BY <1>1 DEF Visible, Grows, Slots
<1>3. LookupInv(s) /\ SignalInv(s) /\ SettledInv(s)
  BY DEF IInv, SimInv
<1>4. LookupInv(s)'
  <2>1. ASSUME sim[s].at = "seek", sim[s].sure
        PROVE  \E a \in Listed' : /\ sim[s].sought \in subscribed'[a]
                                  /\ \E i \in Visible' : /\ i < sim[s].num_r
                                                         /\ receivers'[i].app_id = a
    <3>1. PICK a \in Listed : /\ sim[s].sought \in subscribed[a]
                              /\ \E i \in Visible : /\ i < sim[s].num_r
                                                    /\ receivers[i].app_id = a
      BY <1>3, <2>1 DEF LookupInv
    <3> QED
      BY <1>2, <3>1 DEF Grows, Listed
  <2>2. sim[s].at = "ready" => /\ receivers'[sim[s].handle] = receivers[sim[s].handle]
                               /\ receivers[sim[s].handle].app_id \in Apps
    BY <1>3 DEF LookupInv, Grows, IInv, RegInv, ReceiverInv, Counted
  <2>3. sim[s].at = "ready" /\ sim[s].sought # NoGroup =>
          sim[s].sought \in subscribed'[receivers'[sim[s].handle].app_id]
    BY <1>3, <2>2 DEF LookupInv, Grows
  <2> QED
    BY <1>1, <1>2, <1>3, <2>1, <2>3 DEF LookupInv, Grows
<1>5. SignalInv(s)'
  <2>1. sim[s].at \in {"suspend", "resume"} => Signalled(s)' = Signalled(s)
    <3>1. sim[s].at \in {"suspend", "resume"} =>
            receivers'[sim[s].handle] = receivers[sim[s].handle]
      BY <1>3 DEF LookupInv, Grows
    <3> QED
      BY <3>1 DEF Signalled
  <2> QED
    BY <1>3, <2>1 DEF SignalInv
<1>6. SettledInv(s)'
  <2> SUFFICES ASSUME NEW i \in Slots
               PROVE  /\ outcome[s][i] # "none" => i \in Visible'
                      /\ outcome[s][i] = "suspended" => Share(s, i)' \subseteq stopped \cup gone'
                      /\ outcome[s][i] = "resumed" => Share(s, i)' \cap stopped = {}
    BY DEF SettledInv
  <2>1. outcome[s][i] # "none" => Share(s, i)' = Share(s, i)
    <3>1. outcome[s][i] # "none" => receivers'[i] = receivers[i]
      BY <1>3 DEF SettledInv, Grows
    <3> QED
      BY <3>1 DEF Share
  <2> QED
    BY <1>2, <1>3, <2>1 DEF SettledInv
<1> QED
  BY <1>4, <1>5, <1>6 DEF SimInv

LEMMA InitIInv ==
  ASSUME Registrations = 1, Init
  PROVE  IInv
<1> USE DEF Init
<1>1. \A a \in Apps : reg[<<a, 0>>] = [at |-> "out", calls |-> 0, slot |-> 0, count |-> 0]
  BY ProcessFacts
<1>2. Counted = {} /\ Listed = {}
  BY <1>1 DEF Counted, Listed, Early, Leader
<1>3. Cardinality({}) = 0
  BY FS_EmptySet
<1>4. GR_MAX_NUM_RECEIVERS \in Nat /\ (Processes # {} => 0 \in Slots)
  <2>1. ASSUME NEW q \in Processes PROVE 0 \in Slots
    BY <1>2, <1>3, Room, ProcessFacts
  <2> QED
    BY <2>1, SlotsAssumption
<1>5. TypeOK
  <2>1. receivers \in [Slots -> [app_id : Apps \cup {NoApp}, num_procs : Nat,
                               pid : [Ranks -> Processes \cup {NoPid}]]]
    BY DEF NoReceiver
  <2>2. reg \in [Processes -> RegRecord]
    BY <1>4 DEF RegRecord
  <2>3. sim \in [Sims -> [at : {"idle", "ready", "null", "seek", "suspend", "resume"},
                         handle : Slots \cup {-1}, pid_index : Nat,
                         num_r : 0 .. GR_MAX_NUM_RECEIVERS,
                         sought : Groups \cup {NoGroup}, sure : BOOLEAN]]
    BY <1>4 DEF NoHandle
  <2> QED
    BY <1>4, <2>1, <2>2, <2>3 DEF TypeOK, RegRecord
<1>6. StageInv
  BY ProcessFacts DEF StageInv, Early, Leader
<1>7. SlotInv
  BY <1>1 DEF SlotInv, Leader, Gathering, Publishing
<1>8. ReceiverInv
  BY <1>2, <1>3 DEF ReceiverInv, Visible, Slots
<1>9. GroupInv
  BY <1>1, <1>2, <1>3 DEF GroupInv, Known, Slots, Announced, Leader
<1>10. \A s \in Sims : SimInv(s)
  BY DEF SimInv, LookupInv, SignalInv, SettledInv, NoHandle
<1> QED
  BY <1>5, <1>6, <1>7, <1>8, <1>9, <1>10 DEF IInv, RegInv

-----------------------------------------------------------------------------
(* A process that may register belongs to a program that gathers.          *)
LEMMA GathererIsEarly ==
  ASSUME StageInv, NEW q \in Processes,
         reg[q].calls = 0 \/ reg[q].at \in Gathering
  PROVE  Early(q[1])
<1>1. q = <<q[1], q[2]>> /\ q[1] \in Apps /\ q[2] \in RanksOf(q[1])
  BY ProcessFacts
<1>2. CASE q[2] = 0
  BY <1>1, <1>2 DEF Early, Leader
<1>3. CASE q[2] # 0
  BY <1>1, <1>3 DEF StageInv, Gathering
<1> QED
  BY <1>2, <1>3

LEMMA ChooseSlotKeeps ==
  ASSUME Registrations = 1, OneAtATime, IInv, NEW q \in Processes, ChooseSlot(q)
  PROVE  IInv'
<1> DEFINE a == q[1]
<1>1. /\ reg[q].at = "out" /\ reg[q].calls = 0
      /\ UNCHANGED <<num_receivers, receivers, num_files, data_groups, subscribed>>
      /\ UNCHANGED <<sim, outcome, stopped, gone>>
      /\ \A b \in Apps \ {a} : ~Inside(b)
      /\ reg \in [Processes -> RegRecord]
  BY DEF ChooseSlot, At, IInv, TypeOK, RegRecord, shm, simulation
<1>2. /\ reg'[q].at = "pid" /\ reg'[q].calls = 1 /\ reg'[q].slot = num_receivers
      /\ reg'[q].count = reg[q].count
      /\ reg' = [reg EXCEPT ![q] = reg'[q]]
      /\ \A p \in Processes \ {q} : reg'[p] = reg[p]
  BY <1>1 DEF ChooseSlot, RegRecord
<1>3. /\ q = <<a, q[2]>> /\ a \in Apps /\ q[2] \in RanksOf(a)
      /\ \A b \in Apps : <<b, 0>> \in Processes
      /\ \A b \in Apps : \A r \in RanksOf(b) : <<b, r>> \in Processes
  BY ProcessFacts
<1>4. Early(a) /\ Early(a)' /\ \A b \in Apps \ {a} : Leader(b)' = Leader(b)
  BY <1>1, <1>2, <1>3, GathererIsEarly DEF Early, Leader, Gathering, IInv, RegInv
<1>5. Counted' = Counted /\ Listed' = Listed /\ a \notin Counted
  BY <1>4 DEF Counted, Listed, Early
<1>6. num_receivers = Cardinality(Counted) /\ num_receivers \in Slots
  BY <1>3, <1>5, Room DEF IInv, RegInv, ReceiverInv
<1>7. TypeOK'
  <2>1. reg'[q] \in RegRecord
    BY <1>1, <1>6 DEF ChooseSlot, RegRecord
  <2>2. reg' \in [Processes -> RegRecord]
    BY <1>1, <1>2, <2>1
  <2> QED
    BY <1>1, <2>2 DEF IInv, TypeOK, RegRecord
<1>8. StageInv'
  <2>1. \A p, r \in Processes : reg'[p].at # "out" /\ reg'[r].at # "out" => p[1] = r[1]
    BY <1>1, <1>2, <1>3, ProcessFacts DEF IInv, RegInv, StageInv, Inside
  <2>2. ASSUME NEW b \in Apps
        PROVE  IF Early(b)'
               THEN \A r \in RanksOf(b) :
                      \/ reg'[<<b, r>>].at = "out" /\ reg'[<<b, r>>].calls = 0
                      \/ reg'[<<b, r>>].at \in Gathering /\ reg'[<<b, r>>].calls = 1
               ELSE \A r \in RanksOf(b) \ {0} :
                      reg'[<<b, r>>].at = "out" /\ reg'[<<b, r>>].calls = 1
    BY <1>2, <1>3, <1>4 DEF IInv, RegInv, StageInv, Early, Gathering
  <2> QED
    BY <2>1, <2>2 DEF StageInv
<1>9. SlotInv'
  BY <1>1, <1>2, <1>3, <1>4 DEF IInv, RegInv, SlotInv, Leader, Publishing, Gathering
<1>10. ReceiverInv'
  BY <1>1, <1>5 DEF IInv, RegInv, ReceiverInv, Visible, Complete
<1>11. GroupInv'
  BY <1>1, <1>2, <1>3, <1>4, <1>5 DEF IInv, RegInv, GroupInv, Known, Leader, Announced, Early, Gathering
<1> QED
  BY <1>1, <1>5, <1>7, <1>8, <1>9, <1>10, <1>11, GrowthKeeps DEF RegInv, Grows, IInv, TypeOK

ReceiverRecord ==
  [app_id : Apps \cup {NoApp}, num_procs : Nat, pid : [Ranks -> Processes \cup {NoPid}]]

LEMMA PidWritten ==
  ASSUME NEW rec \in ReceiverRecord, NEW q \in Processes
  PROVE  /\ WithPid(rec, q) \in ReceiverRecord
         /\ WithPid(rec, q).pid[q[2]] = q
         /\ \A k \in Ranks \ {q[2]} : WithPid(rec, q).pid[k] = rec.pid[k]
         /\ WithPid(rec, q).app_id = rec.app_id /\ WithPid(rec, q).num_procs = rec.num_procs
<1> DEFINE pid == [rec.pid EXCEPT ![q[2]] = q]
<1>1. rec.pid \in [Ranks -> Processes \cup {NoPid}] /\ q[2] \in Ranks
  BY ProcessFacts DEF ReceiverRecord
<1>2. /\ pid \in [Ranks -> Processes \cup {NoPid}]
      /\ pid[q[2]] = q /\ \A k \in Ranks \ {q[2]} : pid[k] = rec.pid[k]
  BY <1>1
<1>3. WithPid(rec, q) = [rec EXCEPT !.pid = pid]
  BY DEF WithPid
<1> HIDE DEF pid
<1>4. /\ WithPid(rec, q) \in ReceiverRecord /\ WithPid(rec, q).pid = pid
      /\ WithPid(rec, q).app_id = rec.app_id /\ WithPid(rec, q).num_procs = rec.num_procs
  BY <1>2, <1>3 DEF ReceiverRecord
<1> QED
  BY <1>2, <1>4

LEMMA GetPidsKeeps ==
  ASSUME Registrations = 1, IInv, NEW q \in Processes, gr_get_pids(q)
  PROVE  IInv'
<1> DEFINE a == q[1]
           n == num_receivers
<1>1. /\ reg[q].at = "pid" /\ reg[q].slot = n
      /\ UNCHANGED <<num_receivers, num_files, data_groups, subscribed>>
      /\ UNCHANGED <<sim, outcome, stopped, gone>>
      /\ reg \in [Processes -> RegRecord]
  BY DEF gr_get_pids, At, IInv, TypeOK, RegRecord, simulation, RegInv, SlotInv, Gathering
<1>2. /\ reg'[q].at = "barrier" /\ reg'[q].calls = reg[q].calls
      /\ reg'[q].slot = reg[q].slot /\ reg'[q].count = reg[q].count
      /\ reg' = [reg EXCEPT ![q] = reg'[q]] /\ reg'[q] \in RegRecord
      /\ \A p \in Processes \ {q} : reg'[p] = reg[p]
  BY <1>1 DEF gr_get_pids, RegRecord
<1>3. /\ q = <<a, q[2]>> /\ a \in Apps /\ q[2] \in RanksOf(a) /\ q[2] \in Ranks
      /\ \A b \in Apps : <<b, 0>> \in Processes
      /\ \A b \in Apps : \A r \in RanksOf(b) : <<b, r>> \in Processes
      /\ \A p \in Processes : p = <<p[1], p[2]>>
  BY ProcessFacts
<1>4. Early(a) /\ Early(a)' /\ \A b \in Apps \ {a} : Leader(b)' = Leader(b)
  BY <1>1, <1>2, <1>3, GathererIsEarly DEF Early, Leader, Gathering, IInv, RegInv
<1>5. Counted' = Counted /\ Listed' = Listed /\ a \notin Counted
  BY <1>4 DEF Counted, Listed, Early
<1>6. num_receivers = Cardinality(Counted) /\ num_receivers \in Slots
  BY <1>3, <1>5, Room DEF IInv, RegInv, ReceiverInv
<1>7. /\ receivers \in [Slots -> ReceiverRecord]
      /\ receivers' = [receivers EXCEPT ![n] = WithPid(receivers[n], q)]
  BY <1>1 DEF gr_get_pids, IInv, TypeOK, ReceiverRecord
<1>8. /\ receivers'[n].pid[q[2]] = q
      /\ \A r \in Ranks \ {q[2]} : receivers'[n].pid[r] = receivers[n].pid[r]
      /\ receivers'[n].app_id = receivers[n].app_id
      /\ receivers'[n].num_procs = receivers[n].num_procs
      /\ \A i \in Visible : receivers'[i] = receivers[i]
      /\ receivers' \in [Slots -> ReceiverRecord]
  <2> DEFINE new == WithPid(receivers[n], q)
  <2>2. /\ new \in ReceiverRecord /\ new.pid[q[2]] = q
        /\ \A r \in Ranks \ {q[2]} : new.pid[r] = receivers[n].pid[r]
        /\ new.app_id = receivers[n].app_id /\ new.num_procs = receivers[n].num_procs
    BY <1>6, <1>7, PidWritten
  <2> HIDE DEF new
  <2>3. /\ receivers'[n] = new /\ \A i \in Slots \ {n} : receivers'[i] = receivers[i]
        /\ receivers' \in [Slots -> ReceiverRecord]
    BY <1>6, <1>7, <2>2 DEF new
  <2>4. \A i \in Visible : i \in Slots \ {n}
    BY <1>6 DEF Visible, Slots
  <2> QED
    BY <2>2, <2>3, <2>4
<1>9. TypeOK'
  <2>1. reg' \in [Processes -> RegRecord]
    BY <1>1, <1>2
  <2> QED
    BY <1>1, <1>8, <2>1 DEF IInv, TypeOK, RegRecord, ReceiverRecord
<1>10. StageInv'
  <2>1. \A p, r \in Processes : reg'[p].at # "out" /\ reg'[r].at # "out" => p[1] = r[1]
    BY <1>1, <1>2 DEF IInv, RegInv, StageInv
  <2>2. ASSUME NEW b \in Apps
        PROVE  IF Early(b)'
               THEN \A r \in RanksOf(b) :
                      \/ reg'[<<b, r>>].at = "out" /\ reg'[<<b, r>>].calls = 0
                      \/ reg'[<<b, r>>].at \in Gathering /\ reg'[<<b, r>>].calls = 1
               ELSE \A r \in RanksOf(b) \ {0} :
                      reg'[<<b, r>>].at = "out" /\ reg'[<<b, r>>].calls = 1
    BY <1>1, <1>2, <1>3, <1>4 DEF IInv, RegInv, StageInv, Early, Gathering
  <2> QED
    BY <2>1, <2>2 DEF StageInv
<1>11. SlotInv'
  <2>1. ASSUME NEW p \in Processes
        PROVE  /\ reg'[p].at \in Gathering \cup Publishing => reg'[p].slot = num_receivers'
               /\ reg'[p].at = "barrier" => receivers'[num_receivers'].pid[p[2]] = p
    <3>1. reg'[p].at \in Gathering \cup Publishing => reg'[p].slot = num_receivers'
      BY <1>1, <1>2 DEF IInv, RegInv, SlotInv, Gathering
    <3>2. ASSUME p # q, reg[p].at = "barrier" PROVE receivers'[n].pid[p[2]] = p
      <4>1. p[1] = a /\ p[2] \in Ranks
        BY <1>1, <3>2, ProcessFacts DEF IInv, RegInv, StageInv
      <4>2. p[2] # q[2]
        BY <1>3, <3>2, <4>1
      <4> QED
        BY <1>8, <3>2, <4>1, <4>2 DEF IInv, RegInv, SlotInv
    <3> QED
      BY <1>1, <1>2, <1>8, <3>1, <3>2
  <2>2. ASSUME NEW b \in Apps
        PROVE  ~(Leader(b)'.at \in Publishing)
    <3>1. reg[<<b, 0>>].at = "out" \/ b = a
      BY <1>1, <1>3 DEF IInv, RegInv, StageInv
    <3>2. CASE b = a
      <4>1. 0 \in RanksOf(a)
        BY <1>3, ProcessFacts
      <4> QED
        BY <1>3, <1>4, <1>10, <3>2, <4>1 DEF StageInv, Publishing, Gathering, Leader
    <3> QED
      BY <1>4, <3>1, <3>2 DEF Publishing, Leader
  <2> QED
    BY <2>1, <2>2 DEF SlotInv, Publishing
<1>12. ReceiverInv'
  BY <1>1, <1>5, <1>8 DEF IInv, RegInv, ReceiverInv, Visible, Complete
<1>13. GroupInv'
  BY <1>1, <1>2, <1>3, <1>4, <1>5
  DEF IInv, RegInv, GroupInv, Known, Leader, Announced, Early, Gathering
<1> QED
  BY <1>1, <1>5, <1>8, <1>9, <1>10, <1>11, <1>12, <1>13, GrowthKeeps
  DEF RegInv, Grows, IInv, TypeOK

LEMMA BarrierKeeps ==
  ASSUME Registrations = 1, IInv, NEW a \in Apps, Barrier(a)
  PROVE  IInv'
<1> DEFINE q == <<a, 0>>
           n == num_receivers
<1>1. /\ \A r \in RanksOf(a) : reg[<<a, r>>].at = "barrier"
      /\ UNCHANGED <<num_receivers, receivers, num_files, data_groups, subscribed>>
      /\ UNCHANGED <<sim, outcome, stopped, gone>>
      /\ reg \in [Processes -> RegRecord]
  BY DEF Barrier, At, RanksOf, IInv, TypeOK, RegRecord, shm, simulation
<1>2. /\ reg' \in [Processes -> RegRecord]
      /\ \A p \in Processes :
           IF p[1] = a
           THEN /\ reg'[p].at = AfterBarrier(p) /\ reg'[p].calls = reg[p].calls
                /\ reg'[p].slot = reg[p].slot /\ reg'[p].count = reg[p].count
           ELSE reg'[p] = reg[p]
  BY <1>1 DEF Barrier, RegRecord, AfterBarrier
<1>3. /\ q \in Processes /\ 0 \in RanksOf(a)
      /\ \A b \in Apps : <<b, 0>> \in Processes
      /\ \A b \in Apps : \A r \in RanksOf(b) : <<b, r>> \in Processes
      /\ \A p \in Processes : p = <<p[1], p[2]>> /\ p[2] \in RanksOf(p[1]) /\ p[1] \in Apps
  BY ProcessFacts
<1>4. /\ \A p \in Processes : p[1] = a => reg[p].at = "barrier" /\ reg[p].calls = 1
      /\ \A p \in Processes : p[1] # a => reg[p].at = "out"
  <2>1. \A p \in Processes : p[1] = a => reg[p].at = "barrier"
    BY <1>1, <1>3
  <2>2. Early(a)
    BY <1>1, <1>3 DEF Early, Leader, Gathering
  <2>3. \A r \in RanksOf(a) : reg[<<a, r>>].calls = 1
    BY <1>1, <2>2 DEF IInv, RegInv, StageInv
  <2>4. \A p \in Processes : p[1] # a => reg[p].at = "out"
    BY <1>3, <2>1 DEF IInv, RegInv, StageInv
  <2> QED
    BY <1>3, <2>1, <2>3, <2>4
<1>5. /\ reg'[q].at = "fill" /\ reg'[q].calls = 1
      /\ \A r \in RanksOf(a) \ {0} : reg'[<<a, r>>].at = "out" /\ reg'[<<a, r>>].calls = 1
      /\ \A p \in Processes \ {q} : reg'[p].at = "out"
  BY <1>2, <1>3, <1>4 DEF AfterBarrier
<1>6. Early(a) /\ ~Early(a)' /\ \A b \in Apps \ {a} : Leader(b)' = Leader(b)
  BY <1>1, <1>2, <1>3, <1>5 DEF Early, Leader, Gathering
<1>7. Counted' = Counted /\ Listed' = Listed
  BY <1>5, <1>6 DEF Counted, Listed, Early, Leader, Publishing
<1>8. TypeOK'
  BY <1>1, <1>2 DEF IInv, TypeOK, RegRecord
<1>9. StageInv'
  <2>1. ASSUME NEW b \in Apps
        PROVE  IF Early(b)'
               THEN \A r \in RanksOf(b) :
                      \/ reg'[<<b, r>>].at = "out" /\ reg'[<<b, r>>].calls = 0
                      \/ reg'[<<b, r>>].at \in Gathering /\ reg'[<<b, r>>].calls = 1
               ELSE \A r \in RanksOf(b) \ {0} :
                      reg'[<<b, r>>].at = "out" /\ reg'[<<b, r>>].calls = 1
    <3>1. CASE b = a
      BY <1>5, <1>6, <3>1
    <3>2. CASE b # a
      <4>1. \A r \in RanksOf(b) : reg'[<<b, r>>] = reg[<<b, r>>]
        BY <1>2, <1>3, <3>2
      <4>2. Early(b)' = Early(b)
        BY <1>6, <3>2 DEF Early
      <4> QED
        BY <4>1, <4>2 DEF IInv, RegInv, StageInv
    <3> QED
      BY <3>1, <3>2
  <2> QED
    BY <1>5, <2>1 DEF StageInv
<1>10. SlotInv'
  <2>1. \A r \in RanksOf(a) : receivers[n].pid[r] = <<a, r>>
    <3> SUFFICES ASSUME NEW r \in RanksOf(a) PROVE receivers[n].pid[r] = <<a, r>>
      OBVIOUS
    <3>1. <<a, r>> \in Processes /\ reg[<<a, r>>].at = "barrier"
      BY <1>1, <1>3
    <3> QED
      BY <3>1 DEF IInv, RegInv, SlotInv
  <2>2. reg'[q].slot = n
    BY <1>2, <1>3, <1>4 DEF IInv, RegInv, SlotInv, Gathering
  <2>3. \A b \in Apps : b # a => Leader(b)'.at = "out"
    BY <1>3, <1>5 DEF Leader
  <2>4. Leader(a)'.at = "fill"
    BY <1>5 DEF Leader
  <2> QED
    BY <1>1, <1>5, <2>1, <2>2, <2>3, <2>4 DEF SlotInv, Gathering, Publishing
<1>11. ReceiverInv'
  BY <1>1, <1>7 DEF IInv, RegInv, ReceiverInv, Visible, Complete
<1>12. GroupInv'
  <2>1. \A b \in Apps : Leader(b)'.at \notin Announced /\ Leader(b).at \notin Announced
    BY <1>3, <1>4, <1>5 DEF Leader, Announced
  <2> QED
    BY <1>1, <1>7, <2>1 DEF IInv, RegInv, GroupInv, Known, Announced
<1> QED
  BY <1>1, <1>7, <1>8, <1>9, <1>10, <1>11, <1>12, GrowthKeeps
  DEF RegInv, Grows, IInv, TypeOK

-----------------------------------------------------------------------------
(* Behind the barrier only rank 0 of one program moves.                    *)
LEMMA LeaderFacts ==
  ASSUME IInv, NEW q \in Processes, reg[q].at \notin Gathering \cup {"out"}
  PROVE  /\ q[1] \in Apps /\ q = <<q[1], 0>> /\ ~Early(q[1])
         /\ Leader(q[1]) = reg[q]
         /\ \A p \in Processes \ {q} : reg[p].at = "out"
         /\ \A b \in Apps \ {q[1]} : <<b, 0>> \in Processes \ {q} /\ Leader(b).at = "out"
         /\ q[1] \notin Listed
<1> DEFINE a == q[1]
<1>1. a \in Apps /\ q = <<a, q[2]>> /\ q[2] \in RanksOf(a) /\ 0 \in RanksOf(a)
      /\ \A b \in Apps : <<b, 0>> \in Processes
  BY ProcessFacts
<1>2. ~Early(a)
  BY <1>1 DEF IInv, RegInv, StageInv
<1>3. q[2] = 0
  BY <1>1, <1>2 DEF IInv, RegInv, StageInv
<1>4. \A p \in Processes \ {q} : reg[p].at = "out"
  <2> SUFFICES ASSUME NEW p \in Processes \ {q}, p[1] = a PROVE reg[p].at = "out"
    BY DEF IInv, RegInv, StageInv
  <2>1. p = <<a, p[2]>> /\ p[2] \in RanksOf(a)
    BY ProcessFacts
  <2>2. p[2] # 0
    BY <1>1, <1>3, <2>1
  <2> QED
    BY <1>1, <1>2, <2>1, <2>2 DEF IInv, RegInv, StageInv
<1> QED
  BY <1>1, <1>2, <1>3, <1>4 DEF Leader, Listed

LEMMA LeaderStages ==
  ASSUME IInv, NEW q \in Processes, reg[q].at \notin Gathering \cup {"out"},
         reg'[q].at \notin Gathering, reg'[q].calls = reg[q].calls,
         \A p \in Processes \ {q} : reg'[p] = reg[p]
  PROVE  /\ StageInv'
         /\ Leader(q[1])' = reg'[q] /\ ~Early(q[1])'
         /\ \A b \in Apps \ {q[1]} : Leader(b)' = Leader(b)
         /\ \A b \in Apps : Early(b)' = Early(b)
<1> DEFINE a == q[1]
<1>1. /\ a \in Apps /\ q = <<a, 0>> /\ ~Early(a) /\ Leader(a) = reg[q]
      /\ \A p \in Processes \ {q} : reg[p].at = "out"
      /\ \A b \in Apps \ {a} : <<b, 0>> \in Processes \ {q}
  BY LeaderFacts
<1>2. Leader(a)' = reg'[q] /\ \A b \in Apps \ {a} : Leader(b)' = Leader(b)
  BY <1>1 DEF Leader
<1>3. ~Early(a)' /\ \A b \in Apps : Early(b)' = Early(b)
  BY <1>1, <1>2 DEF Early
<1>4. /\ \A b \in Apps : \A r \in RanksOf(b) : <<b, r>> \in Processes
      /\ \A b \in Apps : \A r \in RanksOf(b) \ {0} : <<b, r>> # q
      /\ \A b \in Apps : Early(b) => \A r \in RanksOf(b) : <<b, r>> # q
  BY <1>1, ProcessFacts
<1>5. \A p, r \in Processes : reg'[p].at # "out" /\ reg'[r].at # "out" => p[1] = r[1]
  BY <1>1
<1>6. ASSUME NEW b \in Apps
      PROVE  IF Early(b)'
             THEN \A r \in RanksOf(b) :
                    \/ reg'[<<b, r>>].at = "out" /\ reg'[<<b, r>>].calls = 0
                    \/ reg'[<<b, r>>].at \in Gathering /\ reg'[<<b, r>>].calls = 1
             ELSE \A r \in RanksOf(b) \ {0} :
                    reg'[<<b, r>>].at = "out" /\ reg'[<<b, r>>].calls = 1
  BY <1>3, <1>4 DEF IInv, RegInv, StageInv
<1> QED
  BY <1>2, <1>3, <1>5, <1>6 DEF StageInv

(* Before its receiver is counted, and its group, a program has the slot.  *)
LEMMA LeaderRoom ==
  ASSUME Registrations = 1, IInv, NEW q \in Processes,
         reg[q].at \notin Gathering \cup {"out"}
  PROVE  /\ num_files \in Slots /\ num_files + 1 \in 0 .. GR_MAX_NUM_RECEIVERS
         /\ num_files \notin Known
         /\ reg[q].at \in Publishing => /\ num_receivers \in Slots
                                        /\ num_receivers + 1 \in 0 .. GR_MAX_NUM_RECEIVERS
                                        /\ q[1] \notin Counted
         /\ num_receivers \notin Visible
<1>1. q[1] \in Apps /\ q[1] \notin Listed /\ Leader(q[1]) = reg[q]
  BY LeaderFacts
<1>2. reg[q].at \in Publishing => q[1] \notin Counted
  BY <1>1 DEF Counted
<1>3. num_receivers = Cardinality(Counted) /\ num_files = Cardinality(Listed)
  BY DEF IInv, RegInv, ReceiverInv, GroupInv
<1>4. GR_MAX_NUM_RECEIVERS \in Nat
  BY SlotsAssumption
<1> QED
  BY <1>1, <1>2, <1>3, <1>4, Room DEF Visible, Known, Slots

LEMMA FilledFacts ==
  ASSUME NEW rec \in ReceiverRecord, NEW a \in Apps
  PROVE  /\ Filled(rec, a) \in ReceiverRecord /\ Filled(rec, a).pid = rec.pid
         /\ Filled(rec, a).app_id = a /\ Filled(rec, a).num_procs = ProcsOf[a]
BY AppsAssumption DEF Filled, ReceiverRecord

LEMMA FillKeeps ==
  ASSUME Registrations = 1, IInv, NEW q \in Processes, Fill(q)
  PROVE  IInv'
<1> DEFINE a == q[1]
           n == num_receivers
<1>1. /\ reg[q].at = "fill" /\ reg[q].slot = n
      /\ UNCHANGED <<num_receivers, num_files, data_groups, subscribed>>
      /\ UNCHANGED <<sim, outcome, stopped, gone>>
      /\ reg \in [Processes -> RegRecord]
  BY DEF Fill, At, IInv, TypeOK, RegRecord, simulation, RegInv, SlotInv, Publishing
<1>2. /\ reg'[q].at = "count" /\ reg'[q].calls = reg[q].calls
      /\ reg'[q].slot = n /\ reg'[q].count = reg[q].count
      /\ reg' = [reg EXCEPT ![q] = reg'[q]] /\ reg'[q] \in RegRecord
      /\ \A p \in Processes \ {q} : reg'[p] = reg[p]
  BY <1>1 DEF Fill, RegRecord
<1>3. /\ a \in Apps /\ q = <<a, 0>> /\ ~Early(a) /\ Leader(a) = reg[q] /\ a \notin Listed
      /\ \A p \in Processes \ {q} : reg[p].at = "out"
      /\ \A b \in Apps \ {a} : Leader(b).at = "out"
  BY <1>1, LeaderFacts DEF Gathering
<1>4. /\ StageInv' /\ Leader(a)' = reg'[q]
      /\ \A b \in Apps \ {a} : Leader(b)' = Leader(b)
      /\ \A b \in Apps : Early(b)' = Early(b)
  BY <1>1, <1>2, LeaderStages DEF Gathering
<1>5. n \in Slots /\ n \notin Visible
  BY <1>1, LeaderRoom DEF Gathering, Publishing
<1>6. Counted' = Counted /\ Listed' = Listed
  BY <1>1, <1>2, <1>3, <1>4 DEF Counted, Listed, Publishing
<1>7. /\ receivers'[n].pid = receivers[n].pid
      /\ receivers'[n].app_id = a /\ receivers'[n].num_procs = ProcsOf[a]
      /\ \A i \in Visible : receivers'[i] = receivers[i]
      /\ receivers' \in [Slots -> ReceiverRecord]
  <2> DEFINE new == Filled(receivers[n], a)
  <2>1. /\ receivers \in [Slots -> ReceiverRecord]
        /\ receivers' = [receivers EXCEPT ![n] = new]
    BY <1>1 DEF Fill, IInv, TypeOK, ReceiverRecord
  <2>2. /\ new \in ReceiverRecord /\ new.pid = receivers[n].pid
        /\ new.app_id = a /\ new.num_procs = ProcsOf[a]
    BY <1>3, <1>5, <2>1, FilledFacts
  <2> HIDE DEF new
  <2>3. /\ receivers'[n] = new /\ \A i \in Slots \ {n} : receivers'[i] = receivers[i]
        /\ receivers' \in [Slots -> ReceiverRecord]
    BY <1>5, <2>1, <2>2
  <2>4. \A i \in Visible : i \in Slots \ {n}
    BY <1>5 DEF Visible
  <2> QED
    BY <2>2, <2>3, <2>4
<1>8. TypeOK'
  <2>1. reg' \in [Processes -> RegRecord]
    BY <1>1, <1>2
  <2> QED
    BY <1>1, <1>7, <2>1 DEF IInv, TypeOK, RegRecord, ReceiverRecord
<1>9. SlotInv'
  <2>1. \A r \in RanksOf(a) : receivers[n].pid[r] = <<a, r>>
    BY <1>1, <1>3 DEF IInv, RegInv, SlotInv, Publishing
  <2>2. \A b \in Apps : b # a => Leader(b)'.at = "out"
    BY <1>3, <1>4
  <2>3. Leader(a)'.at = "count"
    BY <1>2, <1>4
  <2> QED
    BY <1>1, <1>2, <1>3, <1>7, <2>1, <2>2, <2>3 DEF SlotInv, Gathering, Publishing
<1>10. ReceiverInv'
  BY <1>1, <1>6, <1>7 DEF IInv, RegInv, ReceiverInv, Visible, Complete
<1>11. GroupInv'
  <2>1. \A b \in Apps : Leader(b)'.at \notin Announced /\ Leader(b).at \notin Announced
    BY <1>1, <1>2, <1>3, <1>4 DEF Announced
  <2> QED
    BY <1>1, <1>6, <2>1 DEF IInv, RegInv, GroupInv, Known, Announced
<1> QED
  BY <1>1, <1>4, <1>6, <1>7, <1>8, <1>9, <1>10, <1>11, GrowthKeeps
  DEF RegInv, Grows, IInv, TypeOK

LEMMA LoadCountKeeps ==
  ASSUME Registrations = 1, IInv, NEW q \in Processes, LoadCount(q)
  PROVE  IInv'
<1> DEFINE a == q[1]
           n == num_receivers
<1>1. /\ reg[q].at = "count" /\ reg[q].slot = n
      /\ UNCHANGED <<num_receivers, receivers, num_files, data_groups, subscribed>>
      /\ UNCHANGED <<sim, outcome, stopped, gone>>
      /\ reg \in [Processes -> RegRecord]
  BY DEF LoadCount, At, IInv, TypeOK, RegRecord, simulation, shm, RegInv, SlotInv, Publishing
<1>2. /\ reg'[q].at = "publish" /\ reg'[q].calls = reg[q].calls
      /\ reg'[q].slot = n /\ reg'[q].count = n
      /\ reg' = [reg EXCEPT ![q] = reg'[q]]
      /\ \A p \in Processes \ {q} : reg'[p] = reg[p]
  BY <1>1 DEF LoadCount, RegRecord
<1>3. /\ a \in Apps /\ q = <<a, 0>> /\ ~Early(a) /\ Leader(a) = reg[q] /\ a \notin Listed
      /\ \A p \in Processes \ {q} : reg[p].at = "out"
      /\ \A b \in Apps \ {a} : Leader(b).at = "out"
  BY <1>1, LeaderFacts DEF Gathering
<1>4. /\ StageInv' /\ Leader(a)' = reg'[q]
      /\ \A b \in Apps \ {a} : Leader(b)' = Leader(b)
      /\ \A b \in Apps : Early(b)' = Early(b)
  BY <1>1, <1>2, LeaderStages DEF Gathering
<1>5. n \in Slots
  BY <1>1, LeaderRoom DEF Gathering, Publishing
<1>6. Counted' = Counted /\ Listed' = Listed
  BY <1>1, <1>2, <1>3, <1>4 DEF Counted, Listed, Publishing
<1>7. TypeOK'
  <2>1. reg'[q] \in RegRecord
    BY <1>1, <1>5 DEF LoadCount, RegRecord
  <2>2. reg' \in [Processes -> RegRecord]
    BY <1>1, <1>2, <2>1
  <2> QED
    BY <1>1, <2>2 DEF IInv, TypeOK, RegRecord
<1>8. SlotInv'
  <2>1. /\ \A r \in RanksOf(a) : receivers[n].pid[r] = <<a, r>>
        /\ receivers[n].app_id = a /\ receivers[n].num_procs = ProcsOf[a]
    BY <1>1, <1>3 DEF IInv, RegInv, SlotInv, Publishing
  <2>2. \A b \in Apps : b # a => Leader(b)'.at = "out"
    BY <1>3, <1>4
  <2>3. Leader(a)'.at = "publish" /\ Leader(a)'.count = n
    BY <1>2, <1>4
  <2> QED
    BY <1>1, <1>2, <1>3, <2>1, <2>2, <2>3 DEF SlotInv, Gathering, Publishing
<1>9. ReceiverInv'
  BY <1>1, <1>6 DEF IInv, RegInv, ReceiverInv, Visible, Complete
<1>10. GroupInv'
  <2>1. \A b \in Apps : Leader(b)'.at \notin Announced /\ Leader(b).at \notin Announced
    BY <1>1, <1>2, <1>3, <1>4 DEF Announced
  <2> QED
    BY <1>1, <1>6, <2>1 DEF IInv, RegInv, GroupInv, Known, Announced
<1> QED
  BY <1>1, <1>4, <1>6, <1>7, <1>8, <1>9, <1>10, GrowthKeeps
  DEF RegInv, Grows, IInv, TypeOK

LEMMA PublishKeeps ==
  ASSUME Registrations = 1, IInv, NEW q \in Processes, Publish(q)
  PROVE  IInv'
<1> DEFINE a == q[1]
           n == num_receivers
<1>1. /\ reg[q].at = "publish" /\ reg[q].slot = n
      /\ UNCHANGED <<receivers, num_files, data_groups, subscribed>>
      /\ UNCHANGED <<sim, outcome, stopped, gone>>
      /\ reg \in [Processes -> RegRecord]
  BY DEF Publish, At, IInv, TypeOK, RegRecord, simulation, shm, RegInv, SlotInv, Publishing
<1>2. /\ reg'[q].at = "group" /\ reg'[q].calls = reg[q].calls
      /\ reg'[q].slot = n /\ reg'[q].count = reg[q].count
      /\ reg' = [reg EXCEPT ![q] = reg'[q]] /\ reg'[q] \in RegRecord
      /\ \A p \in Processes \ {q} : reg'[p] = reg[p]
  BY <1>1 DEF Publish, RegRecord
<1>3. /\ a \in Apps /\ q = <<a, 0>> /\ ~Early(a) /\ Leader(a) = reg[q] /\ a \notin Listed
      /\ \A p \in Processes \ {q} : reg[p].at = "out"
      /\ \A b \in Apps \ {a} : Leader(b).at = "out"
  BY <1>1, LeaderFacts DEF Gathering
<1>4. /\ StageInv' /\ Leader(a)' = reg'[q]
      /\ \A b \in Apps \ {a} : Leader(b)' = Leader(b)
      /\ \A b \in Apps : Early(b)' = Early(b)
  BY <1>1, <1>2, LeaderStages DEF Gathering
<1>5. /\ n \in Slots /\ n \notin Visible /\ a \notin Counted
      /\ n + 1 \in 0 .. GR_MAX_NUM_RECEIVERS
  BY <1>1, LeaderRoom DEF Gathering, Publishing
<1>6. /\ \A r \in RanksOf(a) : receivers[n].pid[r] = <<a, r>>
      /\ receivers[n].app_id = a /\ receivers[n].num_procs = ProcsOf[a]
      /\ n' = n + 1
  BY <1>1, <1>3 DEF IInv, RegInv, SlotInv, Publishing, Publish
<1>7. Counted' = Counted \cup {a} /\ Listed' = Listed
  BY <1>1, <1>2, <1>3, <1>4 DEF Counted, Listed, Publishing
<1>8. Visible' = Visible \cup {n}
  BY <1>5, <1>6 DEF Visible, Slots
<1>9. TypeOK'
  <2>1. reg' \in [Processes -> RegRecord]
    BY <1>1, <1>2
  <2> QED
    BY <1>1, <1>5, <1>6, <2>1 DEF IInv, TypeOK, RegRecord
<1>10. SlotInv'
  <2>1. \A b \in Apps : Leader(b)'.at \notin Publishing
    BY <1>2, <1>3, <1>4 DEF Publishing
  <2>2. \A p \in Processes : reg'[p].at \notin Gathering \cup Publishing
    BY <1>2, <1>3 DEF Gathering, Publishing
  <2> QED
    BY <2>1, <2>2 DEF SlotInv, Publishing, Gathering
<1>11. ReceiverInv'
  <2>1. Cardinality(Counted') = Cardinality(Counted) + 1
    <3>1. Counted \subseteq Apps /\ IsFiniteSet(Counted)
      BY AppsAssumption, FS_Subset DEF Counted
    <3> QED
      BY <1>5, <1>7, <3>1, FS_AddElement
  <2>2. /\ \A i \in Slots : i = n => Complete(i)'
        /\ receivers'[n].app_id = a
    BY <1>1, <1>3, <1>6 DEF Complete, RanksOf
  <2>3. \A i \in Visible : Complete(i)' = Complete(i) /\ receivers'[i] = receivers[i]
    BY <1>1 DEF Complete
  <2>4. \A i \in Visible : receivers[i].app_id # a
    BY <1>5 DEF IInv, RegInv, ReceiverInv
  <2>5. \A i \in Visible' : Complete(i)' /\ receivers'[i].app_id \in Counted'
    BY <1>5, <1>7, <1>8, <2>2, <2>3 DEF IInv, RegInv, ReceiverInv
  <2>6. \A b \in Counted' : \E i \in Visible' : receivers'[i].app_id = b
    BY <1>7, <1>8, <2>2, <2>3 DEF IInv, RegInv, ReceiverInv
  <2>7. \A i, j \in Visible' : receivers'[i].app_id = receivers'[j].app_id => i = j
    BY <1>8, <2>2, <2>3, <2>4 DEF IInv, RegInv, ReceiverInv
  <2>8. n' = Cardinality(Counted')
    BY <1>6, <2>1 DEF IInv, RegInv, ReceiverInv
  <2> QED
    BY <2>5, <2>6, <2>7, <2>8 DEF ReceiverInv
<1>12. GroupInv'
  <2>1. \A b \in Apps : Leader(b)'.at \notin Announced /\ Leader(b).at \notin Announced
    BY <1>1, <1>2, <1>3, <1>4 DEF Announced
  <2> QED
    BY <1>1, <1>7, <2>1 DEF IInv, RegInv, GroupInv, Known, Announced
<1>13. Grows
  BY <1>1, <1>5, <1>6, <1>7 DEF Grows, Slots
<1> QED
  BY <1>1, <1>4, <1>9, <1>10, <1>11, <1>12, <1>13, GrowthKeeps
  DEF RegInv, IInv

LEMMA AddGroupKeeps ==
  ASSUME Registrations = 1, IInv, NEW q \in Processes, NEW g \in Groups, AddGroup(q, g)
  PROVE  IInv'
<1> DEFINE a == q[1]
           f == num_files
<1>1. /\ reg[q].at = "group"
      /\ UNCHANGED <<num_receivers, receivers, num_files>>
      /\ UNCHANGED <<sim, outcome, stopped, gone>>
      /\ reg \in [Processes -> RegRecord]
      /\ data_groups \in [Slots -> [name : Groups \cup {NoGroup},
                                    receiver_app_id : Apps \cup {NoApp}]]
      /\ subscribed \in [Apps -> SUBSET Groups]
  BY DEF AddGroup, At, IInv, TypeOK, RegRecord, simulation
<1>2. /\ a \in Apps /\ q = <<a, 0>> /\ ~Early(a) /\ Leader(a) = reg[q] /\ a \notin Listed
      /\ \A p \in Processes \ {q} : reg[p].at = "out"
      /\ \A b \in Apps \ {a} : Leader(b).at = "out"
  BY <1>1, LeaderFacts DEF Gathering
<1>3. f \in Slots /\ f \notin Known /\ 0 \in Slots
  BY <1>1, LeaderRoom, SlotsAssumption DEF Gathering, Slots
<1>4. /\ reg'[q].at = "count_group" /\ reg'[q].calls = reg[q].calls
      /\ reg'[q].slot = 0 /\ reg'[q].count = 0
      /\ reg' = [reg EXCEPT ![q] = reg'[q]] /\ reg'[q] \in RegRecord
      /\ \A p \in Processes \ {q} : reg'[p] = reg[p]
  BY <1>1, <1>3 DEF AddGroup, RegRecord
<1>5. /\ StageInv' /\ Leader(a)' = reg'[q]
      /\ \A b \in Apps \ {a} : Leader(b)' = Leader(b)
      /\ \A b \in Apps : Early(b)' = Early(b)
  BY <1>1, <1>4, LeaderStages DEF Gathering
<1>6. Counted' = Counted /\ Listed' = Listed
  BY <1>1, <1>2, <1>4, <1>5 DEF Counted, Listed, Publishing
<1>7. /\ data_groups' = [data_groups EXCEPT ![f] = [name |-> g, receiver_app_id |-> a]]
      /\ data_groups'[f].name = g /\ data_groups'[f].receiver_app_id = a
      /\ \A j \in Known : data_groups'[j] = data_groups[j]
  BY <1>1, <1>3 DEF AddGroup, Known
<1>8. /\ subscribed[a] = {} /\ subscribed'[a] = {g}
      /\ subscribed' \in [Apps -> SUBSET Groups]
      /\ \A b \in Apps \ {a} : subscribed'[b] = subscribed[b]
  <2>1. subscribed[a] = {}
    BY <1>1, <1>2 DEF IInv, RegInv, GroupInv, Announced
  <2> QED
    BY <1>1, <1>2, <2>1 DEF AddGroup
<1>9. TypeOK'
  <2>1. reg' \in [Processes -> RegRecord]
    BY <1>1, <1>4
  <2>2. data_groups' \in [Slots -> [name : Groups \cup {NoGroup},
                                    receiver_app_id : Apps \cup {NoApp}]]
    BY <1>1, <1>2, <1>7
  <2> QED
    BY <1>1, <1>8, <2>1, <2>2 DEF IInv, TypeOK, RegRecord
<1>10. SlotInv'
  <2>1. \A b \in Apps : Leader(b)'.at \notin Publishing
    BY <1>2, <1>4, <1>5 DEF Publishing
  <2>2. \A p \in Processes : reg'[p].at \notin Gathering \cup Publishing
    BY <1>2, <1>4 DEF Gathering, Publishing
  <2> QED
    BY <2>1, <2>2 DEF SlotInv, Publishing, Gathering
<1>11. ReceiverInv'
  BY <1>1, <1>6 DEF IInv, RegInv, ReceiverInv, Visible, Complete
<1>12. GroupInv'
  <2>1. \A b \in Apps \ {a} : Leader(b)'.at = "out" /\ Leader(b).at = "out"
    BY <1>2, <1>5
  <2>2. ASSUME NEW b \in Apps \ Listed
        PROVE  IF Leader(b)'.at \in Announced
               THEN /\ data_groups'[f].receiver_app_id = b
                    /\ subscribed'[b] = {data_groups'[f].name}
               ELSE subscribed'[b] = {}
    BY <1>4, <1>5, <1>7, <1>8, <2>1 DEF IInv, RegInv, GroupInv, Announced
  <2>3. \A b \in Apps : Leader(b)'.at # "publish_group"
    BY <1>4, <1>5, <2>1
  <2>4. \A j \in Known : /\ data_groups'[j].receiver_app_id \in Listed
                         /\ data_groups'[j].name
                              \in subscribed'[data_groups'[j].receiver_app_id]
    BY <1>2, <1>7, <1>8 DEF IInv, RegInv, GroupInv, Listed
  <2>5. ASSUME NEW b \in Listed, NEW h \in subscribed'[b]
        PROVE  \E j \in Known : /\ data_groups'[j].name = h
                                /\ data_groups'[j].receiver_app_id = b
    BY <1>2, <1>7, <1>8 DEF IInv, RegInv, GroupInv, Listed
  <2>6. Known' = Known /\ num_files' = Cardinality(Listed')
    BY <1>1, <1>6 DEF Known, IInv, RegInv, GroupInv
  <2>7. \A b \in Apps \ Listed' :
          IF Leader(b)'.at \in Announced
          THEN /\ data_groups'[num_files'].receiver_app_id = b
               /\ subscribed'[b] = {data_groups'[num_files'].name}
          ELSE subscribed'[b] = {}
    BY <1>1, <1>6, <2>2
  <2>8. \A b \in Listed' : \A h \in subscribed'[b] :
          \E j \in Known' : data_groups'[j].name = h /\ data_groups'[j].receiver_app_id = b
    BY <1>6, <2>5, <2>6
  <2>9. \A j \in Known' : /\ data_groups'[j].receiver_app_id \in Listed'
                          /\ data_groups'[j].name
                               \in subscribed'[data_groups'[j].receiver_app_id]
    BY <1>6, <2>4, <2>6
  <2> QED
    BY <2>3, <2>6, <2>7, <2>8, <2>9 DEF GroupInv
<1>13. Grows
  <2>1. num_receivers <= num_receivers'
    BY <1>1 DEF IInv, TypeOK
  <2>2. \A b \in Apps : subscribed[b] \subseteq subscribed'[b]
    BY <1>8
  <2> QED
    BY <1>1, <1>6, <2>1, <2>2 DEF Grows
<1> QED
  BY <1>1, <1>5, <1>9, <1>10, <1>11, <1>12, <1>13, GrowthKeeps DEF RegInv, IInv

LEMMA LoadGroupsKeeps ==
  ASSUME Registrations = 1, IInv, NEW q \in Processes, LoadGroups(q)
  PROVE  IInv'
<1> DEFINE a == q[1]
           f == num_files
<1>1. /\ reg[q].at = "count_group"
      /\ UNCHANGED <<num_receivers, receivers, num_files, data_groups, subscribed>>
      /\ UNCHANGED <<sim, outcome, stopped, gone>>
      /\ reg \in [Processes -> RegRecord]
  BY DEF LoadGroups, At, IInv, TypeOK, RegRecord, simulation, shm
<1>2. /\ a \in Apps /\ q = <<a, 0>> /\ ~Early(a) /\ Leader(a) = reg[q] /\ a \notin Listed
      /\ \A p \in Processes \ {q} : reg[p].at = "out"
      /\ \A b \in Apps \ {a} : Leader(b).at = "out"
  BY <1>1, LeaderFacts DEF Gathering
<1>3. f \in Slots
  BY <1>1, LeaderRoom DEF Gathering
<1>4. /\ reg'[q].at = "publish_group" /\ reg'[q].calls = reg[q].calls
      /\ reg'[q].slot = reg[q].slot /\ reg'[q].count = f
      /\ reg' = [reg EXCEPT ![q] = reg'[q]] /\ reg'[q] \in RegRecord
      /\ \A p \in Processes \ {q} : reg'[p] = reg[p]
  BY <1>1, <1>3 DEF LoadGroups, RegRecord
<1>5. /\ StageInv' /\ Leader(a)' = reg'[q]
      /\ \A b \in Apps \ {a} : Leader(b)' = Leader(b)
      /\ \A b \in Apps : Early(b)' = Early(b)
  BY <1>1, <1>4, LeaderStages DEF Gathering
<1>6. Counted' = Counted /\ Listed' = Listed
  BY <1>1, <1>2, <1>4, <1>5 DEF Counted, Listed, Publishing
<1>7. TypeOK'
  <2>1. reg' \in [Processes -> RegRecord]
    BY <1>1, <1>4
  <2> QED
    BY <1>1, <2>1 DEF IInv, TypeOK, RegRecord
<1>8. SlotInv'
  <2>1. \A b \in Apps : Leader(b)'.at \notin Publishing
    BY <1>2, <1>4, <1>5 DEF Publishing
  <2>2. \A p \in Processes : reg'[p].at \notin Gathering \cup Publishing
    BY <1>2, <1>4 DEF Gathering, Publishing
  <2> QED
    BY <2>1, <2>2 DEF SlotInv, Publishing, Gathering
<1>9. ReceiverInv'
  BY <1>1, <1>6 DEF IInv, RegInv, ReceiverInv, Visible, Complete
<1>10. GroupInv'
  <2>1. \A b \in Apps : Leader(b)'.at \in Announced <=> Leader(b).at \in Announced
    BY <1>1, <1>2, <1>4, <1>5 DEF Announced
  <2>2. \A b \in Apps : Leader(b)'.at = "publish_group" => Leader(b)'.count = f
    BY <1>2, <1>4, <1>5
  <2> QED
    BY <1>1, <1>6, <2>1, <2>2 DEF IInv, RegInv, GroupInv, Known
<1> QED
  BY <1>1, <1>5, <1>6, <1>7, <1>8, <1>9, <1>10, GrowthKeeps
  DEF RegInv, Grows, IInv, TypeOK

LEMMA PublishGroupKeeps ==
  ASSUME Registrations = 1, IInv, NEW q \in Processes, PublishGroup(q)
  PROVE  IInv'
<1> DEFINE a == q[1]
           f == num_files
<1>1. /\ reg[q].at = "publish_group"
      /\ UNCHANGED <<num_receivers, receivers, data_groups, subscribed>>
      /\ UNCHANGED <<sim, outcome, stopped, gone>>
      /\ reg \in [Processes -> RegRecord]
  BY DEF PublishGroup, At, IInv, TypeOK, RegRecord, simulation
<1>2. /\ a \in Apps /\ q = <<a, 0>> /\ ~Early(a) /\ Leader(a) = reg[q] /\ a \notin Listed
      /\ \A p \in Processes \ {q} : reg[p].at = "out"
      /\ \A b \in Apps \ {a} : Leader(b).at = "out"
  BY <1>1, LeaderFacts DEF Gathering
<1>3. f \in Slots /\ f + 1 \in 0 .. GR_MAX_NUM_RECEIVERS /\ f \notin Known /\ 0 \in Slots
  BY <1>1, LeaderRoom, SlotsAssumption DEF Gathering, Slots
<1>4. /\ reg'[q].at = "out" /\ reg'[q].calls = reg[q].calls
      /\ reg' = [reg EXCEPT ![q] = reg'[q]] /\ reg'[q] \in RegRecord
      /\ \A p \in Processes \ {q} : reg'[p] = reg[p]
  BY <1>1, <1>3 DEF PublishGroup, RegRecord
<1>5. /\ StageInv' /\ Leader(a)' = reg'[q]
      /\ \A b \in Apps \ {a} : Leader(b)' = Leader(b)
      /\ \A b \in Apps : Early(b)' = Early(b)
  BY <1>1, <1>4, LeaderStages DEF Gathering
<1>6. f' = f + 1
  BY <1>1, <1>2 DEF PublishGroup, IInv, RegInv, GroupInv
<1>7. Counted' = Counted /\ Listed' = Listed \cup {a}
  BY <1>1, <1>2, <1>4, <1>5 DEF Counted, Listed, Publishing
<1>8. Known' = Known \cup {f}
  BY <1>3, <1>6 DEF Known, Slots
<1>9. TypeOK'
  <2>1. reg' \in [Processes -> RegRecord]
    BY <1>1, <1>4
  <2> QED
    BY <1>1, <1>3, <1>6, <2>1 DEF IInv, TypeOK, RegRecord
<1>10. SlotInv'
  <2>1. \A b \in Apps : Leader(b)'.at \notin Publishing
    BY <1>2, <1>4, <1>5 DEF Publishing
  <2>2. \A p \in Processes : reg'[p].at \notin Gathering \cup Publishing
    BY <1>2, <1>4 DEF Gathering, Publishing
  <2> QED
    BY <2>1, <2>2 DEF SlotInv, Publishing, Gathering
<1>11. ReceiverInv'
  BY <1>1, <1>7 DEF IInv, RegInv, ReceiverInv, Visible, Complete
<1>12. GroupInv'
  <2>1. Cardinality(Listed') = Cardinality(Listed) + 1
    <3>1. Listed \subseteq Apps /\ IsFiniteSet(Listed)
      BY AppsAssumption, FS_Subset DEF Listed
    <3> QED
      BY <1>2, <1>7, <3>1, FS_AddElement
  <2>2. /\ data_groups[f].receiver_app_id = a
        /\ subscribed[a] = {data_groups[f].name}
    BY <1>1, <1>2 DEF IInv, RegInv, GroupInv, Announced
  <2>3. \A b \in Apps : Leader(b)'.at = "out" /\ (b # a => Leader(b).at = "out")
    BY <1>2, <1>4, <1>5
  <2>4. \A b \in Apps \ Listed' : subscribed[b] = {}
    BY <1>7, <2>3 DEF IInv, RegInv, GroupInv, Announced
  <2>5. \A j \in Known' : /\ data_groups[j].receiver_app_id \in Listed'
                          /\ data_groups[j].name \in subscribed[data_groups[j].receiver_app_id]
    BY <1>7, <1>8, <2>2 DEF IInv, RegInv, GroupInv
  <2>6. ASSUME NEW b \in Listed', NEW h \in subscribed[b]
        PROVE  \E j \in Known' : data_groups[j].name = h /\ data_groups[j].receiver_app_id = b
    BY <1>7, <1>8, <2>2 DEF IInv, RegInv, GroupInv
  <2>7. num_files' = Cardinality(Listed')
    BY <1>6, <2>1 DEF IInv, RegInv, GroupInv
  <2> QED
    BY <1>1, <2>3, <2>4, <2>5, <2>6, <2>7 DEF GroupInv, Announced
<1>13. Grows
  BY <1>1, <1>7 DEF Grows, IInv, TypeOK
<1> QED
  BY <1>1, <1>5, <1>9, <1>10, <1>11, <1>12, <1>13, GrowthKeeps DEF RegInv, IInv

LEMMA ExitKeeps ==
  ASSUME IInv, NEW q \in Processes, Exit(q)
  PROVE  IInv'
<1>1. /\ UNCHANGED <<num_receivers, receivers, num_files, data_groups, subscribed, reg>>
      /\ UNCHANGED <<sim, outcome, stopped>> /\ gone' = gone \cup {q}
  BY DEF Exit, shm
<1>2. Counted' = Counted /\ Listed' = Listed
  BY <1>1 DEF Counted, Listed, Early, Leader
<1>3. TypeOK'
  BY <1>1 DEF IInv, TypeOK
<1>4. RegInv'
  <2>1. StageInv' /\ SlotInv'
    BY <1>1 DEF IInv, RegInv, StageInv, SlotInv, Early, Leader
  <2>2. ReceiverInv'
    BY <1>1, <1>2 DEF IInv, RegInv, ReceiverInv, Visible, Complete
  <2>3. GroupInv'
    BY <1>1, <1>2 DEF IInv, RegInv, GroupInv, Known, Leader
  <2> QED
    BY <2>1, <2>2, <2>3 DEF RegInv
<1>5. Grows
  BY <1>1, <1>2 DEF Grows, IInv, TypeOK
<1> QED
  BY <1>1, <1>3, <1>4, <1>5, GrowthKeeps

-----------------------------------------------------------------------------
(* What simulation processes do leaves the registry alone.                 *)
LEMMA RegistryStays ==
  ASSUME IInv, UNCHANGED analytics
  PROVE  RegInv' /\ Listed' = Listed /\ Visible' = Visible
<1>1. UNCHANGED <<num_receivers, receivers, num_files, data_groups, subscribed, reg, gone>>
  BY DEF analytics, shm
<1>2. Counted' = Counted /\ Listed' = Listed /\ Visible' = Visible
  BY <1>1 DEF Counted, Listed, Early, Leader, Visible
<1>3. StageInv' /\ SlotInv'
  BY <1>1 DEF IInv, RegInv, StageInv, SlotInv, Early, Leader
<1>4. ReceiverInv'
  BY <1>1, <1>2 DEF IInv, RegInv, ReceiverInv, Complete
<1>5. GroupInv'
  BY <1>1, <1>2 DEF IInv, RegInv, GroupInv, Known, Leader
<1> QED
  BY <1>2, <1>3, <1>4, <1>5 DEF RegInv

(* A step of a simulation process that stops and continues nobody.         *)
LEMMA OthersKeep ==
  ASSUME IInv, TypeOK', NEW s \in Sims, SimInv(s)',
         UNCHANGED <<analytics, stopped>>,
         \A t \in Sims \ {s} : sim'[t] = sim[t] /\ outcome'[t] = outcome[t]
  PROVE  IInv'
<1>1. UNCHANGED <<num_receivers, receivers, num_files, data_groups, subscribed, reg, gone>>
  BY DEF analytics, shm
<1>2. RegInv' /\ Listed' = Listed /\ Visible' = Visible
  BY RegistryStays
<1>3. ASSUME NEW t \in Sims \ {s} PROVE SimInv(t)'
  <2>1. SimInv(t)
    BY DEF IInv
  <2>2. LookupInv(t)'
    BY <1>1, <1>2, <2>1 DEF SimInv, LookupInv
  <2>3. SignalInv(t)'
    BY <1>1, <2>1 DEF SimInv, SignalInv, Signalled
  <2>4. SettledInv(t)'
    BY <1>1, <1>2, <2>1 DEF SimInv, SettledInv, Share
  <2> QED
    BY <2>2, <2>3, <2>4 DEF SimInv
<1> QED
  BY <1>2, <1>3 DEF IInv

HandleRecord ==
  [at : {"idle", "ready", "null", "seek", "suspend", "resume"},
   handle : Slots \cup {-1}, pid_index : Nat,
   num_r : 0 .. GR_MAX_NUM_RECEIVERS,
   sought : Groups \cup {NoGroup}, sure : BOOLEAN]

(* A step that only looks around: the outcomes of the calls stand.         *)
LEMMA LookingKeeps ==
  ASSUME IInv, NEW s \in Sims, UNCHANGED <<analytics, outcome, stopped>>,
         sim' \in [Sims -> HandleRecord],
         \A t \in Sims \ {s} : sim'[t] = sim[t],
         sim'[s].at \notin {"suspend", "resume"}, LookupInv(s)'
  PROVE  IInv'
<1>1. UNCHANGED <<num_receivers, receivers, num_files, data_groups, subscribed, reg, gone>>
  BY DEF analytics, shm
<1>2. TypeOK'
  BY <1>1 DEF IInv, TypeOK, HandleRecord
<1>3. SettledInv(s)'
  BY <1>1 DEF IInv, SimInv, SettledInv, Share, Visible
<1>4. SignalInv(s)'
  BY DEF SignalInv
<1> QED
  BY <1>2, <1>3, <1>4, OthersKeep DEF SimInv

LEMMA SearchKeeps ==
  ASSUME IInv, NEW s \in Sims,
         \/ \E h \in Slots : gr_get_receivers(s, h)
         \/ \E g \in Groups : Seek(s, g)
         \/ Find(s) \/ FindNone(s)
  PROVE  IInv'
<1>1. /\ UNCHANGED <<analytics, outcome, stopped>>
      /\ UNCHANGED <<num_receivers, receivers, num_files, data_groups, subscribed, reg, gone>>
  BY DEF gr_get_receivers, Seek, Find, FindNone, analytics, shm
<1>2. /\ sim \in [Sims -> HandleRecord] /\ sim[s] \in HandleRecord
      /\ num_receivers \in 0 .. GR_MAX_NUM_RECEIVERS /\ num_receivers \in Nat
      /\ LookupInv(s) /\ 0 \in 0 .. GR_MAX_NUM_RECEIVERS
  BY SlotsAssumption DEF IInv, TypeOK, HandleRecord, SimInv
<1>3. Listed' = Listed /\ Visible' = Visible
  BY <1>1 DEF Listed, Visible, Early, Leader
<1>4. ASSUME NEW h \in Slots, gr_get_receivers(s, h) PROVE IInv'
  <2>1. /\ sim'[s] = [NoHandle EXCEPT !.at = "ready", !.handle = h]
        /\ \A t \in Sims \ {s} : sim'[t] = sim[t]
        /\ sim' = [sim EXCEPT ![s] = sim'[s]] /\ h \in Visible
    BY <1>2, <1>4 DEF gr_get_receivers, Visible
  <2>2. /\ sim'[s].at = "ready" /\ sim'[s].handle = h /\ sim'[s].sought = NoGroup
        /\ sim'[s] \in HandleRecord
    <3>1. sim'[s] = [at |-> "ready", handle |-> h, pid_index |-> 0, num_r |-> 0,
                     sought |-> NoGroup, sure |-> FALSE]
      BY <2>1 DEF NoHandle
    <3> QED
      BY <1>2, <3>1 DEF HandleRecord
  <2>3. sim' \in [Sims -> HandleRecord]
    BY <1>2, <2>1, <2>2
  <2>4. LookupInv(s)'
    BY <1>3, <2>1, <2>2 DEF LookupInv
  <2> QED
    BY <1>1, <2>1, <2>2, <2>3, <2>4, LookingKeeps
<1>5. ASSUME NEW g \in Groups, Seek(s, g) PROVE IInv'
  <2> DEFINE sure == \E a \in Apps : Registered(a) /\ g \in subscribed[a]
  <2>1. /\ sim'[s] = [NoHandle EXCEPT !.at = "seek", !.num_r = num_receivers,
                                      !.sought = g, !.sure = sure]
        /\ \A t \in Sims \ {s} : sim'[t] = sim[t]
        /\ sim' = [sim EXCEPT ![s] = sim'[s]]
    BY <1>2, <1>5 DEF Seek
  <2>2. sure \in BOOLEAN
    OBVIOUS
  <2>3. sure => \E a \in Listed : /\ g \in subscribed[a]
                                  /\ \E i \in Visible : i < num_receivers /\ receivers[i].app_id = a
    <3> SUFFICES ASSUME NEW a \in Apps, Registered(a), g \in subscribed[a]
                 PROVE  a \in Listed /\ \E i \in Visible : /\ i < num_receivers
                                                           /\ receivers[i].app_id = a
      OBVIOUS
    <3>1. ~Early(a) /\ Leader(a).at = "out"
      BY DEF Registered, Early, Leader, Gathering
    <3>2. a \in Listed /\ a \in Counted
      BY <3>1 DEF Listed, Counted, Publishing
    <3> QED
      BY <3>2 DEF IInv, RegInv, ReceiverInv, Visible
  <2> HIDE DEF sure
  <2>4. /\ sim'[s].at = "seek" /\ sim'[s].num_r = num_receivers /\ sim'[s].sought = g
        /\ sim'[s].sure = sure /\ sim'[s] \in HandleRecord
    <3>1. sim'[s] = [at |-> "seek", handle |-> -1, pid_index |-> 0,
                     num_r |-> num_receivers, sought |-> g, sure |-> sure]
      BY <2>1 DEF NoHandle
    <3> QED
      BY <1>2, <2>2, <3>1 DEF HandleRecord
  <2>5. sim' \in [Sims -> HandleRecord]
    BY <1>2, <2>1, <2>4
  <2>6. LookupInv(s)'
    BY <1>1, <1>2, <1>3, <2>3, <2>4 DEF LookupInv
  <2> QED
    BY <1>1, <2>1, <2>4, <2>5, <2>6, LookingKeeps
<1>6. CASE Find(s)
  <2>1. PICK p \in Pairs(s) :
          sim' = [sim EXCEPT ![s].at = "ready", ![s].handle = p[2], ![s].num_r = 0]
    BY <1>6 DEF Find
  <2>2. /\ p[1] \in Known /\ p[2] \in Slots /\ p[2] < sim[s].num_r
        /\ data_groups[p[1]].name = sim[s].sought
        /\ receivers[p[2]].app_id = data_groups[p[1]].receiver_app_id
    BY <2>1 DEF Pairs, KnownGroups, Known
  <2>3. /\ sim'[s].at = "ready" /\ sim'[s].handle = p[2] /\ sim'[s].sought = sim[s].sought
        /\ \A t \in Sims \ {s} : sim'[t] = sim[t]
        /\ sim' = [sim EXCEPT ![s] = sim'[s]]
    BY <1>2, <2>1, <2>2 DEF HandleRecord
  <2>4. sim'[s] \in HandleRecord
    <3>1. sim'[s] = [sim[s] EXCEPT !.at = "ready", !.handle = p[2], !.num_r = 0]
      BY <1>2, <2>1
    <3>2. \A h \in Slots :
            [sim[s] EXCEPT !.at = "ready", !.handle = h, !.num_r = 0] \in HandleRecord
      BY <1>2 DEF HandleRecord
    <3> QED
      BY <2>2, <3>1, <3>2
  <2>5. p[2] \in Visible
    <3>1. sim[s].num_r <= num_receivers
      BY <1>2, <1>6 DEF Find, LookupInv
    <3>2. sim[s].num_r \in Int /\ num_receivers \in Int
      BY <1>2 DEF HandleRecord
    <3>3. \A h \in Slots, n \in Int : h < n /\ n <= num_receivers => h < num_receivers
      BY <3>2 DEF Slots
    <3> QED
      BY <2>2, <3>1, <3>2, <3>3 DEF Visible
  <2>6. sim[s].sought \in subscribed[receivers[p[2]].app_id]
    BY <2>2 DEF IInv, RegInv, GroupInv
  <2>7. LookupInv(s)'
    BY <1>1, <1>3, <2>3, <2>5, <2>6 DEF LookupInv
  <2>8. sim' \in [Sims -> HandleRecord]
    BY <1>2, <2>3, <2>4
  <2> QED
    BY <1>1, <2>3, <2>7, <2>8, LookingKeeps
<1>7. CASE FindNone(s)
  <2>1. /\ sim[s].at = "seek" /\ Pairs(s) = {}
        /\ sim' = [sim EXCEPT ![s].at = "null", ![s].num_r = 0]
    BY <1>7 DEF FindNone
  <2>2. /\ sim'[s].at = "null" /\ sim'[s].sure = sim[s].sure
        /\ \A t \in Sims \ {s} : sim'[t] = sim[t]
        /\ sim' = [sim EXCEPT ![s] = sim'[s]]
    BY <1>2, <2>1 DEF HandleRecord
  <2>3. sim'[s] \in HandleRecord
    BY <1>2, <2>1 DEF HandleRecord
  <2>4. ~sim[s].sure
    <3> SUFFICES ASSUME sim[s].sure PROVE FALSE
      OBVIOUS
    <3>1. PICK a \in Listed, i \in Visible : /\ sim[s].sought \in subscribed[a]
                                             /\ i < sim[s].num_r /\ receivers[i].app_id = a
      BY <1>2, <2>1 DEF LookupInv
    <3>2. PICK j \in Known : /\ data_groups[j].name = sim[s].sought
                             /\ data_groups[j].receiver_app_id = a
      BY <3>1 DEF IInv, RegInv, GroupInv
    <3>3. <<j, i>> \in Pairs(s)
      BY <3>1, <3>2 DEF Pairs, KnownGroups, Known, Visible
    <3> QED
      BY <2>1, <3>3
  <2>5. LookupInv(s)'
    BY <2>2, <2>4 DEF LookupInv
  <2>6. sim' \in [Sims -> HandleRecord]
    BY <1>2, <2>2, <2>3
  <2> QED
    BY <1>1, <2>2, <2>5, <2>6, LookingKeeps
<1> QED
  BY <1>4, <1>5, <1>6, <1>7

-----------------------------------------------------------------------------
(* Whose turn a process is: with rank r it is in the share of simulation   *)
(* process r % gr_local_size.                                              *)
LEMMA Remainders ==
  /\ \A s \in Sims : s \in Nat /\ s % gr_local_size = s
  /\ \A k \in Nat : k % gr_local_size \in Sims
  /\ \A k \in Nat, s \in Sims : k < s /\ k % gr_local_size = s => FALSE
  /\ \A i \in Nat : (i + gr_local_size) % gr_local_size = i % gr_local_size
  /\ \A i, k \in Nat :
       i <= k /\ k < i + gr_local_size /\ k % gr_local_size = i % gr_local_size => k = i
<1> DEFINE n == gr_local_size
<1>1. n \in Nat /\ n > 0
  BY SimsAssumption
<1>2. \A k \in Nat : /\ k % n \in Int /\ 0 <= k % n /\ k % n < n
                     /\ k \div n \in Int
                     /\ k % n = k - n * (k \div n)
  <2> SUFFICES ASSUME NEW k \in Nat
               PROVE  /\ k % n \in Int /\ 0 <= k % n /\ k % n < n
                      /\ k \div n \in Int
                      /\ k % n = k - n * (k \div n)
    OBVIOUS
  <2>1. k % n \in Int /\ 0 <= k % n /\ k % n < n
    BY <1>1
  <2>2. k \div n \in Int
    BY <1>1
  <2>3. k % n = k - n * (k \div n)
    BY <1>1
  <2> QED
    BY <2>1, <2>2, <2>3
<1>3. \A k \in Nat : k < n => k % n = k
  BY <1>1
<1>4. \A p, q \in Int : n * q < n * p + n /\ n * p < n * q + n => p = q
  <2> SUFFICES ASSUME NEW p \in Int, NEW q \in Int,
                      n * q < n * p + n, n * p < n * q + n
               PROVE  p = q
    OBVIOUS
  <2>1. \A c \in Int : c >= 1 => n * c >= n
    BY <1>1
  <2>2. n * (q - p) = n * q - n * p /\ n * (p - q) = n * p - n * q
    BY <1>1
  <2>3. n * q \in Int /\ n * p \in Int
    BY <1>1
  <2>4. ~(q - p >= 1) /\ ~(p - q >= 1)
    BY <1>1, <2>1, <2>2, <2>3
  <2> QED
    BY <2>4
<1>5. ASSUME NEW i \in Nat PROVE (i + n) % n = i % n
  <2>1. i + n \in Nat
    BY <1>1
  <2> DEFINE p == i \div n
             q == (i + n) \div n
  <2>2. /\ p \in Int /\ q \in Int
        /\ i % n = i - n * p /\ (i + n) % n = (i + n) - n * q
        /\ 0 <= i % n /\ i % n < n /\ 0 <= (i + n) % n /\ (i + n) % n < n
    BY <1>2, <2>1
  <2> HIDE DEF p, q
  <2>3. n * (p + 1) = n * p + n /\ n * p \in Int /\ n * q \in Int
    BY <1>1, <2>2
  <2>4. n * q < n * (p + 1) + n /\ n * (p + 1) < n * q + n
    BY <1>1, <2>2, <2>3
  <2>5. p + 1 = q
    BY <1>4, <2>2, <2>4
  <2> QED
    BY <1>1, <2>2, <2>3, <2>5
<1>6. ASSUME NEW i \in Nat, NEW k \in Nat, i <= k, k < i + n, k % n = i % n
      PROVE  k = i
  <2> DEFINE p == i \div n
             q == k \div n
  <2>1. /\ p \in Int /\ q \in Int
        /\ i % n = i - n * p /\ k % n = k - n * q
    BY <1>2
  <2> HIDE DEF p, q
  <2>2. n * p \in Int /\ n * q \in Int
    BY <1>1, <2>1
  <2>3. n * q < n * p + n /\ n * p < n * q + n
    BY <1>1, <1>6, <2>1, <2>2
  <2>4. p = q
    BY <1>4, <2>1, <2>3
  <2> QED
    BY <1>6, <2>1, <2>2, <2>4
<1> QED
  BY <1>1, <1>2, <1>3, <1>5, <1>6 DEF Sims

Outcomes == {"none", "suspended", "resumed", "failed"}

(* A change of a handle and of the outcome of its receiver.                *)
LEMMA CallingKeeps ==
  ASSUME IInv, NEW s \in Sims, UNCHANGED <<analytics, stopped>>,
         NEW result \in Outcomes, sim[s].handle \in Visible,
         sim' \in [Sims -> HandleRecord], \A t \in Sims \ {s} : sim'[t] = sim[t],
         outcome' = [outcome EXCEPT ![s][sim[s].handle] = result],
         result = "suspended" => Share(s, sim[s].handle) \subseteq stopped \cup gone,
         result = "resumed" => Share(s, sim[s].handle) \cap stopped = {},
         LookupInv(s)', SignalInv(s)'
  PROVE  IInv'
<1> DEFINE h == sim[s].handle
<1>1. UNCHANGED <<num_receivers, receivers, num_files, data_groups, subscribed, reg, gone, stopped>>
  BY DEF analytics, shm
<1>2. outcome \in [Sims -> [Slots -> Outcomes]] /\ h \in Slots
  BY DEF IInv, TypeOK, Outcomes, Visible
<1>3. /\ outcome' \in [Sims -> [Slots -> Outcomes]]
      /\ \A t \in Sims \ {s} : outcome'[t] = outcome[t]
      /\ outcome'[s][h] = result
      /\ \A i \in Slots \ {h} : outcome'[s][i] = outcome[s][i]
  BY <1>2
<1>4. TypeOK'
  BY <1>1, <1>3 DEF IInv, TypeOK, HandleRecord, Outcomes
<1>5. SettledInv(s)'
  <2> SUFFICES ASSUME NEW i \in Slots
               PROVE  /\ outcome'[s][i] # "none" => i \in Visible
                      /\ outcome'[s][i] = "suspended" => Share(s, i) \subseteq stopped \cup gone
                      /\ outcome'[s][i] = "resumed" => Share(s, i) \cap stopped = {}
    BY <1>1 DEF SettledInv, Share, Visible
  <2>1. CASE i = h
    BY <1>3, <2>1
  <2>2. CASE i # h
    BY <1>3, <2>2 DEF IInv, SimInv, SettledInv
  <2> QED
    BY <2>1, <2>2
<1> QED
  BY <1>3, <1>4, <1>5, OthersKeep DEF SimInv

LEMMA CallKeeps ==
  ASSUME IInv, NEW s \in Sims, NEW what \in {"suspend", "resume"}, Call(s, what)
  PROVE  IInv'
<1>1. /\ sim \in [Sims -> HandleRecord] /\ sim[s] \in HandleRecord
      /\ LookupInv(s) /\ s \in Nat /\ sim[s].at = "ready"
      /\ UNCHANGED <<analytics, stopped>>
      /\ UNCHANGED <<num_receivers, receivers>>
      /\ outcome \in [Sims -> [Slots -> Outcomes]]
  BY Remainders DEF Call, IInv, TypeOK, HandleRecord, SimInv, Outcomes, analytics, shm
<1>2. /\ sim'[s].at = what /\ sim'[s].handle = sim[s].handle /\ sim'[s].pid_index = s
      /\ sim'[s].sought = NoGroup
      /\ \A t \in Sims \ {s} : sim'[t] = sim[t]
      /\ sim' = [sim EXCEPT ![s] = sim'[s]] /\ sim'[s] \in HandleRecord
  BY <1>1 DEF Call, FirstIndex, HandleRecord
<1>3. sim' \in [Sims -> HandleRecord]
  BY <1>1, <1>2
<1>4. sim[s].handle \in Visible /\ sim[s].handle \in Slots
  BY <1>1 DEF LookupInv, Visible
<1>5. LookupInv(s)'
  BY <1>1, <1>2, <1>4 DEF LookupInv, Visible
<1>6. SignalInv(s)'
  <2>1. outcome'[s][sim'[s].handle] = "none"
    BY <1>1, <1>2, <1>4 DEF Call
  <2>2. Signalled(s)' = {}
    BY <1>2, Remainders DEF Signalled
  <2> QED
    BY <1>1, <1>2, <2>1, <2>2, Remainders DEF SignalInv
<1> QED
  BY <1>1, <1>2, <1>3, <1>4, <1>5, <1>6, CallingKeeps DEF Call, Outcomes

LEMMA ReturnKeeps ==
  ASSUME IInv, NEW s \in Sims, NEW result \in Outcomes, Return(s, result),
         sim[s].at \in {"suspend", "resume"}, UNCHANGED <<analytics, stopped>>,
         result = "suspended" => Share(s, sim[s].handle) \subseteq stopped \cup gone,
         result = "resumed" => Share(s, sim[s].handle) \cap stopped = {}
  PROVE  IInv'
<1>1. /\ sim \in [Sims -> HandleRecord] /\ sim[s] \in HandleRecord /\ LookupInv(s)
      /\ UNCHANGED <<num_receivers, receivers>>
  BY DEF IInv, TypeOK, HandleRecord, SimInv, analytics, shm
<1>2. /\ sim'[s].at = "ready" /\ sim'[s].handle = sim[s].handle
      /\ sim'[s].sought = sim[s].sought
      /\ \A t \in Sims \ {s} : sim'[t] = sim[t]
      /\ sim' = [sim EXCEPT ![s] = sim'[s]] /\ sim'[s] \in HandleRecord
  BY <1>1 DEF Return, HandleRecord
<1>3. sim' \in [Sims -> HandleRecord]
  BY <1>1, <1>2
<1>4. sim[s].handle \in Visible /\ sim[s].sought = NoGroup
  BY <1>1 DEF LookupInv
<1>5. LookupInv(s)'
  BY <1>1, <1>2, <1>4 DEF LookupInv, Visible
<1>6. SignalInv(s)'
  BY <1>2 DEF SignalInv
<1> QED
  BY <1>2, <1>3, <1>4, <1>5, <1>6, CallingKeeps DEF Return

(* What the pids of a receiver that is counted are.                        *)
LEMMA PidsOfVisible ==
  ASSUME IInv, NEW i \in Visible
  PROVE  \E a \in Apps : /\ receivers[i].app_id = a /\ receivers[i].num_procs = ProcsOf[a]
                         /\ ProcsOf[a] \in Nat
                         /\ \A r \in RanksOf(a) : receivers[i].pid[r] = <<a, r>>
BY AppsAssumption DEF IInv, RegInv, ReceiverInv, Complete, RanksOf

LEMMA AllSignalledKeeps ==
  ASSUME IInv, NEW s \in Sims, AllSignalled(s)
  PROVE  IInv'
<1> DEFINE h == sim[s].handle
<1>1. /\ LookupInv(s) /\ SignalInv(s) /\ sim[s].pid_index \in Nat
      /\ sim[s].at \in {"suspend", "resume"} /\ ~More(s)
  BY DEF AllSignalled, IInv, TypeOK, SimInv
<1>2. h \in Visible
  BY <1>1 DEF LookupInv
<1>3. receivers[h].num_procs \in Nat /\ sim[s].pid_index >= receivers[h].num_procs
  BY <1>1, <1>2, PidsOfVisible DEF More
<1>4. Share(s, h) \subseteq Signalled(s)
  <2> SUFFICES ASSUME NEW k \in 0 .. receivers[h].num_procs - 1, k % gr_local_size = s
               PROVE  k < sim[s].pid_index
    BY DEF Share, Signalled
  <2> QED
    BY <1>1, <1>3
<1>5. IF sim[s].at = "suspend" THEN Share(s, h) \subseteq stopped \cup gone
                               ELSE Share(s, h) \cap stopped = {}
  BY <1>1, <1>4 DEF SignalInv
<1>6. CASE sim[s].at = "suspend"
  BY <1>1, <1>5, <1>6, ReturnKeeps DEF AllSignalled, Outcomes
<1>7. CASE sim[s].at = "resume"
  BY <1>1, <1>5, <1>7, ReturnKeeps DEF AllSignalled, Outcomes
<1> QED
  BY <1>1, <1>6, <1>7

LEMMA KillFailsKeeps ==
  ASSUME IInv, NEW s \in Sims, KillFails(s)
  PROVE  IInv'
BY ReturnKeeps DEF KillFails, More, Outcomes

(* Nobody else signals the process a call is at.                           *)
LEMMA SharesAreDisjoint ==
  ASSUME IInv, NEW i \in Visible, NEW r \in 0 .. receivers[i].num_procs - 1,
         NEW j \in Visible, NEW t \in Sims, receivers[i].pid[r] \in Share(t, j)
  PROVE  r % gr_local_size = t /\ i = j
<1>1. PICK a \in Apps : /\ receivers[i].app_id = a /\ receivers[i].num_procs = ProcsOf[a]
                        /\ \A k \in RanksOf(a) : receivers[i].pid[k] = <<a, k>>
  BY PidsOfVisible
<1>2. PICK b \in Apps : /\ receivers[j].app_id = b /\ receivers[j].num_procs = ProcsOf[b]
                        /\ \A k \in RanksOf(b) : receivers[j].pid[k] = <<b, k>>
  BY PidsOfVisible
<1>3. PICK k \in RanksOf(b) : k % gr_local_size = t /\ receivers[i].pid[r] = <<b, k>>
  BY <1>2 DEF Share, RanksOf
<1>4. a = b /\ r = k
  BY <1>1, <1>3 DEF RanksOf
<1> QED
  BY <1>1, <1>2, <1>3, <1>4 DEF IInv, RegInv, ReceiverInv

LEMMA KillKeeps ==
  ASSUME IInv, NEW s \in Sims, Kill(s)
  PROVE  IInv'
<1> DEFINE h == sim[s].handle
           i == sim[s].pid_index
           T == Target(s)
<1>1. /\ sim \in [Sims -> HandleRecord] /\ sim[s] \in HandleRecord /\ i \in Nat
      /\ sim[s].at \in {"suspend", "resume"} /\ i < receivers[h].num_procs
      /\ T \in Processes \ gone
      /\ UNCHANGED <<analytics, outcome>>
      /\ UNCHANGED <<num_receivers, receivers, num_files, data_groups, subscribed, reg, gone>>
  BY DEF Kill, More, IInv, TypeOK, HandleRecord, analytics, shm
<1>2. \A t \in Sims : LookupInv(t) /\ SignalInv(t) /\ SettledInv(t)
  BY DEF IInv, SimInv
<1>3. h \in Visible /\ outcome[s][h] = "none" /\ i % gr_local_size = s
  BY <1>1, <1>2 DEF LookupInv, SignalInv
<1>4. /\ sim'[s].at = sim[s].at /\ sim'[s].handle = h /\ sim'[s].sought = sim[s].sought
      /\ sim'[s].pid_index = i + gr_local_size
      /\ \A t \in Sims \ {s} : sim'[t] = sim[t]
      /\ sim' = [sim EXCEPT ![s] = sim'[s]] /\ sim'[s] \in HandleRecord
  BY <1>1, SimsAssumption DEF Kill, NextIndex, HandleRecord
<1>5. RegInv' /\ Listed' = Listed /\ Visible' = Visible
  BY <1>1, RegistryStays
<1>6. TypeOK'
  <2>1. sim' \in [Sims -> HandleRecord]
    BY <1>1, <1>4
  <2>2. stopped' \subseteq Processes
    BY <1>1 DEF Kill, IInv, TypeOK
  <2> QED
    BY <1>1, <2>1, <2>2 DEF IInv, TypeOK, HandleRecord
<1>7. receivers[h].num_procs \in Nat /\ i \in 0 .. receivers[h].num_procs - 1
      /\ T = receivers[h].pid[i]
  BY <1>1, <1>3, PidsOfVisible DEF Target
<1>8. \A t \in Sims, j \in Visible : t # s \/ j # h => T \notin Share(t, j)
  BY <1>3, <1>7, SharesAreDisjoint
<1>9. \A t \in Sims : Signalled(t) \subseteq Share(t, sim[t].handle)
  BY DEF Signalled, Share
<1>10. \A X : T \notin X => /\ X \subseteq stopped \cup gone => X \subseteq stopped' \cup gone'
                            /\ X \cap stopped = {} => X \cap stopped' = {}
  BY <1>1 DEF Kill
<1>11. ASSUME NEW t \in Sims PROVE LookupInv(t)'
  BY <1>1, <1>2, <1>4, <1>5 DEF LookupInv
<1>12. ASSUME NEW t \in Sims PROVE SettledInv(t)'
  <2> SUFFICES ASSUME NEW j \in Slots
               PROVE  /\ outcome[t][j] # "none" => j \in Visible
                      /\ outcome[t][j] = "suspended" => Share(t, j) \subseteq stopped' \cup gone'
                      /\ outcome[t][j] = "resumed" => Share(t, j) \cap stopped' = {}
    BY <1>1, <1>5 DEF SettledInv, Share
  <2>1. outcome[t][j] # "none" => T \notin Share(t, j)
    BY <1>2, <1>3, <1>8 DEF SettledInv
  <2> QED
    BY <1>2, <1>10, <2>1 DEF SettledInv
<1>13. ASSUME NEW t \in Sims \ {s} PROVE SignalInv(t)'
  <2>1. Signalled(t)' = Signalled(t)
    BY <1>1, <1>4 DEF Signalled
  <2>2. sim[t].at \in {"suspend", "resume"} => T \notin Signalled(t)
    BY <1>2, <1>8, <1>9 DEF LookupInv
  <2>3. sim[t].at = "suspend" => Signalled(t) \subseteq stopped' \cup gone'
    BY <1>2, <1>10, <2>2 DEF SignalInv
  <2>4. sim[t].at = "resume" => Signalled(t) \cap stopped' = {}
    BY <1>2, <1>10, <2>2 DEF SignalInv
  <2> QED
    BY <1>1, <1>2, <1>4, <2>1, <2>3, <2>4 DEF SignalInv
<1>14. SignalInv(s)'
  <2>1. Signalled(s)' \subseteq Signalled(s) \cup {T}
    <3> SUFFICES ASSUME NEW k \in 0 .. receivers[h].num_procs - 1,
                        k % gr_local_size = s, k < i + gr_local_size, ~(k < i)
                 PROVE  k = i
      BY <1>1, <1>4, <1>7 DEF Signalled
    <3>1. k \in Nat /\ i <= k
      BY <1>1, <1>7
    <3> QED
      BY <1>1, <1>3, <3>1, Remainders
  <2>2. (i + gr_local_size) % gr_local_size = s
    BY <1>1, <1>3, Remainders
  <2>3. sim[s].at = "suspend" => Signalled(s)' \subseteq stopped' \cup gone'
    BY <1>1, <1>2, <2>1 DEF SignalInv, Kill
  <2>4. sim[s].at = "resume" => Signalled(s)' \cap stopped' = {}
    BY <1>1, <1>2, <2>1 DEF SignalInv, Kill
  <2> QED
    BY <1>1, <1>3, <1>4, <2>2, <2>3, <2>4 DEF SignalInv
<1> QED
  BY <1>5, <1>6, <1>11, <1>12, <1>13, <1>14 DEF IInv, SimInv

-----------------------------------------------------------------------------
(* The strengthening is invariant.                                         *)
THEOREM IInvHolds ==
  ASSUME Registrations = 1, OneAtATime
  PROVE  Spec => []IInv
<1>1. Init => IInv
  BY InitIInv
<1>2. IInv /\ [Next]_vars => IInv'
  <2> SUFFICES ASSUME IInv, [Next]_vars PROVE IInv'
    OBVIOUS
  <2>1. ASSUME NEW q \in Processes, RegisterStep(q) \/ Exit(q) PROVE IInv'
    BY <2>1, ChooseSlotKeeps, GetPidsKeeps, FillKeeps, LoadCountKeeps, PublishKeeps,
       AddGroupKeeps, LoadGroupsKeeps, PublishGroupKeeps, ExitKeeps DEF RegisterStep
  <2>2. ASSUME NEW a \in Apps, Barrier(a) PROVE IInv'
    BY <2>2, BarrierKeeps
  <2>3. ASSUME NEW s \in Sims, SimStep(s) PROVE IInv'
    BY <2>3, SearchKeeps, CallKeeps, KillKeeps, KillFailsKeeps, AllSignalledKeeps DEF SimStep
  <2>4. CASE UNCHANGED vars
    <3>1. UNCHANGED <<analytics, sim, outcome, stopped, gone>>
          /\ UNCHANGED <<num_receivers, receivers, num_files, data_groups, subscribed, reg>>
      BY <2>4 DEF vars, analytics, shm
    <3>2. TypeOK' /\ RegInv'
      BY <3>1, RegistryStays DEF IInv, TypeOK
    <3>3. Grows
      BY <3>1, RegistryStays DEF Grows, IInv, TypeOK
    <3> QED
      BY <3>1, <3>2, <3>3, GrowthKeeps
  <2> QED
    BY <2>1, <2>2, <2>3, <2>4 DEF Next
<1> QED
  BY <1>1, <1>2, PTL DEF Spec

(* Everything stays what it was declared to be; in particular no counter   *)
(* leaves the slots that there are.                                        *)
THEOREM TypeCorrect ==
  ASSUME Registrations = 1, OneAtATime
  PROVE  Spec => []TypeOK
<1>1. IInv => TypeOK
  BY DEF IInv
<1> QED
  BY <1>1, IInvHolds, PTL

(* A receiver that is counted names every process of its program, although *)
(* the processes write their own pids and the lookups wait for nobody.     *)
THEOREM ReceiversAreComplete ==
  ASSUME Registrations = 1, OneAtATime
  PROVE  Spec => []VisibleReceiverIsComplete
<1>1. IInv => VisibleReceiverIsComplete
  BY DEF IInv, RegInv, ReceiverInv, Visible, VisibleReceiverIsComplete
<1> QED
  BY <1>1, IInvHolds, PTL

(* A search for a group finds a receiver that registered for it, and finds *)
(* none only if none had registered when it began.                         *)
THEOREM LookupsAreRight ==
  ASSUME Registrations = 1, OneAtATime
  PROVE  Spec => []LookupIsRight
<1>1. IInv => LookupIsRight
  BY DEF IInv, SimInv, LookupInv, LookupIsRight
<1> QED
  BY <1>1, IInvHolds, PTL

(* What a simulation process was told of its share of a receiver stays     *)
(* true until its next call, whatever the other processes signal.          *)
THEOREM SharesAreSettled ==
  ASSUME Registrations = 1, OneAtATime
  PROVE  Spec => []ShareIsSettled
<1>1. IInv => ShareIsSettled
  BY DEF IInv, SimInv, SettledInv, ShareIsSettled
<1> QED
  BY <1>1, IInvHolds, PTL

(* When every simulation process has suspended its share, all are stopped. *)
THEOREM SharesAddUp ==
  ASSUME Registrations = 1, OneAtATime
  PROVE  Spec => []SuspendedWhenAllReturned
<1>1. IInv => SuspendedWhenAllReturned
  <2> SUFFICES ASSUME IInv, NEW i \in Visible,
                      \A s \in Sims : outcome[s][i] = "suspended",
                      NEW r \in 0 .. receivers[i].num_procs - 1
               PROVE  receivers[i].pid[r] \in stopped \cup gone
    BY DEF SuspendedWhenAllReturned, ProcessesOf, Visible
  <2>1. r \in Nat /\ r % gr_local_size \in Sims
    BY PidsOfVisible, Remainders
  <2>2. receivers[i].pid[r] \in Share(r % gr_local_size, i)
    BY DEF Share
  <2>3. Share(r % gr_local_size, i) \subseteq stopped \cup gone
    BY <2>1 DEF IInv, SimInv, SettledInv, Visible
  <2> QED
    BY <2>2, <2>3
<1> QED
  BY <1>1, IInvHolds, PTL
=============================================================================
