---------------------------- MODULE FileRoomProofs ----------------------------
(***************************************************************************)
(* How much the races on the table of source files can waste, for every    *)
(* number of threads, every set of files and every size of the table: a    *)
(* file is opened at most once by each thread, and a table with room for   *)
(* that many openings is never left.                                       *)
(***************************************************************************)
EXTENDS FileTableProofs, FiniteSetTheorems

(***************************************************************************)
(* The argument. While no slot of a file is counted, every thread that     *)
(* opened it is still in its call and keeps the descriptor it got: the     *)
(* openings can be told apart by their threads. The first thread that      *)
(* stores the size makes a slot of the file counted, and it stays counted, *)
(* so that no scan misses the file again. And since each call adds at most *)
(* one to the size it has read, the size and the slots in use are never    *)
(* more than the calls that have come to their end.                        *)
(***************************************************************************)
Openings(o, f) == {k \in 1 .. Len(o) : o[k] = f}

InCall(calls) == {t \in Threads : IsOpened(calls[t])}

(* Each opening of a file has a thread of its own.                         *)
OwnThread(o, f) ==
  \E m \in [Openings(o, f) -> Threads] :
    \A j, k \in Openings(o, f) : m[j] = m[k] => j = k

(* As long as nothing is counted for it, that thread is still in its call. *)
StillInCall(n, z, o, calls, f) ==
  Counted(n, z, f) = {} =>
    \A k \in Openings(o, f) :
      \E t \in InCall(calls) : calls[t].fd = FirstDescriptor + k - 1

(* The size, and a slot that a thread is to fill, are below the number of  *)
(* openings whose call is over.                                            *)
SlotsAreOver(z, o, calls) ==
  /\ z + Cardinality(InCall(calls)) <= Len(o)
  /\ \A t \in InCall(calls) : calls[t].at # "next" =>
       calls[t].next + Cardinality(InCall(calls)) <= Len(o)

RoomInv ==
  /\ \A f \in Files : OwnThread(opened, f)
  /\ status = "ok" =>
       /\ \A f \in Files : StillInCall(names, size, opened, call, f)
       /\ SlotsAreOver(size, opened, call)

-----------------------------------------------------------------------------
(* What the calls of a state say of a thread after its step.               *)
LEMMA InCallIsFinite ==
  ASSUME NEW calls
  PROVE  /\ IsFiniteSet(InCall(calls)) /\ Cardinality(InCall(calls)) \in Nat
         /\ \A t \in InCall(calls) : Cardinality(InCall(calls)) > 0
<1>1. InCall(calls) \in SUBSET Threads /\ IsFiniteSet(Threads)
  BY FinitenessAssumption DEF InCall
<1>2. IsFiniteSet(InCall(calls))
  BY <1>1, FS_Subset
<1>3. Cardinality(InCall(calls)) \in Nat
  BY <1>2, FS_CardinalityType
<1>4. InCall(calls) # {} => Cardinality(InCall(calls)) # 0
  BY <1>2, FS_EmptySet
<1> QED
  BY <1>2, <1>3, <1>4

LEMMA InitRoomInv == Init => RoomInv
<1> SUFFICES ASSUME Init PROVE RoomInv
  OBVIOUS
<1>1. Len(opened) = 0 /\ \A f : Openings(opened, f) = {}
  BY DEF Init, Openings
<1>2. InCall(call) = {}
  BY DEF Init, InCall, IsOpened, NoCall
<1>3. Cardinality(InCall(call)) = 0
  BY <1>2, FS_EmptySet
<1>4. \A f \in Files : OwnThread(opened, f)
  <2> SUFFICES ASSUME NEW f \in Files PROVE OwnThread(opened, f)
    OBVIOUS
  <2>1. [k \in Openings(opened, f) |-> 0] \in [Openings(opened, f) -> Threads]
    BY <1>1
  <2> QED
    BY <1>1, <2>1 DEF OwnThread
<1>5. \A f \in Files : StillInCall(names, size, opened, call, f)
  BY <1>1 DEF StillInCall
<1>6. SlotsAreOver(size, opened, call)
  BY <1>1, <1>2, <1>3 DEF SlotsAreOver, Init
<1> QED
  BY <1>4, <1>5, <1>6 DEF RoomInv

(* A step of the thread t that opens nothing and ends no call.             *)
LEMMA CallGoesOn ==
  ASSUME RoomInv, status = "ok", opened' = opened, size' = size,
         NEW t \in Threads, NEW c, call' = [call EXCEPT ![t] = c],
         Type, IsOpened(c) <=> IsOpened(call[t]), IsOpened(c) => c.fd = call[t].fd,
         IsOpened(c) /\ c.at # "next" =>
           c.next = size \/ (call[t].at # "next" /\ c.next = call[t].next),
         \A f \in Files : Counted(names, size, f) # {} => Counted(names', size', f) # {}
  PROVE  RoomInv'
<1>1. /\ call'[t] = c /\ \A u \in Threads : u # t => call'[u] = call[u]
      /\ size \in Nat
  BY DEF Type
<1>2. InCall(call') = InCall(call)
  BY <1>1 DEF InCall
<1>3. ASSUME NEW f \in Files
      PROVE  StillInCall(names', size', opened', call', f)
  <2> SUFFICES ASSUME Counted(names', size', f) = {}, NEW k \in Openings(opened, f)
               PROVE  \E u \in InCall(call') : call'[u].fd = FirstDescriptor + k - 1
    BY DEF StillInCall
  <2>1. PICK u \in InCall(call) : call[u].fd = FirstDescriptor + k - 1
    BY DEF RoomInv, StillInCall
  <2> QED
    BY <1>1, <1>2, <2>1 DEF InCall
<1>4. SlotsAreOver(size', opened', call')
  <2>1. SlotsAreOver(size, opened, call)
    BY DEF RoomInv
  <2>2. ASSUME NEW u \in InCall(call'), call'[u].at # "next"
        PROVE  call'[u].next + Cardinality(InCall(call)) <= Len(opened)
    BY <1>1, <1>2, <2>1, <2>2 DEF SlotsAreOver, InCall
  <2> QED
    BY <1>2, <2>1, <2>2 DEF SlotsAreOver
<1> QED
  BY <1>3, <1>4 DEF RoomInv

-----------------------------------------------------------------------------
(* A slot that is counted for a file stays counted, or another one is: the *)
(* threads of an epoch write behind the first slots of the other files,    *)
(* and not before that of their own.                                       *)
LEMMA CountedStays ==
  ASSUME IInv, status = "ok", status' = "ok",
         NEW t \in Threads, RecordName(t) \/ Store(t),
         NEW f \in Files, Counted(names, size, f) # {}
  PROVE  Counted(names', size', f) # {}
<1> DEFINE p == call[t].next
<1>1. /\ call[t].at \in {"name", "store"} /\ IsOpened(call[t]) /\ call[t].at # "next"
      /\ p \in Nat /\ size \in Nat /\ names \in [Slots -> Files \cup {NoFile}]
      /\ ThreadOK(names, array, size, opened, call[t])
  BY CallFacts DEF RecordName, Store, At, IsOpened, CallRecord, IInv, Type
<1>2. PICK m \in Slots : First(names, size, f, m)
  BY CallFacts DEF TableInv, FirstHolds
<1>3. m \in Nat /\ m < size /\ names[m] = f
  BY <1>2 DEF First, Counted, Slots
<1>4. IF f = call[t].file THEN m <= p ELSE m < p
  <2>1. CASE f = call[t].file
    BY <1>1, <1>2, <2>1 DEF ThreadOK, Behind
  <2>2. CASE f # call[t].file
    <3>1. PICK k \in Slots : First(names, size, f, k) /\ k < p
      BY <1>1, <2>2, FirstOfOthers
    <3>2. k = m
      BY <1>2, <3>1 DEF First, Counted, Slots
    <3> QED
      BY <2>2, <3>1, <3>2
  <2> QED
    BY <2>1, <2>2
<1>5. m < size' /\ names'[m] = f
  <2>1. CASE RecordName(t)
    BY <1>1, <1>3, <1>4, <2>1 DEF RecordName
  <2>2. CASE Store(t)
    BY <1>1, <1>3, <1>4, <2>2 DEF Store
  <2> QED
    BY <2>1, <2>2
<1> QED
  BY <1>5 DEF Counted

(* Every step but the opening of a file and the end of a call.             *)
LEMMA QuietKeepsRoom ==
  ASSUME IInv, RoomInv, NEW t \in Threads,
         \/ \E f \in Files : Call(t, f)
         \/ Scan(t) \/ Found(t) \/ OpenFails(t) \/ ReadNext(t)
         \/ RecordName(t) \/ RecordDescriptor(t) \/ Load(t)
  PROVE  RoomInv'
<1>1. /\ status = "ok" /\ opened' = opened /\ size' = size /\ Type
      /\ call[t] \in CallRecord(opened)
  BY CallFacts DEF Call, Scan, Found, OpenFails, ReadNext, RecordName, RecordDescriptor,
                   Load, At, gr_files, IInv
<1> DEFINE Onward(c) ==
             /\ call' = [call EXCEPT ![t] = c]
             /\ IsOpened(c) <=> IsOpened(call[t])
             /\ IsOpened(c) => c.fd = call[t].fd
             /\ IsOpened(c) /\ c.at # "next" =>
                  c.next = size \/ (call[t].at # "next" /\ c.next = call[t].next)
<1>2. CASE status' # "ok"
  BY <1>1, <1>2 DEF RoomInv
<1>3. CASE status' = "ok"
  <2>1. \A f \in Files : Counted(names, size, f) # {} => Counted(names', size', f) # {}
    <3>1. CASE RecordName(t)
      BY <1>1, <1>3, <3>1, CountedStays
    <3>2. CASE ~RecordName(t)
      <4>1. names' = names
        BY <3>2 DEF Call, Scan, Found, OpenFails, ReadNext, RecordDescriptor, Load, gr_files
      <4> QED
        BY <1>1, <4>1
    <3> QED
      BY <3>1, <3>2
  <2>2. \E c : Onward(c)
    <3>2. ASSUME NEW f \in Files, Call(t, f)
          PROVE  \E c : Onward(c)
      <4> DEFINE c == [NoCall EXCEPT !.at = "scan", !.file = f]
      <4>1. call' = [call EXCEPT ![t] = c] /\ call[t].at = "idle"
        BY <3>2 DEF Call, At
      <4>2. c.at = "scan"
        BY DEF NoCall
      <4> QED
        BY <4>1, <4>2 DEF IsOpened
    <3>3. CASE Scan(t)
      <4> DEFINE c == Looked(call[t], names[call[t].i])
      <4>1. call' = [call EXCEPT ![t] = c] /\ call[t].at = "scan"
        BY <1>1, <1>3, <3>3 DEF Scan, At
      <4>2. c.at \in {"scan", "found"}
        BY <1>1, <4>1, LookedFields
      <4> QED
        BY <4>1, <4>2 DEF IsOpened
    <3>4. CASE Found(t) \/ OpenFails(t)
      <4>1. call' = [call EXCEPT ![t] = NoCall] /\ call[t].at \in {"scan", "found"}
        BY <3>4 DEF Found, OpenFails, At, Return
      <4> QED
        BY <1>1, <4>1, NoCallIsOK DEF IsOpened
    <3>5. CASE ReadNext(t)
      <4> DEFINE c == [call[t] EXCEPT !.at = "name", !.next = size]
      <4>1. call' = [call EXCEPT ![t] = c] /\ call[t].at = "next"
        BY <3>5 DEF ReadNext, At
      <4>2. c.at = "name" /\ c.next = size /\ c.fd = call[t].fd
        BY <1>1 DEF CallRecord
      <4> HIDE DEF c
      <4>3. Onward(c)
        BY <4>1, <4>2 DEF IsOpened
      <4> QED
        BY <4>3
    <3>6. CASE RecordName(t) \/ RecordDescriptor(t)
      <4>1. PICK a \in {"descriptor", "load"} :
              call' = [call EXCEPT ![t] = [@ EXCEPT !.at = a]]
        BY <3>6 DEF RecordName, RecordDescriptor
      <4> DEFINE c == [call[t] EXCEPT !.at = a]
      <4>2. call' = [call EXCEPT ![t] = c] /\ call[t].at \in {"name", "descriptor"}
        BY <3>6, <4>1 DEF RecordName, RecordDescriptor, At
      <4>3. c.at = a /\ c.next = call[t].next /\ c.fd = call[t].fd
        BY <1>1 DEF CallRecord
      <4> HIDE DEF c
      <4>4. Onward(c)
        BY <4>2, <4>3 DEF IsOpened
      <4> QED
        BY <4>4
    <3>7. CASE Load(t)
      <4>1. PICK n \in {size, call[t].next} :
              call' = [call EXCEPT ![t] = [@ EXCEPT !.at = "store", !.next = n]]
        BY <3>7 DEF Load
      <4> DEFINE c == [call[t] EXCEPT !.at = "store", !.next = n]
      <4>2. call' = [call EXCEPT ![t] = c] /\ call[t].at = "load"
        BY <3>7, <4>1 DEF Load, At
      <4>3. c.at = "store" /\ c.next = n /\ c.fd = call[t].fd
        BY <1>1 DEF CallRecord
      <4> HIDE DEF c
      <4>4. Onward(c)
        BY <4>2, <4>3 DEF IsOpened
      <4> QED
        BY <4>4
    <3> QED
      BY <3>2, <3>3, <3>4, <3>5, <3>6, <3>7
  <2> QED
    BY <1>1, <2>1, <2>2, CallGoesOn
<1> QED
  BY <1>2, <1>3

-----------------------------------------------------------------------------
(* The next opening is that of a thread that finds nothing counted for the *)
(* file: it gets a descriptor that no other thread has.                    *)
LEMMA OpenKeepsRoom ==
  ASSUME ForkJoin, IInv, IInv', RoomInv, NEW t \in Threads, Open(t)
  PROVE  RoomInv'
<1> DEFINE f == call[t].file
           n == Len(opened) + 1
           c == [call[t] EXCEPT !.at = "next", !.fd = FirstDescriptor + Len(opened)]
<1>1. /\ status = "ok" /\ UNCHANGED <<names, array, size, status>>
      /\ call[t].at = "scan" /\ call[t].i >= size /\ f \in Files
      /\ opened' = Append(opened, f) /\ call' = [call EXCEPT ![t] = c]
      /\ opened \in Seq(Files) /\ call[t] \in CallRecord(opened)
      /\ ThreadOK(names, array, size, opened, call[t]) /\ size \in Nat
  <2>1. /\ status = "ok" /\ UNCHANGED <<names, array, size, status>>
        /\ call[t].at = "scan" /\ call[t].i >= size
        /\ opened' = Append(opened, f)
    BY DEF Open, At, gr_files
  <2>2. call' = [call EXCEPT ![t] = c]
    BY Zenon DEF Open
  <2> HIDE DEF c
  <2>3. f \in Files /\ call[t] \in CallRecord(opened)
        /\ ThreadOK(names, array, size, opened, call[t])
    BY <2>1, CallFacts DEF IsActive
  <2>4. opened \in Seq(Files) /\ size \in Nat
    BY DEF IInv, Type
  <2> QED
    BY <2>1, <2>2, <2>3, <2>4
<1>2. /\ c.at = "next" /\ c.fd = FirstDescriptor + n - 1 /\ c.fd \in Int
      /\ n \in Nat /\ Len(opened) \in Nat
  BY <1>1 DEF CallRecord, FirstDescriptor
<1> HIDE DEF c
<1>3. /\ Len(opened') = n /\ opened'[n] = f
      /\ \A k \in 1 .. Len(opened) : opened'[k] = opened[k]
  BY <1>1
<1>4. /\ Openings(opened', f) = Openings(opened, f) \cup {n}
      /\ \A g \in Files : g # f => Openings(opened', g) = Openings(opened, g)
  BY <1>2, <1>3 DEF Openings
<1>5. call'[t] = c /\ \A u \in Threads : u # t => call'[u] = call[u]
  BY <1>1 DEF IInv, Type
<1>6. t \notin InCall(call) /\ InCall(call') = InCall(call) \cup {t}
  BY <1>1, <1>2, <1>5 DEF InCall, IsOpened
<1>7. Counted(names, size, f) = {}
  BY <1>1 DEF ThreadOK, Scanned, IsActive, Counted, CallRecord, Slots
<1>8. \A g \in Files : StillInCall(names, size, opened', call', g)
  <2> SUFFICES ASSUME NEW g \in Files, Counted(names, size, g) = {},
                      NEW k \in Openings(opened', g)
               PROVE  \E u \in InCall(call') : call'[u].fd = FirstDescriptor + k - 1
    BY DEF StillInCall
  <2>1. CASE k = n
    BY <1>2, <1>5, <1>6, <2>1
  <2>2. CASE k # n
    <3>1. k \in Openings(opened, g)
      BY <1>4, <2>2
    <3>2. PICK u \in InCall(call) : call[u].fd = FirstDescriptor + k - 1
      BY <1>1, <3>1 DEF RoomInv, StillInCall
    <3> QED
      BY <1>5, <1>6, <3>2 DEF InCall
  <2> QED
    BY <2>1, <2>2
<1>9. \A g \in Files : OwnThread(opened', g)
  <2> SUFFICES ASSUME NEW g \in Files PROVE OwnThread(opened', g)
    OBVIOUS
  <2>1. CASE g # f
    BY <1>4, <2>1 DEF RoomInv, OwnThread
  <2>2. CASE g = f
    <3> DEFINE K == Openings(opened', f)
               m == [k \in K |-> CHOOSE u \in InCall(call') :
                                   call'[u].fd = FirstDescriptor + k - 1]
    <3>1. \A k \in K : k \in Nat /\ m[k] \in InCall(call')
                       /\ call'[m[k]].fd = FirstDescriptor + k - 1
      <4> SUFFICES ASSUME NEW k \in K
                   PROVE  /\ k \in Nat /\ m[k] \in InCall(call')
                          /\ call'[m[k]].fd = FirstDescriptor + k - 1
        OBVIOUS
      <4>1. \E u \in InCall(call') : call'[u].fd = FirstDescriptor + k - 1
        BY <1>1, <1>7, <1>8 DEF StillInCall
      <4> QED
        BY <4>1 DEF Openings
    <3>2. m \in [K -> Threads]
      BY <3>1 DEF InCall
    <3> HIDE DEF m
    <3>3. \A j, k \in K : m[j] = m[k] => j = k
      <4> SUFFICES ASSUME NEW j \in K, NEW k \in K, m[j] = m[k] PROVE j = k
        OBVIOUS
      <4>1. FirstDescriptor + j - 1 = FirstDescriptor + k - 1 /\ j \in Nat /\ k \in Nat
        BY <3>1
      <4> QED
        BY <4>1 DEF FirstDescriptor
    <3> QED
      BY <2>2, <3>2, <3>3 DEF OwnThread
  <2> QED
    BY <2>1, <2>2
<1>10. SlotsAreOver(size, opened', call')
  <2>1. /\ SlotsAreOver(size, opened, call) /\ Cardinality(InCall(call)) \in Nat
        /\ IsFiniteSet(InCall(call))
    BY <1>1, InCallIsFinite DEF RoomInv
  <2>2. Cardinality(InCall(call')) = Cardinality(InCall(call)) + 1
    BY <1>6, <2>1, FS_AddElement
  <2>3. \A u \in InCall(call') : call'[u].at # "next" =>
          u \in InCall(call) /\ call'[u] = call[u] /\ call[u].next \in Nat
    BY <1>1, <1>2, <1>5, <1>6, CallFacts DEF InCall, CallRecord
  <2> DEFINE card == Cardinality(InCall(call))
  <2>4. size + (card + 1) <= Len(opened')
    BY <1>1, <1>2, <1>3, <2>1 DEF SlotsAreOver
  <2>5. ASSUME NEW u \in InCall(call'), call'[u].at # "next"
        PROVE  call'[u].next + (card + 1) <= Len(opened')
    <3>1. u \in InCall(call) /\ call'[u] = call[u] /\ call[u].next \in Nat
      BY <2>3, <2>5
    <3>2. call[u].next + card <= Len(opened)
      BY <2>1, <2>5, <3>1 DEF SlotsAreOver
    <3> QED
      BY <1>2, <1>3, <2>1, <3>1, <3>2
  <2> QED
    BY <2>2, <2>4, <2>5 DEF SlotsAreOver
<1> QED
  BY <1>1, <1>8, <1>9, <1>10 DEF RoomInv

(* The end of a call makes a slot of its file counted, and the size grows  *)
(* by one at most over what it was when the slot was taken.                *)
LEMMA StoreKeepsRoom ==
  ASSUME IInv, RoomInv, NEW t \in Threads, Store(t)
  PROVE  RoomInv'
<1> DEFINE f == call[t].file
<1>1. /\ status = "ok" /\ status' = "ok" /\ UNCHANGED <<names, array, opened>>
      /\ call[t].at = "store" /\ IsOpened(call[t]) /\ call[t].next \in Nat
      /\ size' = call[t].next + 1 /\ call' = [call EXCEPT ![t] = NoCall]
      /\ ThreadOK(names, array, size, opened, call[t])
  BY CallFacts DEF Store, At, Return, IsOpened, CallRecord
<1>2. call'[t] = NoCall /\ \A u \in Threads : u # t => call'[u] = call[u]
  BY <1>1 DEF IInv, Type
<1>3. t \in InCall(call) /\ InCall(call') = InCall(call) \ {t}
  BY <1>1, <1>2 DEF InCall, IsOpened, NoCall
<1>4. Counted(names', size', f) # {}
  <2>1. CASE Counted(names, size, f) = {}
    <3>1. size \in Slots /\ names[size] = f /\ call[t].next = size
      BY <1>1, <2>1 DEF ThreadOK, Fresh
    <3> QED
      BY <1>1, <3>1 DEF Counted
  <2>2. CASE Counted(names, size, f) # {}
    BY <1>1, <2>2, CallFacts, CountedStays DEF IsActive, IsOpened
  <2> QED
    BY <2>1, <2>2
<1>5. \A g \in Files : StillInCall(names', size', opened', call', g)
  <2> SUFFICES ASSUME NEW g \in Files, Counted(names', size', g) = {},
                      NEW k \in Openings(opened, g)
               PROVE  \E u \in InCall(call') : call'[u].fd = FirstDescriptor + k - 1
    BY <1>1 DEF StillInCall
  <2>1. Counted(names, size, g) = {} /\ g # f
    BY <1>1, <1>4, CountedStays
  <2>2. PICK u \in InCall(call) : call[u].fd = FirstDescriptor + k - 1
    BY <1>1, <2>1 DEF RoomInv, StillInCall
  <2>3. u # t
    <3>1. k \in 1 .. Len(opened) /\ opened[k] = g
      BY DEF Openings
    <3>2. FileIn(opened, FirstDescriptor + k - 1) = g
      BY <3>1 DEF FileIn, FirstDescriptor
    <3>3. FileIn(opened, call[t].fd) = f
      BY <1>1 DEF ThreadOK, Kept
    <3> QED
      BY <2>1, <2>2, <3>2, <3>3
  <2> QED
    BY <1>2, <1>3, <2>2, <2>3 DEF InCall
<1>6. SlotsAreOver(size', opened', call')
  <2> DEFINE card == Cardinality(InCall(call))
  <2>1. /\ SlotsAreOver(size, opened, call) /\ card \in Nat /\ IsFiniteSet(InCall(call))
        /\ Len(opened) \in Nat
    BY <1>1, InCallIsFinite DEF RoomInv, IInv, Type
  <2>2. Cardinality(InCall(call')) = card - 1
    BY <1>3, <2>1, FS_RemoveElement
  <2>3. \A u \in InCall(call') : u \in InCall(call) /\ call'[u] = call[u] /\ call[u].next \in Nat
    BY <1>1, <1>2, <1>3, CallFacts DEF InCall, CallRecord
  <2>4. call[t].next + card <= Len(opened)
    BY <1>1, <1>3, <2>1 DEF SlotsAreOver
  <2>5. size' + (card - 1) <= Len(opened)
    BY <1>1, <2>1, <2>4
  <2>6. ASSUME NEW u \in InCall(call'), call'[u].at # "next"
        PROVE  call'[u].next + (card - 1) <= Len(opened)
    <3>1. u \in InCall(call) /\ call'[u] = call[u] /\ call[u].next \in Nat
      BY <2>3, <2>6
    <3>2. call[u].next + card <= Len(opened)
      BY <2>1, <2>6, <3>1 DEF SlotsAreOver
    <3> QED
      BY <2>1, <3>1, <3>2
  <2> QED
    BY <1>1, <2>2, <2>5, <2>6 DEF SlotsAreOver
<1> QED
  BY <1>1, <1>5, <1>6 DEF RoomInv

LEMMA NextKeepsRoom ==
  ASSUME ForkJoin, IInv, IInv', RoomInv, [Next]_vars
  PROVE  RoomInv'
<1>1. CASE UNCHANGED vars
  BY <1>1 DEF vars, gr_files, RoomInv
<1>2. CASE Destroy
  BY <1>2 DEF Destroy, gr_files, RoomInv
<1>3. ASSUME NEW t \in Threads, Step(t) \/ \E f \in Files : Call(t, f)
      PROVE  RoomInv'
  BY <1>3, QuietKeepsRoom, OpenKeepsRoom, StoreKeepsRoom DEF Step
<1> QED
  BY <1>1, <1>2, <1>3 DEF Next

(***************************************************************************)
(* What the races on the table can waste is bounded in every fork-join     *)
(* run: the openings of a file belong to different threads, and the size   *)
(* and every slot about to be filled are paid for by calls of              *)
(* gr_open_file that are over.                                             *)
(***************************************************************************)
THEOREM RoomInvHolds ==
  ASSUME ForkJoin
  PROVE  Spec => []RoomInv
<1>1. Init => RoomInv
  BY InitRoomInv
<1>2. IInv /\ IInv' /\ RoomInv /\ [Next]_vars => RoomInv'
  BY NextKeepsRoom
<1> QED
  BY <1>1, <1>2, IInvHolds, PTL DEF Spec

(***************************************************************************)
(* A file is opened at most once by each thread: by those that missed it   *)
(* together, before the first of them had made it known.                   *)
(***************************************************************************)
THEOREM OpeningsAreBounded ==
  ASSUME ForkJoin
  PROVE  Spec => []OpenedOncePerThread
<1>1. RoomInv => OpenedOncePerThread
  <2> SUFFICES ASSUME RoomInv, NEW f \in Files
               PROVE  Cardinality(Openings(opened, f)) <= Cardinality(Threads)
    BY DEF OpenedOncePerThread, Openings
  <2>1. PICK m \in [Openings(opened, f) -> Threads] :
          \A j, k \in Openings(opened, f) : m[j] = m[k] => j = k
    BY DEF RoomInv, OwnThread
  <2>2. m \in Injection(Openings(opened, f), Threads)
    BY <2>1 DEF Injection, IsInjective
  <2> QED
    BY <2>2, FinitenessAssumption, FS_Injection
<1> QED
  BY <1>1, RoomInvHolds, PTL

(* All openings together: each is one of a file by a thread.               *)
LEMMA OpeningsInAll ==
  ASSUME RoomInv, Type
  PROVE  Len(opened) <= Cardinality(Threads) * Cardinality(Files)
<1> DEFINE Own(f, m) == /\ m \in [Openings(opened, f) -> Threads]
                        /\ \A j, k \in Openings(opened, f) : m[j] = m[k] => j = k
           own == [f \in Files |-> CHOOSE m : Own(f, m)]
           pair == [k \in 1 .. Len(opened) |-> <<own[opened[k]][k], opened[k]>>]
<1>1. \A f \in Files : Own(f, own[f])
  <2> SUFFICES ASSUME NEW f \in Files PROVE Own(f, own[f])
    OBVIOUS
  <2>1. \E m : Own(f, m)
    BY DEF RoomInv, OwnThread
  <2> QED
    BY <2>1
<1> HIDE DEF own
<1>2. \A k \in 1 .. Len(opened) : opened[k] \in Files /\ k \in Openings(opened, opened[k])
  BY DEF Type, Openings
<1>3. pair \in [1 .. Len(opened) -> Threads \X Files]
  BY <1>1, <1>2
<1>4. \A j, k \in 1 .. Len(opened) : pair[j] = pair[k] => j = k
  <2> SUFFICES ASSUME NEW j \in 1 .. Len(opened), NEW k \in 1 .. Len(opened),
                      pair[j] = pair[k]
               PROVE  j = k
    OBVIOUS
  <2>1. opened[j] = opened[k] /\ own[opened[k]][j] = own[opened[k]][k]
    OBVIOUS
  <2> QED
    BY <1>1, <1>2, <2>1
<1>5. pair \in Injection(1 .. Len(opened), Threads \X Files)
  BY <1>3, <1>4 DEF Injection, IsInjective
<1>6. /\ IsFiniteSet(Threads \X Files)
      /\ Cardinality(Threads \X Files) = Cardinality(Threads) * Cardinality(Files)
  BY FinitenessAssumption, FS_Product
<1>7. Cardinality(1 .. Len(opened)) <= Cardinality(Threads \X Files)
  BY <1>5, <1>6, FS_Injection
<1>8. Len(opened) \in Nat
  BY DEF Type
<1>9. Cardinality(1 .. Len(opened)) = Len(opened)
  <2>1. Cardinality(1 .. Len(opened)) =
          IF 1 > Len(opened) THEN 0 ELSE Len(opened) - 1 + 1
    BY <1>8, FS_Interval
  <2> QED
    BY <1>8, <2>1
<1> QED
  BY <1>6, <1>7, <1>9

(***************************************************************************)
(* Nothing is written or read behind the end of a table that has a slot    *)
(* for each file and thread.                                               *)
(***************************************************************************)
THEOREM RoomIsEnough ==
  ASSUME ForkJoin
  PROVE  Spec => []TableHasRoom
<1> DEFINE Enough == Cardinality(Threads) * Cardinality(Files) <= GR_MAX_OPEN_FILE
<1>1. Init => TableHasRoom
  BY DEF Init, TableHasRoom
<1>2. ASSUME IInv, RoomInv, TableHasRoom, [Next]_vars
      PROVE  TableHasRoom'
  <2> SUFFICES ASSUME Enough, status' = "fault", status # "fault"
               PROVE  FALSE
    BY <1>2 DEF TableHasRoom
  <2>1. PICK t \in Threads : Scan(t) \/ RecordName(t)
    <3>1. Next /\ ~Destroy
      BY <1>2 DEF vars, Destroy
    <3>2. PICK t \in Threads : Step(t) \/ \E f \in Files : Call(t, f)
      BY <3>1 DEF Next
    <3>3. Scan(t) \/ RecordName(t)
      BY <3>2 DEF Step, Call, Found, OpenFails, Open, ReadNext, RecordDescriptor, Load, Store
    <3> QED
      BY <3>3
  <2>2. /\ SlotsAreOver(size, opened, call) /\ Len(opened) <= GR_MAX_OPEN_FILE
        /\ Len(opened) \in Nat /\ size \in Nat /\ GR_MAX_OPEN_FILE \in Nat
        /\ call[t].i \in Nat /\ call[t].next \in Nat
    <3>1. status = "ok" /\ Type /\ call[t] \in CallRecord(opened)
      <4>1. status = "ok" /\ Type
        BY <1>2, <2>1 DEF IInv, Scan, RecordName, At
      <4> QED
        BY <4>1 DEF Type
    <3>2. Cardinality(Threads) \in Nat /\ Cardinality(Files) \in Nat
      BY FinitenessAssumption, FS_CardinalityType
    <3> DEFINE room == Cardinality(Threads) * Cardinality(Files)
    <3>3. Len(opened) <= room /\ room <= GR_MAX_OPEN_FILE
      BY <1>2, <3>1, OpeningsInAll
    <3>4. GR_MAX_OPEN_FILE \in Nat
      BY FileAssumption
    <3>5. Len(opened) \in Nat /\ size \in Nat
      BY <3>1 DEF Type
    <3>6. call[t].i \in Nat /\ call[t].next \in Nat
      BY <3>1 DEF CallRecord
    <3>7. room \in Nat
      BY <3>2
    <3>8. SlotsAreOver(size, opened, call)
      BY <1>2, <3>1 DEF RoomInv
    <3> HIDE DEF room
    <3>9. Len(opened) <= GR_MAX_OPEN_FILE
      BY <3>3, <3>4, <3>5, <3>7
    <3> QED
      BY <3>4, <3>5, <3>6, <3>7, <3>8, <3>9
  <2>3. CASE Scan(t)
    <3>1. call[t].i < size /\ call[t].i \notin Slots
      BY <2>3 DEF Scan
    <3>2. call[t].i >= GR_MAX_OPEN_FILE
      BY <2>2, <3>1 DEF Slots
    <3>3. Cardinality(InCall(call)) \in Nat
      BY InCallIsFinite
    <3>4. size <= Len(opened)
      BY <2>2, <3>3 DEF SlotsAreOver
    <3> QED
      BY <2>2, <3>1, <3>2, <3>4
  <2>4. CASE RecordName(t)
    <3>1. t \in InCall(call) /\ call[t].at # "next" /\ call[t].next \notin Slots
      BY <2>4 DEF RecordName, At, InCall, IsOpened
    <3>2. call[t].next >= GR_MAX_OPEN_FILE
      BY <2>2, <3>1 DEF Slots
    <3>3. Cardinality(InCall(call)) \in Nat /\ Cardinality(InCall(call)) > 0
      BY <3>1, InCallIsFinite
    <3>4. call[t].next + Cardinality(InCall(call)) <= Len(opened)
      BY <2>2, <3>1 DEF SlotsAreOver
    <3> QED
      BY <2>2, <3>2, <3>3, <3>4
  <2> QED
    BY <2>1, <2>3, <2>4
<1> QED
  BY <1>1, <1>2, IInvHolds, RoomInvHolds, PTL DEF Spec
=============================================================================
