--------------------------- MODULE FileTableProofs ---------------------------
(***************************************************************************)
(* What survives the races on the table of source files, for every number  *)
(* of threads, every set of files and every size of the table: as long as  *)
(* the calls that overlap are for one file (ForkJoin), an integer that the *)
(* table tells for a file was opened for that file, and stays what it is.  *)
(***************************************************************************)
EXTENDS FileTable, TLAPS

(***************************************************************************)
(* The argument. A file is found at the first slot that is counted and has *)
(* its name. Slots may be written by several threads, counted twice and    *)
(* counted no more, but in one epoch, the calls that overlap, all of them  *)
(* are at or behind the size that the epoch began with. Hence the first    *)
(* slot of any other file stays what it is, and the first slot of the file *)
(* in question is the one that everybody found free.                       *)
(*                                                                         *)
(* The operators are of the names n, the array a, the size z and the       *)
(* descriptors o, so that they can be said of a state and of the next one. *)
(***************************************************************************)
IsActive(c) == c.at # "idle"
IsOpened(c) == c.at \in {"next", "name", "descriptor", "load", "store"}

Valid(o, fd)      == fd \in FirstDescriptor .. FirstDescriptor + Len(o) - 1
FileIn(o, fd)     == o[fd - FirstDescriptor + 1]
Named(n, f)       == \E s \in Slots : n[s] = f
Counted(n, z, f)  == {s \in Slots : s < z /\ n[s] = f}
First(n, z, f, k) == k \in Counted(n, z, f) /\ \A r \in Counted(n, z, f) : k <= r
Holds(a, o, s, f) == Valid(o, a[s]) /\ FileIn(o, a[s]) = f

(* The call c of a thread: what it keeps of its arguments, ...             *)
Kept(o, c) ==
  /\ IsActive(c) => c.file \in Files
  /\ ~IsActive(c) => c.file = NoFile /\ c.i = 0
  /\ IsOpened(c) => Valid(o, c.fd) /\ FileIn(o, c.fd) = c.file
  /\ c.at \in {"descriptor", "load"} => c.next \in Slots

(* ... how far it has looked, ...                                          *)
Scanned(n, z, c) ==
  IsActive(c) =>
    /\ c.i <= z
    /\ \A s \in Slots : s < c.i => n[s] # c.file
    /\ c.at = "found" => c.i \in Counted(n, z, c.file)

(* ... where it is while no slot of its file is counted, ...               *)
Fresh(n, a, z, o, c) ==
  IsOpened(c) /\ Counted(n, z, c.file) = {} =>
    /\ c.at # "next" => c.next = z
    /\ c.at \in {"descriptor", "load", "store"} => z \in Slots /\ n[z] = c.file
    /\ c.at \in {"load", "store"} => Holds(a, o, z, c.file)

(* ... and once one is, behind every other file.                           *)
Behind(n, z, c) ==
  IsOpened(c) => \A k : First(n, z, c.file, k) =>
    /\ c.at # "next" => c.next >= k
    /\ \A g \in Files : g # c.file /\ Named(n, g) => \E r \in Counted(n, z, g) : r < k

ThreadOK(n, a, z, o, c) ==
  Kept(o, c) /\ Scanned(n, z, c) /\ Fresh(n, a, z, o, c) /\ Behind(n, z, c)

OneFile(calls) ==
  \A t, u \in Threads : IsActive(calls[t]) /\ IsActive(calls[u]) =>
    calls[t].file = calls[u].file

(* The first slot of a file holds a descriptor of it, ...                  *)
FirstHolds(n, a, z, o) ==
  \A f \in Files :
    Counted(n, z, f) = {} \/ \E k \in Slots : First(n, z, f, k) /\ Holds(a, o, k, f)

(* ... and a name in the table that is not counted is about to be.         *)
NamedIsCounted(n, z, calls) ==
  \A f \in Files : Named(n, f) /\ Counted(n, z, f) = {} =>
    \E t \in Threads : IsOpened(calls[t]) /\ calls[t].file = f

TableInv ==
  /\ \A t \in Threads : ThreadOK(names, array, size, opened, call[t])
  /\ OneFile(call)
  /\ FirstHolds(names, array, size, opened)
  /\ NamedIsCounted(names, size, call)

ToldInv ==
  \A f \in Files : \A id \in told[f] \ ({-1} \cup NoReturn) :
    Valid(opened, id) /\ FileIn(opened, id) = f

CallRecord(o) ==
  [at : Places, file : Files \cup {NoFile}, i : Nat,
   fd : {-1} \cup {d \in Int : Valid(o, d)}, next : Nat]

Type ==
  /\ names \in [Slots -> Files \cup {NoFile}]
  /\ array \in [Slots -> {-1, 0} \cup {d \in Int : Valid(opened, d)}]
  /\ size \in Nat
  /\ opened \in Seq(Files \ Unreadable)
  /\ call \in [Threads -> CallRecord(opened)]
  /\ told \in [Files -> SUBSET Int]
  /\ status \in {"ok", "freed", "fault"}

IInv == Type /\ ToldInv /\ (status = "ok" => TableInv)

-----------------------------------------------------------------------------
LEMMA InitIInv == Init => IInv
<1> SUFFICES ASSUME Init PROVE IInv
  OBVIOUS
<1> USE FileAssumption DEF Init, Slots
<1>1. Type /\ ToldInv
  BY DEF Type, CallRecord, ToldInv, NoCall, Places, Valid, FirstDescriptor
<1>2. \A t \in Threads : ThreadOK(names, array, size, opened, call[t])
  BY DEF ThreadOK, Kept, Scanned, Fresh, Behind, IsActive, IsOpened, NoCall
<1>3. OneFile(call)
  BY DEF OneFile, IsActive, NoCall
<1>4. FirstHolds(names, array, size, opened) /\ NamedIsCounted(names, size, call)
  BY DEF FirstHolds, NamedIsCounted, Named, Counted
<1> QED
  BY <1>1, <1>2, <1>3, <1>4 DEF IInv, TableInv

(***************************************************************************)
(* A step that touches neither the table nor the descriptors.              *)
(***************************************************************************)
LEMMA QuietStep ==
  ASSUME TableInv, UNCHANGED <<names, array, size, opened>>,
         NEW t \in Threads, NEW c, call' = [call EXCEPT ![t] = c],
         call \in [Threads -> CallRecord(opened)],
         ThreadOK(names, array, size, opened, c),
         IsActive(c) => \A u \in Threads \ {t} : IsActive(call[u]) => call[u].file = c.file,
         IsOpened(call[t]) => IsOpened(c) /\ c.file = call[t].file
  PROVE  TableInv'
<1>1. call'[t] = c /\ \A u \in Threads : u # t => call'[u] = call[u]
  OBVIOUS
<1>2. \A u \in Threads : ThreadOK(names', array', size', opened', call'[u])
  BY <1>1 DEF TableInv
<1>3. OneFile(call')
  BY <1>1 DEF TableInv, OneFile
<1>4. FirstHolds(names', array', size', opened')
  BY DEF TableInv
<1>5. NamedIsCounted(names', size', call')
  BY <1>1 DEF TableInv, NamedIsCounted
<1> QED
  BY <1>2, <1>3, <1>4, <1>5 DEF TableInv

(* What the calls of the threads are, given the invariant.                 *)
LEMMA CallFacts ==
  ASSUME IInv, status = "ok", NEW t \in Threads
  PROVE  /\ call \in [Threads -> CallRecord(opened)] /\ call[t] \in CallRecord(opened)
         /\ TableInv /\ ThreadOK(names, array, size, opened, call[t])
         /\ IsActive(call[t]) => call[t].file \in Files
         /\ \A u \in Threads : IsActive(call[u]) /\ IsActive(call[t]) =>
              call[u].file = call[t].file
BY DEF IInv, Type, TableInv, ThreadOK, Kept, OneFile

LEMMA CallKeeps ==
  ASSUME ForkJoin, IInv, NEW t \in Threads, NEW f \in Files, Call(t, f)
  PROVE  IInv'
<1> DEFINE c == [NoCall EXCEPT !.at = "scan", !.file = f]
<1>1. /\ status = "ok" /\ status' = "ok" /\ told' = told /\ ~IsActive(call[t])
      /\ UNCHANGED <<names, array, size, opened>>
      /\ call' = [call EXCEPT ![t] = c]
      /\ \A u \in Threads : call[u].file \in {NoFile, f}
  <2>1. \A u \in Threads : call[u].file \in {NoFile, f}
    BY Zenon DEF Call
  <2>2. call' = [call EXCEPT ![t] = c]
    BY Zenon DEF Call
  <2> HIDE DEF c
  <2> QED
    BY <2>1, <2>2 DEF Call, At, gr_files, IsActive
<1>2. c.at = "scan" /\ c.file = f /\ c.i = 0 /\ c \in CallRecord(opened)
  <2>1. NoCall = [at |-> "idle", file |-> NoFile, i |-> 0, fd |-> -1, next |-> 0]
    BY DEF NoCall
  <2>2. 0 \in Nat /\ "scan" \in Places
    BY DEF Places
  <2> QED
    BY <2>1, <2>2, Zenon DEF CallRecord
<1> HIDE DEF c
<1>3. Type'
  BY <1>1, <1>2 DEF IInv, Type
<1>4. ThreadOK(names, array, size, opened, c)
  BY <1>2 DEF ThreadOK, Kept, Scanned, Fresh, Behind, IsActive, IsOpened, IInv, Type,
              Slots
<1>5. \A u \in Threads : IsActive(call[u]) => call[u].file = f
  BY <1>1, FileAssumption, CallFacts
<1>6. TableInv'
  BY <1>1, <1>2, <1>4, <1>5, CallFacts, QuietStep DEF IsActive, IsOpened
<1> QED
  BY <1>1, <1>3, <1>6 DEF IInv, ToldInv

LEMMA LookedFields ==
  ASSUME NEW o, NEW c \in CallRecord(o), NEW n
  PROVE  /\ Looked(c, n) \in CallRecord(o)
         /\ Looked(c, n).file = c.file
         /\ n = c.file => Looked(c, n).at = "found" /\ Looked(c, n).i = c.i
         /\ n # c.file => Looked(c, n).at = c.at /\ Looked(c, n).i = c.i + 1
BY DEF Looked, CallRecord, Places

LEMMA ScanKeeps ==
  ASSUME IInv, NEW t \in Threads, Scan(t)
  PROVE  IInv'
<1> DEFINE f == call[t].file
           i == call[t].i
           c == Looked(call[t], names[i])
<1>1. /\ status = "ok" /\ told' = told /\ call[t].at = "scan" /\ i < size
      /\ UNCHANGED <<names, array, size, opened>>
      /\ \/ i \in Slots /\ status' = "ok" /\ call' = [call EXCEPT ![t] = c]
         \/ status' = "fault" /\ UNCHANGED call
  BY DEF Scan, At, gr_files
<1>2. /\ c \in CallRecord(opened) /\ c.file = f
      /\ names[i] = f => c.at = "found" /\ c.i = i
      /\ names[i] # f => c.at = "scan" /\ c.i = i + 1
  BY <1>1, CallFacts, LookedFields
<1> HIDE DEF c
<1>3. i \in Nat /\ size \in Nat
  BY <1>1, CallFacts DEF CallRecord, IInv, Type
<1>4. Type'
  BY <1>1, <1>2 DEF IInv, Type
<1>5. CASE status' = "fault"
  BY <1>1, <1>4, <1>5 DEF IInv, ToldInv
<1>6. CASE i \in Slots /\ status' = "ok" /\ call' = [call EXCEPT ![t] = c]
  <2>1. CASE names[i] = f
    <3>1. ThreadOK(names, array, size, opened, c)
      BY <1>1, <1>2, <1>6, <2>1, CallFacts
      DEF ThreadOK, Kept, Scanned, Fresh, Behind, IsActive, IsOpened, Counted
    <3> QED
      BY <1>1, <1>2, <1>4, <1>6, <3>1, CallFacts, QuietStep
      DEF IsActive, IsOpened, IInv, ToldInv
  <2>2. CASE names[i] # f
    <3>1. \A s \in Slots : s < i + 1 => s < i \/ s = i
      BY <1>3 DEF Slots
    <3>2. ThreadOK(names, array, size, opened, c)
      BY <1>1, <1>2, <1>3, <1>6, <2>2, <3>1, CallFacts
      DEF ThreadOK, Kept, Scanned, Fresh, Behind, IsActive, IsOpened
    <3> QED
      BY <1>1, <1>2, <1>4, <1>6, <3>2, CallFacts, QuietStep
      DEF IsActive, IsOpened, IInv, ToldInv
  <2> QED
    BY <2>1, <2>2
<1> QED
  BY <1>1, <1>5, <1>6

(* A thread that returns is idle, and has been told answer.                *)
LEMMA NoCallIsOK ==
  ASSUME Type
  PROVE  /\ NoCall \in CallRecord(opened) /\ ~IsActive(NoCall) /\ ~IsOpened(NoCall)
         /\ ThreadOK(names, array, size, opened, NoCall)
BY DEF NoCall, CallRecord, Places, ThreadOK, Kept, Scanned, Fresh, Behind, IsActive,
       IsOpened

LEMMA FoundKeeps ==
  ASSUME IInv, NEW t \in Threads, Found(t)
  PROVE  IInv'
<1> DEFINE f == call[t].file
           i == call[t].i
<1>1. /\ status = "ok" /\ status' = "ok" /\ call[t].at = "found"
      /\ UNCHANGED <<names, array, size, opened>>
      /\ call' = [call EXCEPT ![t] = NoCall]
      /\ told' = [told EXCEPT ![f] = @ \cup {array[i]}]
  BY DEF Found, At, gr_files, Return
<1>2. /\ f \in Files /\ i \in Counted(names, size, f) /\ i \in Nat
      /\ \A s \in Slots : s < i => names[s] # f
  BY <1>1, CallFacts DEF ThreadOK, Kept, Scanned, IsActive, CallRecord
<1>3. First(names, size, f, i)
  BY <1>2 DEF First, Counted, Slots
<1>4. Valid(opened, array[i]) /\ FileIn(opened, array[i]) = f
  <2>1. PICK k \in Slots : First(names, size, f, k) /\ Holds(array, opened, k, f)
    BY <1>1, <1>2, CallFacts DEF TableInv, FirstHolds
  <2>2. k = i
    BY <1>2, <1>3, <2>1 DEF First, Counted, Slots
  <2> QED
    BY <2>1, <2>2 DEF Holds
<1>5. array[i] \in Int
  BY <1>2 DEF IInv, Type, Counted
<1>6. Type'
  BY <1>1, <1>2, <1>5, NoCallIsOK DEF IInv, Type
<1>7. ToldInv'
  <2>1. \A g \in Files : told'[g] = IF g = f THEN told[g] \cup {array[i]} ELSE told[g]
    BY <1>1, <1>2 DEF IInv, Type
  <2> QED
    BY <1>1, <1>4, <2>1 DEF IInv, ToldInv
<1>8. TableInv'
  BY <1>1, CallFacts, NoCallIsOK, QuietStep DEF IsOpened, IInv
<1> QED
  BY <1>6, <1>7, <1>8 DEF IInv

LEMMA OpenFailsKeeps ==
  ASSUME IInv, NEW t \in Threads, OpenFails(t)
  PROVE  IInv'
<1> DEFINE f == call[t].file
<1>1. /\ status = "ok" /\ status' = "ok" /\ call[t].at = "scan" /\ f \in Files
      /\ UNCHANGED <<names, array, size, opened>>
      /\ call' = [call EXCEPT ![t] = NoCall]
      /\ told' = [told EXCEPT ![f] = @ \cup {-1}]
  BY FileAssumption DEF OpenFails, At, gr_files, Return
<1>2. Type'
  BY <1>1, NoCallIsOK DEF IInv, Type
<1>3. ToldInv'
  BY <1>1 DEF IInv, Type, ToldInv
<1>4. TableInv'
  BY <1>1, CallFacts, NoCallIsOK, QuietStep DEF IsOpened, IInv
<1> QED
  BY <1>2, <1>3, <1>4 DEF IInv

LEMMA ReadNextKeeps ==
  ASSUME IInv, NEW t \in Threads, ReadNext(t)
  PROVE  IInv'
<1> DEFINE f == call[t].file
           c == [call[t] EXCEPT !.at = "name", !.next = size]
<1>1. /\ status = "ok" /\ status' = "ok" /\ told' = told /\ call[t].at = "next"
      /\ UNCHANGED <<names, array, size, opened>>
      /\ call' = [call EXCEPT ![t] = c]
  BY DEF ReadNext, At, gr_files
<1>2. /\ c.at = "name" /\ c.file = f /\ c.i = call[t].i /\ c.fd = call[t].fd
      /\ c.next = size /\ c \in CallRecord(opened) /\ size \in Nat
  BY <1>1, CallFacts DEF CallRecord, Places, IInv, Type
<1> HIDE DEF c
<1>3. Type'
  BY <1>1, <1>2 DEF IInv, Type
<1>4. \A k : First(names, size, f, k) => size >= k
  BY <1>2 DEF First, Counted, Slots
<1>5. ThreadOK(names, array, size, opened, c)
  BY <1>1, <1>2, <1>4, CallFacts
  DEF ThreadOK, Kept, Scanned, Fresh, Behind, IsActive, IsOpened
<1>6. TableInv'
  BY <1>1, <1>2, <1>5, CallFacts, QuietStep DEF IsActive, IsOpened
<1> QED
  BY <1>1, <1>3, <1>6 DEF IInv, ToldInv

LEMMA LoadKeeps ==
  ASSUME IInv, NEW t \in Threads, Load(t)
  PROVE  IInv'
<1> DEFINE f == call[t].file
<1>1. PICK n \in {size, call[t].next} :
        call' = [call EXCEPT ![t] = [@ EXCEPT !.at = "store", !.next = n]]
  BY DEF Load
<1> DEFINE c == [call[t] EXCEPT !.at = "store", !.next = n]
<1>2. /\ status = "ok" /\ status' = "ok" /\ told' = told /\ call[t].at = "load"
      /\ UNCHANGED <<names, array, size, opened>>
      /\ call' = [call EXCEPT ![t] = c]
  BY <1>1, CallFacts DEF Load, At, gr_files
<1>3. /\ c.at = "store" /\ c.file = f /\ c.i = call[t].i /\ c.fd = call[t].fd
      /\ c.next = n /\ c \in CallRecord(opened) /\ size \in Nat /\ n \in Nat
  BY <1>2, CallFacts DEF CallRecord, Places, IInv, Type
<1> HIDE DEF c
<1>4. Type'
  BY <1>2, <1>3 DEF IInv, Type
<1>5. \A k : First(names, size, f, k) => size >= k
  BY <1>3 DEF First, Counted, Slots
<1>6. ThreadOK(names, array, size, opened, c)
  BY <1>2, <1>3, <1>5, CallFacts
  DEF ThreadOK, Kept, Scanned, Fresh, Behind, IsActive, IsOpened
<1>7. TableInv'
  BY <1>2, <1>3, <1>6, CallFacts, QuietStep DEF IsActive, IsOpened
<1> QED
  BY <1>2, <1>4, <1>7 DEF IInv, ToldInv

-----------------------------------------------------------------------------
(* A new descriptor leaves what is said of the others as it was.           *)
LEMMA AppendedKeeps ==
  ASSUME NEW S, NEW o \in Seq(S), NEW f \in S
  PROVE  /\ Append(o, f) \in Seq(S)
         /\ \A d \in Int : Valid(o, d) =>
              Valid(Append(o, f), d) /\ FileIn(Append(o, f), d) = FileIn(o, d)
         /\ LET d == FirstDescriptor + Len(o)
            IN  d \in Int /\ Valid(Append(o, f), d) /\ FileIn(Append(o, f), d) = f
BY DEF Valid, FileIn, FirstDescriptor

LEMMA OpenKeeps ==
  ASSUME IInv, NEW t \in Threads, Open(t)
  PROVE  IInv'
<1> DEFINE f == call[t].file
           d == FirstDescriptor + Len(opened)
           c == [call[t] EXCEPT !.at = "next", !.fd = d]
<1>1. /\ status = "ok" /\ status' = "ok" /\ told' = told /\ call[t].at = "scan"
      /\ call[t].i >= size /\ f \in Files \ Unreadable
      /\ UNCHANGED <<names, array, size>>
      /\ opened' = Append(opened, f)
      /\ call' = [call EXCEPT ![t] = c]
  <2>1. call[t].at = "scan" /\ f \in Files \ Unreadable
    BY CallFacts DEF Open, At, IsActive
  <2>2. call' = [call EXCEPT ![t] = c]
    BY Zenon DEF Open
  <2> HIDE DEF c
  <2> QED
    BY <2>1, <2>2 DEF Open, At, gr_files
<1>2. /\ opened' \in Seq(Files \ Unreadable)
      /\ \A e \in Int : Valid(opened, e) =>
           Valid(opened', e) /\ FileIn(opened', e) = FileIn(opened, e)
      /\ d \in Int /\ Valid(opened', d) /\ FileIn(opened', d) = f
  BY <1>1, AppendedKeeps DEF IInv, Type
<1> HIDE DEF d
<1>3. CallRecord(opened) \subseteq CallRecord(opened')
  BY <1>2 DEF CallRecord
<1>4. /\ c.at = "next" /\ c.file = f /\ c.i = call[t].i /\ c.fd = d
      /\ c \in CallRecord(opened')
  <2>1. call[t] \in CallRecord(opened') /\ d \in {e \in Int : Valid(opened', e)}
        /\ "next" \in Places
    BY <1>1, <1>2, <1>3, CallFacts DEF Places
  <2> QED
    BY <2>1, Zenon DEF CallRecord
<1> HIDE DEF c
<1>5. Type'
  <2>1. array' \in [Slots -> {-1, 0} \cup {e \in Int : Valid(opened', e)}]
    BY <1>1, <1>2 DEF IInv, Type
  <2>2. call' \in [Threads -> CallRecord(opened')]
    BY <1>1, <1>3, <1>4, CallFacts
  <2> QED
    BY <1>1, <1>2, <2>1, <2>2 DEF IInv, Type
<1>6. ToldInv'
  BY <1>1, <1>2 DEF IInv, Type, ToldInv
<1>7. \A s \in Slots, g \in Files : Holds(array, opened, s, g) => Holds(array, opened', s, g)
  BY <1>2 DEF Holds, IInv, Type
<1>8. \A u \in Threads : ThreadOK(names, array, size, opened, call[u]) =>
        ThreadOK(names, array, size, opened', call[u])
  <2> SUFFICES ASSUME NEW u \in Threads, ThreadOK(names, array, size, opened, call[u])
               PROVE  ThreadOK(names, array, size, opened', call[u])
    OBVIOUS
  <2>1. call[u] \in CallRecord(opened) /\ (IsOpened(call[u]) => call[u].fd \in Int)
    BY <1>1, CallFacts DEF CallRecord
  <2>2. Kept(opened', call[u])
    BY <1>2, <2>1 DEF ThreadOK, Kept
  <2>3. Fresh(names, array, size, opened', call[u])
    BY <1>1, <1>7, CallFacts DEF ThreadOK, Kept, Fresh, IsOpened, IsActive
  <2> QED
    BY <2>2, <2>3 DEF ThreadOK
<1>9. Counted(names, size, f) = {}
  <2>1. \A s \in Slots : s < call[t].i => names[s] # f
    BY <1>1, CallFacts DEF ThreadOK, Scanned, IsActive
  <2>2. call[t].i \in Nat /\ size \in Nat
    BY <1>1, CallFacts DEF CallRecord, IInv, Type
  <2> QED
    BY <1>1, <2>1, <2>2 DEF Counted, Slots
<1>10. ThreadOK(names, array, size, opened', c)
  BY <1>1, <1>2, <1>4, <1>9, CallFacts
  DEF ThreadOK, Kept, Scanned, Fresh, Behind, First, IsActive, IsOpened
<1>11. TableInv'
  <2>1. call'[t] = c /\ \A u \in Threads : u # t => call'[u] = call[u]
    BY <1>1, CallFacts
  <2>2. \A u \in Threads : ThreadOK(names', array', size', opened', call'[u])
    BY <1>1, <1>8, <1>10, <2>1, CallFacts DEF TableInv
  <2>3. OneFile(call')
    BY <1>1, <1>4, <2>1, CallFacts DEF TableInv, OneFile, IsActive
  <2>4. FirstHolds(names', array', size', opened')
    BY <1>1, <1>7, CallFacts DEF TableInv, FirstHolds
  <2>5. NamedIsCounted(names', size', call')
    <3>1. \A u \in Threads : IsOpened(call[u]) => IsOpened(call'[u]) /\ call'[u].file = call[u].file
      BY <1>1, <1>4, <2>1 DEF IsOpened
    <3> QED
      BY <1>1, <3>1, CallFacts DEF TableInv, NamedIsCounted
  <2> QED
    BY <2>2, <2>3, <2>4, <2>5 DEF TableInv
<1> QED
  BY <1>5, <1>6, <1>11 DEF IInv

-----------------------------------------------------------------------------
(* Where the thread of a call for f writes, and what it must not change.   *)
Located(n, z) ==
  \A g \in Files : Counted(n, z, g) = {} \/ \E k \in Slots : First(n, z, g, k)
InPlace(n, z, f, p) ==
  /\ Counted(n, z, f) = {} => p = z
  /\ \A k : First(n, z, f, k) =>
       p >= k /\ \A g \in Files : g # f /\ Named(n, g) => \E r \in Counted(n, z, g) : r < k
SameFirsts(n1, n, z) ==
  \A g \in Files : /\ Counted(n1, z, g) = {} <=> Counted(n, z, g) = {}
                   /\ \A k : First(n1, z, g, k) <=> First(n, z, g, k)

(* The name of a file, written where its thread may write it, leaves the   *)
(* first slot of every file as it is.                                      *)
LEMMA NameWritten ==
  ASSUME NEW n \in [Slots -> Files \cup {NoFile}], NEW z \in Nat,
         NEW f \in Files, NEW p \in Slots, NEW n1, n1 = [n EXCEPT ![p] = f],
         Located(n, z), InPlace(n, z, f, p)
  PROVE  SameFirsts(n1, n, z)
<1> USE DEF Located, InPlace, SameFirsts
<1>1. \A s \in Slots : n1[s] = IF s = p THEN f ELSE n[s]
  OBVIOUS
<1>2. CASE Counted(n, z, f) = {}
  <2>1. \A g : Counted(n1, z, g) = Counted(n, z, g)
    BY <1>1, <1>2 DEF Counted, Slots
  <2> QED
    BY <2>1 DEF First
<1>3. ASSUME NEW k \in Slots, First(n, z, f, k)
      PROVE  \A g \in Files :
               /\ Counted(n1, z, g) = {} <=> Counted(n, z, g) = {}
               /\ \A j : First(n1, z, g, j) <=> First(n, z, g, j)
  <2>1. /\ k \in Counted(n1, z, f) /\ \A r \in Counted(n1, z, f) : k <= r
        /\ k \in Counted(n, z, f) /\ \A r \in Counted(n, z, f) : k <= r
    BY <1>1, <1>3 DEF First, Counted, Slots
  <2>2. ASSUME NEW g \in Files, g # f, Counted(n, z, g) # {}
        PROVE  \E m \in Slots : /\ m \in Counted(n1, z, g) /\ m \in Counted(n, z, g)
                                /\ \A r \in Counted(n1, z, g) : m <= r
                                /\ \A r \in Counted(n, z, g) : m <= r
    <3>1. PICK m \in Slots : First(n, z, g, m)
      BY <2>2
    <3>2. Named(n, g)
      BY <2>2 DEF Counted, Named
    <3>3. PICK r \in Counted(n, z, g) : r < k
      BY <1>3, <2>2, <3>2
    <3>4. m < p
      BY <1>3, <3>1, <3>3 DEF First, Counted, Slots
    <3> QED
      BY <1>1, <2>2, <3>1, <3>4 DEF First, Counted, Slots
  <2>3. \A g : g # f => Counted(n1, z, g) \subseteq Counted(n, z, g)
    BY <1>1 DEF Counted
  <2>4. \A g : Counted(n1, z, g) \subseteq Slots /\ Counted(n, z, g) \subseteq Slots
    BY DEF Counted
  <2>5. ASSUME NEW g \in Files, NEW m \in Slots,
               m \in Counted(n1, z, g), m \in Counted(n, z, g),
               \A r \in Counted(n1, z, g) : m <= r, \A r \in Counted(n, z, g) : m <= r
        PROVE  /\ Counted(n1, z, g) = {} <=> Counted(n, z, g) = {}
               /\ \A j : First(n1, z, g, j) <=> First(n, z, g, j)
    <3>1. \A i, j \in Slots : i <= j /\ j <= i => i = j
      BY DEF Slots
    <3>2. \A j : First(n1, z, g, j) => j = m
      BY <2>4, <2>5, <3>1 DEF First
    <3>3. \A j : First(n, z, g, j) => j = m
      BY <2>4, <2>5, <3>1 DEF First
    <3>4. First(n1, z, g, m) /\ First(n, z, g, m)
      BY <2>5 DEF First
    <3> QED
      BY <2>5, <3>2, <3>3, <3>4
  <2>6. ASSUME NEW g \in Files
        PROVE  /\ Counted(n1, z, g) = {} <=> Counted(n, z, g) = {}
               /\ \A j : First(n1, z, g, j) <=> First(n, z, g, j)
    <3>1. CASE g = f
      BY <2>1, <2>5, <3>1
    <3>2. CASE g # f /\ Counted(n, z, g) = {}
      BY <2>3, <3>2 DEF First
    <3>3. CASE g # f /\ Counted(n, z, g) # {}
      BY <2>2, <2>5, <3>3
    <3> QED
      BY <3>1, <3>2, <3>3
  <2> QED
    BY <2>6
<1> QED
  BY <1>2, <1>3

LEMMA RecordNameKeeps ==
  ASSUME IInv, NEW t \in Threads, RecordName(t)
  PROVE  IInv'
<1> DEFINE f == call[t].file
           p == call[t].next
           c == [call[t] EXCEPT !.at = "descriptor"]
<1>1. /\ status = "ok" /\ told' = told /\ call[t].at = "name"
      /\ UNCHANGED <<array, size, opened>>
      /\ call' = [call EXCEPT ![t] = c]
      /\ \/ p \in Slots /\ names' = [names EXCEPT ![p] = f] /\ status' = "ok"
         \/ status' = "fault" /\ UNCHANGED names
  BY DEF RecordName, At
<1>2. /\ c.at = "descriptor" /\ c.file = f /\ c.i = call[t].i /\ c.fd = call[t].fd
      /\ c.next = p /\ c \in CallRecord(opened) /\ size \in Nat /\ f \in Files
  BY <1>1, CallFacts DEF CallRecord, Places, IInv, Type, IsActive
<1> HIDE DEF c
<1>3. Type' /\ ToldInv'
  BY <1>1, <1>2 DEF IInv, Type, ToldInv
<1>4. CASE status' = "fault"
  BY <1>3, <1>4 DEF IInv
<1>5. CASE p \in Slots /\ names' = [names EXCEPT ![p] = f] /\ status' = "ok"
  <2>1. /\ names \in [Slots -> Files \cup {NoFile}]
        /\ \A g \in Files : \/ Counted(names, size, g) = {}
                            \/ \E k \in Slots : First(names, size, g, k)
        /\ Counted(names, size, f) = {} => p = size
        /\ \A k : First(names, size, f, k) =>
             p >= k /\ \A g \in Files : g # f /\ Named(names, g) =>
                         \E r \in Counted(names, size, g) : r < k
    <3>1. /\ FirstHolds(names, array, size, opened) /\ IsOpened(call[t])
          /\ Fresh(names, array, size, opened, call[t]) /\ Behind(names, size, call[t])
      BY <1>1, CallFacts DEF TableInv, ThreadOK, IsOpened
    <3>2. names \in [Slots -> Files \cup {NoFile}]
      BY DEF IInv, Type
    <3>3. call[t].at # "next"
      BY <1>1
    <3> QED
      BY <3>1, <3>2, <3>3 DEF FirstHolds, Fresh, Behind
  <2>2. \A g \in Files : /\ Counted(names', size, g) = {} <=> Counted(names, size, g) = {}
                         /\ \A k : First(names', size, g, k) <=> First(names, size, g, k)
    <3>1. Located(names, size) /\ InPlace(names, size, f, p)
      BY <2>1 DEF Located, InPlace
    <3>2. SameFirsts(names', names, size)
      BY <1>2, <1>5, <2>1, <3>1, NameWritten
    <3> QED
      BY <3>2 DEF SameFirsts
  <2>3. \A s \in Slots : names'[s] = IF s = p THEN f ELSE names[s]
    BY <1>5, <2>1
  <2>4. \A g : g # f /\ Named(names', g) => Named(names, g)
    BY <2>3 DEF Named
  <2>5. \A s \in Counted(names, size, f) : s \in Counted(names', size, f)
    BY <2>3 DEF Counted
  <2>6. \A k : First(names, size, f, k) => \A g \in Files : g # f /\ Named(names', g) =>
           \E r \in Counted(names', size, g) : r < k
    <3> SUFFICES ASSUME NEW k, First(names, size, f, k),
                        NEW g \in Files, g # f, Named(names', g)
                 PROVE  \E r \in Counted(names', size, g) : r < k
      OBVIOUS
    <3>1. PICK r \in Counted(names, size, g) : r < k
      BY <2>1, <2>4
    <3>2. PICK m \in Slots : First(names, size, g, m)
      BY <2>1, <3>1
    <3>3. m \in Counted(names', size, g)
      BY <2>2, <3>2 DEF First
    <3>4. m <= r /\ r \in Slots /\ k \in Slots
      BY <3>1, <3>2 DEF First, Counted
    <3> QED
      BY <3>1, <3>3, <3>4 DEF Slots
  <2>7. ASSUME NEW e \in CallRecord(opened), IsActive(e) => e.file = f,
               Scanned(names, size, e)
        PROVE  Scanned(names', size, e)
    <3> SUFFICES ASSUME IsActive(e)
                 PROVE  /\ \A s \in Slots : s < e.i => names'[s] # f
                        /\ e.at = "found" => e.i \in Counted(names', size, f)
      BY <2>7 DEF Scanned
    <3>1. e.i \in Nat /\ e.i <= size /\ \A s \in Slots : s < e.i => names[s] # f
      BY <2>7 DEF Scanned, CallRecord
    <3>2. p >= e.i
      <4>1. CASE Counted(names, size, f) = {}
        BY <2>1, <3>1, <4>1
      <4>2. CASE \E k \in Slots : First(names, size, f, k)
        <5>1. PICK k \in Slots : First(names, size, f, k)
          BY <4>2
        <5>2. ~(k < e.i)
          BY <3>1, <5>1 DEF First, Counted
        <5> QED
          BY <1>5, <2>1, <3>1, <5>1, <5>2 DEF Slots
      <4> QED
        BY <1>2, <2>1, <4>1, <4>2
    <3>3. e.at = "found" => e.i \in Counted(names', size, f)
      BY <2>5, <2>7 DEF Scanned
    <3>4. ASSUME NEW s \in Slots, s < e.i PROVE names'[s] # f
      BY <1>5, <2>3, <3>1, <3>2, <3>4 DEF Slots
    <3> QED
      BY <3>3, <3>4
  <2>8. ASSUME NEW e \in CallRecord(opened), IsActive(e) => e.file = f,
               ThreadOK(names, array, size, opened, e)
        PROVE  ThreadOK(names', array, size, opened, e)
    <3>1. Kept(opened, e) /\ Scanned(names', size, e)
      BY <2>7, <2>8 DEF ThreadOK
    <3>2. Fresh(names', array, size, opened, e)
      BY <1>2, <2>2, <2>3, <2>8 DEF ThreadOK, Fresh, IsOpened, IsActive
    <3>3. Behind(names', size, e)
      BY <1>2, <2>2, <2>6, <2>8 DEF ThreadOK, Behind, IsOpened, IsActive
    <3> QED
      BY <3>1, <3>2, <3>3 DEF ThreadOK
  <2>9. ThreadOK(names', array, size, opened, c)
    <3>1. Kept(opened, c)
      BY <1>1, <1>2, <1>5, CallFacts DEF ThreadOK, Kept, IsOpened, IsActive
    <3>2. Scanned(names, size, c)
      BY <1>1, <1>2, CallFacts DEF ThreadOK, Scanned, IsActive
    <3>3. Scanned(names', size, c)
      BY <1>2, <2>7, <3>2
    <3>4. Fresh(names', array, size, opened, c)
      BY <1>2, <1>5, <2>1, <2>2, <2>3 DEF Fresh
    <3>5. Behind(names', size, c)
      BY <1>2, <2>1, <2>2, <2>6 DEF Behind
    <3> QED
      BY <3>1, <3>3, <3>4, <3>5 DEF ThreadOK
  <2>10. call'[t] = c /\ \A u \in Threads : u # t => call'[u] = call[u]
    BY <1>1, CallFacts
  <2>11. \A u \in Threads : ThreadOK(names', array', size', opened', call'[u])
    <3> SUFFICES ASSUME NEW u \in Threads, u # t
                 PROVE  ThreadOK(names', array, size, opened, call[u])
      BY <1>1, <2>9, <2>10
    <3>1. /\ call[u] \in CallRecord(opened) /\ ThreadOK(names, array, size, opened, call[u])
          /\ IsActive(call[u]) => call[u].file = f
      BY <1>1, CallFacts DEF IsActive
    <3> QED
      BY <2>8, <3>1
  <2>12. OneFile(call')
    BY <1>1, <1>2, <2>10, CallFacts DEF TableInv, OneFile, IsActive
  <2>13. FirstHolds(names', array', size', opened')
    BY <1>1, <2>2, CallFacts DEF TableInv, FirstHolds
  <2>14. NamedIsCounted(names', size', call')
    <3>1. \A u \in Threads : IsOpened(call[u]) => IsOpened(call'[u]) /\ call'[u].file = call[u].file
      BY <1>1, <1>2, <2>10 DEF IsOpened
    <3>2. IsOpened(call'[t]) /\ call'[t].file = f
      BY <1>2, <2>10 DEF IsOpened
    <3> QED
      BY <1>1, <2>2, <2>4, <3>1, <3>2, CallFacts DEF TableInv, NamedIsCounted
  <2> QED
    BY <1>3, <2>11, <2>12, <2>13, <2>14 DEF IInv, TableInv
<1> QED
  BY <1>1, <1>4, <1>5

-----------------------------------------------------------------------------
LEMMA RecordDescriptorKeeps ==
  ASSUME IInv, NEW t \in Threads, RecordDescriptor(t)
  PROVE  IInv'
<1> DEFINE f == call[t].file
           p == call[t].next
           d == call[t].fd
           c == [call[t] EXCEPT !.at = "load"]
<1>1. /\ status = "ok" /\ status' = "ok" /\ told' = told /\ call[t].at = "descriptor"
      /\ UNCHANGED <<names, size, opened>>
      /\ array' = [array EXCEPT ![p] = d]
      /\ call' = [call EXCEPT ![t] = c]
  BY DEF RecordDescriptor, At
<1>2. /\ c.at = "load" /\ c.file = f /\ c.i = call[t].i /\ c.fd = d
      /\ c.next = p /\ c \in CallRecord(opened) /\ size \in Nat /\ f \in Files
  BY <1>1, CallFacts DEF CallRecord, Places, IInv, Type, IsActive
<1>3. /\ p \in Slots /\ d \in Int /\ Valid(opened, d) /\ FileIn(opened, d) = f
      /\ Fresh(names, array, size, opened, call[t]) /\ Behind(names, size, call[t])
      /\ Scanned(names, size, call[t])
  BY <1>1, CallFacts DEF ThreadOK, Kept, IsOpened, CallRecord
<1> HIDE DEF c
<1>4. \A s \in Slots : array'[s] = IF s = p THEN d ELSE array[s]
  BY <1>1 DEF IInv, Type
<1>5. Type' /\ ToldInv'
  BY <1>1, <1>2, <1>3 DEF IInv, Type, ToldInv
<1>6. \A s \in Slots : Holds(array, opened, s, f) => Holds(array', opened, s, f)
  BY <1>3, <1>4 DEF Holds
<1>7. ASSUME NEW e \in CallRecord(opened), IsActive(e) => e.file = f,
             ThreadOK(names, array, size, opened, e)
      PROVE  ThreadOK(names, array', size, opened, e)
  BY <1>6, <1>7 DEF ThreadOK, Fresh, IsOpened, IsActive
<1>8. ThreadOK(names, array', size, opened, c)
  <2>1. Kept(opened, c) /\ Scanned(names, size, c)
    BY <1>1, <1>2, <1>3 DEF Kept, Scanned, IsOpened, IsActive
  <2>2. Fresh(names, array', size, opened, c)
    <3>1. Counted(names, size, f) = {} => p = size /\ size \in Slots /\ names[size] = f
      BY <1>1, <1>3 DEF Fresh, IsOpened
    <3>2. Holds(array', opened, p, f)
      BY <1>3, <1>4 DEF Holds
    <3> QED
      BY <1>2, <3>1, <3>2 DEF Fresh
  <2>3. Behind(names, size, c)
    BY <1>1, <1>2, <1>3 DEF Behind, IsOpened
  <2> QED
    BY <2>1, <2>2, <2>3 DEF ThreadOK
<1>9. call'[t] = c /\ \A u \in Threads : u # t => call'[u] = call[u]
  BY <1>1, CallFacts
<1>10. \A u \in Threads : ThreadOK(names', array', size', opened', call'[u])
  <2> SUFFICES ASSUME NEW u \in Threads, u # t
               PROVE  ThreadOK(names, array', size, opened, call[u])
    BY <1>1, <1>8, <1>9
  <2>1. /\ call[u] \in CallRecord(opened) /\ ThreadOK(names, array, size, opened, call[u])
        /\ IsActive(call[u]) => call[u].file = f
    BY <1>1, CallFacts DEF IsActive
  <2> QED
    BY <1>7, <2>1
<1>11. OneFile(call')
  BY <1>1, <1>2, <1>9, CallFacts DEF TableInv, OneFile, IsActive
<1>12. FirstHolds(names', array', size', opened')
  <2> SUFFICES ASSUME NEW g \in Files, Counted(names, size, g) # {}
               PROVE  \E k \in Slots : First(names, size, g, k) /\ Holds(array', opened, k, g)
    BY <1>1 DEF FirstHolds
  <2>1. PICK k \in Slots : First(names, size, g, k) /\ Holds(array, opened, k, g)
    BY <1>1, CallFacts DEF TableInv, FirstHolds
  <2>2. CASE g = f
    BY <1>6, <2>1, <2>2
  <2>3. CASE g # f
    <3>1. k # p
      <4>1. CASE Counted(names, size, f) = {}
        <5>1. p = size
          BY <1>1, <1>3, <4>1 DEF Fresh, IsOpened
        <5> QED
          BY <1>2, <2>1, <5>1 DEF First, Counted, Slots
      <4>2. CASE Counted(names, size, f) # {}
        <5>1. PICK j \in Slots : First(names, size, f, j)
          BY <1>1, <1>2, <4>2, CallFacts DEF TableInv, FirstHolds
        <5>2. Named(names, g)
          BY <2>1 DEF First, Counted, Named
        <5>3. p >= j /\ \E r \in Counted(names, size, g) : r < j
          BY <1>1, <1>3, <2>3, <5>1, <5>2 DEF Behind, IsOpened
        <5> QED
          BY <1>3, <2>1, <5>1, <5>3 DEF First, Counted, Slots
      <4> QED
        BY <4>1, <4>2
    <3> QED
      BY <1>4, <2>1, <3>1 DEF Holds
  <2> QED
    BY <2>2, <2>3
<1>13. NamedIsCounted(names', size', call')
  <2>1. \A u \in Threads : IsOpened(call[u]) => IsOpened(call'[u]) /\ call'[u].file = call[u].file
    BY <1>1, <1>2, <1>9 DEF IsOpened
  <2> QED
    BY <1>1, <2>1, CallFacts DEF TableInv, NamedIsCounted
<1> QED
  BY <1>1, <1>5, <1>10, <1>11, <1>12, <1>13 DEF IInv, TableInv

-----------------------------------------------------------------------------
LEMMA StoreKeeps ==
  ASSUME IInv, NEW t \in Threads, Store(t)
  PROVE  IInv'
<1> DEFINE f == call[t].file
           p == call[t].next
<1>1. /\ status = "ok" /\ status' = "ok" /\ call[t].at = "store"
      /\ UNCHANGED <<names, array, opened>> /\ size' = p + 1
      /\ call' = [call EXCEPT ![t] = NoCall]
  BY DEF Store, At, Return
<1>2. /\ size \in Nat /\ p \in Nat /\ f \in Files
      /\ Fresh(names, array, size, opened, call[t]) /\ Behind(names, size, call[t])
      /\ IsOpened(call[t]) /\ FirstHolds(names, array, size, opened)
  BY <1>1, CallFacts
  DEF CallRecord, IInv, Type, TableInv, ThreadOK, IsActive, IsOpened
<1>3. Type' /\ ToldInv'
  <2>1. PICK answer \in NoReturn : told' = [told EXCEPT ![f] = @ \cup {answer}]
    BY DEF Store, Return
  <2>2. told' \in [Files -> SUBSET Int] /\ answer \in Int
    BY <1>2, <2>1, FileAssumption DEF IInv, Type
  <2>3. \A g \in Files : told'[g] \subseteq told[g] \cup NoReturn
    BY <1>2, <2>1 DEF IInv, Type
  <2>4. ToldInv'
    BY <1>1, <2>3 DEF IInv, ToldInv
  <2> QED
    BY <1>1, <1>2, <2>2, <2>4, NoCallIsOK DEF IInv, Type
<1>4. call'[t] = NoCall /\ \A u \in Threads : u # t => call'[u] = call[u]
  BY <1>1, CallFacts
<1>5. OneFile(call')
  <2>1. Type /\ OneFile(call)
    BY <1>1, CallFacts DEF IInv, TableInv
  <2> QED
    BY <1>4, <2>1, NoCallIsOK DEF OneFile
(* Wherever the size was, the file has a first slot now, ...               *)
<1>6. PICK k \in Slots :
        /\ First(names, size', f, k) /\ Holds(array, opened, k, f) /\ k <= size
        /\ \A s \in Slots : s < k => names[s] # f
        /\ \A u \in Threads : IsOpened(call[u]) /\ call[u].at # "next" => call[u].next >= k
        /\ \A g \in Files : g # f /\ Named(names, g) => \E r \in Counted(names, size, g) : r < k
  <2>1. \A u \in Threads : IsOpened(call[u]) =>
          /\ call[u].file = f /\ Behind(names, size, call[u])
          /\ Fresh(names, array, size, opened, call[u])
    BY <1>1, CallFacts DEF ThreadOK, IsOpened, IsActive
  <2>2. CASE Counted(names, size, f) = {}
    <3>1. p = size /\ size \in Slots /\ names[size] = f /\ Holds(array, opened, size, f)
      BY <1>1, <1>2, <2>2 DEF Fresh
    <3>2. \A s \in Slots : s < size => names[s] # f
      BY <2>2 DEF Counted
    <3>3. First(names, size', f, size)
      BY <1>1, <3>1, <3>2 DEF First, Counted, Slots
    <3>4. \A u \in Threads : IsOpened(call[u]) /\ call[u].at # "next" => call[u].next >= size
      BY <1>2, <2>1, <2>2 DEF Fresh
    <3>5. ASSUME NEW g \in Files, g # f, Named(names, g)
          PROVE  \E r \in Counted(names, size, g) : r < size
      <4>1. Counted(names, size, g) # {}
        BY <1>1, <2>1, <3>5, CallFacts DEF TableInv, NamedIsCounted
      <4> QED
        BY <4>1 DEF Counted
    <3> QED
      BY <1>2, <2>2, <3>1, <3>2, <3>3, <3>4, <3>5
  <2>3. CASE Counted(names, size, f) # {}
    <3>1. PICK k \in Slots : First(names, size, f, k) /\ Holds(array, opened, k, f)
      BY <1>2, <2>3 DEF FirstHolds
    <3>2. k \in Nat /\ k < size /\ names[k] = f
      BY <3>1 DEF First, Counted, Slots
    <3>3. p >= k
      BY <1>1, <1>2, <3>1 DEF Behind
    <3>4. \A s \in Slots : s < k => names[s] # f
      BY <1>2, <3>1, <3>2 DEF First, Counted, Slots
    <3>5. First(names, size', f, k)
      BY <1>1, <1>2, <3>2, <3>3, <3>4 DEF First, Counted, Slots
    <3>6. \A u \in Threads : IsOpened(call[u]) /\ call[u].at # "next" => call[u].next >= k
      BY <2>1, <3>1 DEF Behind
    <3>7. \A g \in Files : g # f /\ Named(names, g) => \E r \in Counted(names, size, g) : r < k
      BY <1>2, <3>1 DEF Behind
    <3> QED
      BY <1>2, <3>1, <3>2, <3>4, <3>5, <3>6, <3>7
  <2> QED
    BY <2>2, <2>3
(* ... and it is behind the first slots of all others.                     *)
<1>7. \A g \in Files : g # f /\ Named(names, g) =>
        \E m \in Slots : /\ First(names, size', g, m) /\ Holds(array, opened, m, g)
                        /\ m < k
  <2> SUFFICES ASSUME NEW g \in Files, g # f, Named(names, g)
               PROVE  \E m \in Slots : /\ First(names, size', g, m)
                                      /\ Holds(array, opened, m, g) /\ m < k
    OBVIOUS
  <2>1. PICK r \in Counted(names, size, g) : r < k
    BY <1>6
  <2>2. PICK m \in Slots : First(names, size, g, m) /\ Holds(array, opened, m, g)
    BY <1>2, <2>1 DEF FirstHolds
  <2>3. m \in Nat /\ r \in Nat /\ k \in Nat /\ m < k /\ k < size' /\ m < size /\ names[m] = g
    BY <1>6, <2>1, <2>2 DEF First, Counted, Slots
  <2>4. \A s \in Slots : s < size' /\ names[s] = g => m <= s
    <3> SUFFICES ASSUME NEW s \in Slots, names[s] = g, ~(m <= s) PROVE FALSE
      OBVIOUS
    <3>1. s < size
      BY <1>2, <2>3 DEF Slots
    <3> QED
      BY <2>2, <3>1 DEF First, Counted
  <2>5. m < size'
    BY <1>1, <1>2, <2>3
  <2> QED
    BY <2>2, <2>3, <2>4, <2>5 DEF First, Counted
<1>8. FirstHolds(names, array, size', opened)
  BY <1>6, <1>7 DEF FirstHolds, Counted, Named
<1>9. NamedIsCounted(names, size', call')
  BY <1>6, <1>7 DEF NamedIsCounted, First
<1>10. ASSUME NEW e \in CallRecord(opened), IsActive(e) => e.file = f,
              ThreadOK(names, array, size, opened, e),
              IsOpened(e) /\ e.at # "next" => e.next >= k
       PROVE  ThreadOK(names, array, size', opened, e)
  <2>1. Kept(opened, e)
    BY <1>10 DEF ThreadOK
  <2>2. Scanned(names, size', e)
    <3> SUFFICES ASSUME IsActive(e)
                 PROVE  /\ e.i <= size' /\ \A s \in Slots : s < e.i => names[s] # e.file
                        /\ e.at = "found" => e.i \in Counted(names, size', f)
      BY <1>10 DEF Scanned
    <3>1. /\ e.i \in Nat /\ \A s \in Slots : s < e.i => names[s] # f
          /\ e.at = "found" => e.i \in Counted(names, size, f)
      BY <1>10 DEF ThreadOK, Scanned, CallRecord
    <3>2. e.i <= k /\ k \in Nat /\ k < size'
      BY <1>6, <3>1 DEF First, Counted, Slots
    <3>3. e.at = "found" => e.i = k
      BY <1>6, <3>1, <3>2 DEF Counted, Slots
    <3> QED
      BY <1>1, <1>2, <1>6, <1>10, <3>1, <3>2, <3>3 DEF First
  <2>3. Fresh(names, array, size', opened, e)
    BY <1>6, <1>10 DEF Fresh, First, IsOpened, IsActive
  <2>4. Behind(names, size', e)
    <3> SUFFICES ASSUME IsOpened(e), NEW j, First(names, size', f, j)
                 PROVE  /\ e.at # "next" => e.next >= j
                        /\ \A g \in Files : g # f /\ Named(names, g) =>
                             \E r \in Counted(names, size', g) : r < j
      BY <1>10 DEF Behind, IsOpened, IsActive
    <3>1. j = k
      BY <1>6 DEF First, Counted, Slots
    <3> QED
      BY <1>7, <1>10, <3>1 DEF First
  <2> QED
    BY <2>1, <2>2, <2>3, <2>4 DEF ThreadOK
<1>11. \A u \in Threads : ThreadOK(names, array, size', opened, call'[u])
  <2> SUFFICES ASSUME NEW u \in Threads, u # t
               PROVE  ThreadOK(names, array, size', opened, call[u])
    BY <1>4, NoCallIsOK DEF IInv, ThreadOK, Kept, Scanned, Fresh, Behind, IsOpened
  <2>1. /\ call[u] \in CallRecord(opened) /\ ThreadOK(names, array, size, opened, call[u])
        /\ IsActive(call[u]) => call[u].file = f
    BY <1>1, CallFacts DEF IsActive
  <2> QED
    BY <1>6, <1>10, <2>1
<1> QED
  BY <1>1, <1>3, <1>5, <1>8, <1>9, <1>11 DEF IInv, TableInv

-----------------------------------------------------------------------------
(* Nothing has looked further than the table was counted.                  *)
Reach == \A t \in Threads : call[t].i <= size

LEMMA NextKeeps ==
  ASSUME ForkJoin, IInv, Reach, [Next]_vars
  PROVE  IInv' /\ Reach'
<1>1. CASE UNCHANGED vars
  <2> USE <1>1 DEF vars, gr_files
  <2>1. Type' /\ ToldInv' /\ Reach'
    BY DEF IInv, Type, ToldInv, Reach
  <2>2. TableInv => TableInv'
    BY DEF TableInv
  <2> QED
    BY <2>1, <2>2 DEF IInv
<1>2. CASE Destroy
  <2> USE <1>2 DEF Destroy, gr_files
  <2>1. Type' /\ ToldInv' /\ Reach'
    BY DEF IInv, Type, ToldInv, Reach
  <2> QED
    BY <2>1 DEF IInv
<1>3. ASSUME NEW t \in Threads, Step(t) \/ \E f \in Files : Call(t, f)
      PROVE  IInv' /\ Reach'
  <2>1. IInv'
    BY <1>3, CallKeeps, ScanKeeps, FoundKeeps, OpenFailsKeeps, OpenKeeps, ReadNextKeeps,
       RecordNameKeeps, RecordDescriptorKeeps, LoadKeeps, StoreKeeps DEF Step
  <2>2. CASE status' = "ok"
    BY <2>1, <2>2 DEF IInv, Type, TableInv, ThreadOK, Kept, Scanned, Reach
  <2>3. CASE status' # "ok"
    <3>1. status = "ok" /\ (Scan(t) \/ RecordName(t))
      BY <1>3, <2>3 DEF Step, Scan, Found, OpenFails, Open, ReadNext, RecordName,
                        RecordDescriptor, Load, Store, Call, At
    <3>2. CASE Scan(t)
      <4>1. UNCHANGED <<size, call>>
        BY <2>3, <3>1, <3>2 DEF Scan, gr_files
      <4> QED
        BY <2>1, <4>1 DEF Reach
    <3>3. CASE RecordName(t)
      <4>1. size' = size /\ call' = [call EXCEPT ![t].at = "descriptor"]
        BY <3>3 DEF RecordName
      <4>2. \A u \in Threads : call'[u].i = call[u].i
        BY <3>1, <4>1, CallFacts DEF CallRecord
      <4> QED
        BY <2>1, <4>1, <4>2 DEF Reach
    <3> QED
      BY <3>1, <3>2, <3>3
  <2> QED
    BY <2>1, <2>2, <2>3 DEF IInv, Type
<1> QED
  BY <1>1, <1>2, <1>3 DEF Next

(***************************************************************************)
(* The table is in order: every thread of a team that writes over the      *)
(* slots of the others leaves the first slot of every file as it was.      *)
(***************************************************************************)
THEOREM IInvHolds ==
  ASSUME ForkJoin
  PROVE  Spec => [](IInv /\ Reach)
<1>1. Init => IInv /\ Reach
  BY InitIInv DEF Init, Reach, NoCall
<1>2. IInv /\ Reach /\ [Next]_vars => IInv' /\ Reach'
  BY NextKeeps
<1> QED
  BY <1>1, <1>2, PTL DEF Spec

(***************************************************************************)
(* The variables keep their types, and no thread has looked further than   *)
(* the table is counted.                                                   *)
(***************************************************************************)
THEOREM TypeCorrect ==
  ASSUME ForkJoin
  PROVE  Spec => []TypeOK
<1>1. IInv /\ Reach => TypeOK
  <2> SUFFICES ASSUME IInv, Reach PROVE TypeOK
    OBVIOUS
  <2>1. \A d \in Int : Valid(opened, d) <=> d \in Descriptors
    BY DEF Valid, Descriptors
  <2>2. call \in [Threads -> [at : Places, file : Files \cup {NoFile}, i : 0 .. size,
                             fd : {-1} \cup Descriptors, next : Nat]]
    <3> SUFFICES ASSUME NEW t \in Threads
                 PROVE  call[t] \in [at : Places, file : Files \cup {NoFile}, i : 0 .. size,
                                    fd : {-1} \cup Descriptors, next : Nat]
      BY DEF IInv, Type
    <3>1. call[t] \in CallRecord(opened) /\ call[t].i <= size /\ size \in Nat
      BY DEF IInv, Type, Reach
    <3> QED
      BY <2>1, <3>1 DEF CallRecord
  <2>3. array \in [Slots -> {-1, 0} \cup Descriptors]
    BY <2>1 DEF IInv, Type
  <2>4. told \in [Files -> SUBSET ({-1} \cup NoReturn \cup Descriptors)]
    BY <2>1 DEF IInv, Type, ToldInv
  <2> QED
    BY <2>2, <2>3, <2>4 DEF IInv, Type, TypeOK
<1> QED
  BY <1>1, IInvHolds, PTL

(***************************************************************************)
(* Two files are never taken for one: the integer told for a file was      *)
(* opened for it.                                                          *)
(***************************************************************************)
THEOREM ToldIsRight ==
  ASSUME ForkJoin
  PROVE  Spec => []ToldIsDescriptorOfFile
<1>1. IInv => ToldIsDescriptorOfFile
  BY DEF IInv, ToldInv, ToldIsDescriptorOfFile, Valid, FileIn, Descriptors, FileOf
<1> QED
  BY <1>1, IInvHolds, PTL

-----------------------------------------------------------------------------
(* The first slots of the other files are before the slot of a thread.     *)
LEMMA FirstOfOthers ==
  ASSUME IInv, status = "ok", NEW t \in Threads, IsOpened(call[t]), call[t].at # "next",
         NEW g \in Files, g # call[t].file, Counted(names, size, g) # {}
  PROVE  \E m \in Slots : First(names, size, g, m) /\ m < call[t].next /\ m < size
<1> DEFINE f == call[t].file
<1>1. PICK m \in Slots : First(names, size, g, m)
  BY CallFacts DEF TableInv, FirstHolds
<1>2. m < size /\ size \in Nat /\ f \in Files /\ call[t].next \in Nat /\ Named(names, g)
  BY <1>1, CallFacts DEF First, Counted, Named, IInv, Type, IsOpened, IsActive, CallRecord
<1>3. CASE Counted(names, size, f) = {}
  BY <1>1, <1>2, <1>3, CallFacts DEF ThreadOK, Fresh
<1>4. CASE Counted(names, size, f) # {}
  <2>1. PICK k \in Slots : First(names, size, f, k)
    BY <1>2, <1>4, CallFacts DEF TableInv, FirstHolds
  <2>2. call[t].next >= k /\ \E r \in Counted(names, size, g) : r < k
    BY <1>2, <2>1, CallFacts DEF ThreadOK, Behind
  <2> QED
    BY <1>1, <1>2, <2>1, <2>2 DEF First, Counted, Slots
<1> QED
  BY <1>3, <1>4

(* What the table tells for a file is what its first slot holds.           *)
LEMMA TellsFirst ==
  ASSUME NEW f, NEW m \in Slots
  PROVE  /\ First(names, size, f, m) => Tells(f) = {array[m]}
         /\ First(names', size', f, m) => Tells(f)' = {array'[m]}
<1>1. \A i, j \in Slots : i <= j /\ j <= i => i = j
  BY DEF Slots
<1> QED
  BY <1>1 DEF Tells, SlotsOf, First, Counted

(***************************************************************************)
(* The integer that the table tells for a file is settled once the threads *)
(* that asked for it are done.                                             *)
(***************************************************************************)
THEOREM SettledStays ==
  ASSUME ForkJoin
  PROVE  Spec => SettledFilesAreStable
<1>1. IInv /\ [Next]_vars => [\A f \in Files : Settled(f) => Tells(f)' = Tells(f)]_vars
  <2> SUFFICES ASSUME IInv, [Next]_vars, ~(UNCHANGED vars),
                      NEW f \in Files, Settled(f), ~(UNCHANGED gr_files)
               PROVE  Tells(f)' = Tells(f)
    BY DEF gr_files, Tells, SlotsOf
  <2>1. PICK t \in Threads : RecordName(t) \/ RecordDescriptor(t) \/ Store(t)
    BY DEF Next, Step, Call, Scan, Found, OpenFails, Open, ReadNext, Load, Destroy
  <2>2. /\ status = "ok" /\ call[t].at \in {"name", "descriptor", "store"}
        /\ call[t].file # f /\ Counted(names, size, f) # {}
    BY <2>1 DEF RecordName, RecordDescriptor, Store, At, Settled, SlotsOf, Counted
  <2>3. PICK m \in Slots : First(names, size, f, m) /\ m < call[t].next /\ m < size
    BY <2>2, FirstOfOthers DEF IsOpened
  <2>4. /\ names \in [Slots -> Files \cup {NoFile}] /\ size \in Nat
        /\ call[t].next \in Nat /\ m \in Nat
    BY <2>2, CallFacts DEF IInv, Type, CallRecord, Slots
  <2>5. names[m] = f /\ \A s \in Slots : s < m => names[s] # f
    BY <2>3, <2>4 DEF First, Counted, Slots
  <2>6. /\ array'[m] = array[m] /\ names'[m] = f /\ m < size'
        /\ \A s \in Slots : s < m => names'[s] # f
    <3>1. CASE RecordName(t)
      BY <2>2, <2>3, <2>4, <2>5, <3>1 DEF RecordName
    <3>2. CASE RecordDescriptor(t)
      BY <2>3, <2>4, <2>5, <3>2 DEF RecordDescriptor, IInv, Type
    <3>3. CASE Store(t)
      BY <2>3, <2>4, <2>5, <3>3 DEF Store
    <3> QED
      BY <2>1, <3>1, <3>2, <3>3
  <2>7. First(names', size', f, m)
    BY <2>4, <2>6 DEF First, Counted, Slots
  <2> QED
    BY <2>3, <2>6, <2>7, TellsFirst
<1> QED
  BY <1>1, IInvHolds, PTL DEF Spec, SettledFilesAreStable
=============================================================================
