------------------------------ MODULE FileTable ------------------------------
(***************************************************************************)
(* The table of opened source files of gr_phase.c. gr_phase_start_s and    *)
(* gr_phase_end_s, the variants that are given a file name, ask it for the *)
(* integer that identifies the file. Every thread of the team does, at the *)
(* same time and without a lock, so that each access to the table is a     *)
(* step of its own.                                                        *)
(*                                                                         *)
(* With ForkJoin the calls that overlap name the same file, as those of    *)
(* the threads of one parallel region do; without it they may differ.      *)
(***************************************************************************)
EXTENDS Integers, FiniteSets, Sequences

CONSTANTS
  Threads,
  Files,            \* the names the threads ask for
  Unreadable,       \* those that open refuses
  NoFile,           \* an empty name, as calloc leaves it
  GR_MAX_OPEN_FILE, \* 256 in the code
  NoReturn,         \* what a function without a return may be found to return
  ForkJoin

ASSUME FileAssumption ==
  /\ Unreadable \subseteq Files
  /\ NoFile \notin Files
  /\ GR_MAX_OPEN_FILE \in Nat
  /\ NoReturn \subseteq Int
  /\ ForkJoin \in BOOLEAN

ASSUME FinitenessAssumption ==  \* of a team, and of the sources of a program
  IsFiniteSet(Threads) /\ IsFiniteSet(Files)

VARIABLES
  names, array, size,  \* the fields of gr_files
  opened,              \* what each descriptor was opened for: 3 is the first
  call,                \* the call each thread is in
  told,                \* auxiliary: the integers told so far for each file
  status               \* "ok", "freed", or "fault" (an access behind the table)

gr_files == <<names, array, size>>
vars == <<gr_files, opened, call, told, status>>

Slots == 0 .. GR_MAX_OPEN_FILE - 1

FirstDescriptor == 3
Descriptors     == FirstDescriptor .. FirstDescriptor + Len(opened) - 1
FileOf(fd)      == opened[fd - FirstDescriptor + 1]

(* i, fd and next are the local variables of gr_open_file, gr_record_fd.   *)
NoCall == [at |-> "idle", file |-> NoFile, i |-> 0, fd |-> -1, next |-> 0]

(* memset is given the size of a size in bytes: two elements become -1.    *)
Init ==
  /\ names = [s \in Slots |-> NoFile]
  /\ array = [s \in Slots |-> IF s < 2 THEN -1 ELSE 0]
  /\ size = 0
  /\ opened = <<>>
  /\ call = [t \in Threads |-> NoCall]
  /\ told = [f \in Files |-> {}]
  /\ status = "ok"

-----------------------------------------------------------------------------
At(t, place) == status = "ok" /\ call[t].at = place

Return(t, answer) ==
  /\ call' = [call EXCEPT ![t] = NoCall]
  /\ told' = [told EXCEPT ![call[t].file] = @ \cup {answer}]

Call(t, f) ==
  /\ At(t, "idle")
  /\ ForkJoin => \A u \in Threads : call[u].file \in {NoFile, f}
  /\ call' = [call EXCEPT ![t] = [NoCall EXCEPT !.at = "scan", !.file = f]]
  /\ UNCHANGED <<gr_files, opened, told, status>>

(* "check whether the file has been opened": one turn of the loop, which   *)
(* goes to size, even if size has counted more slots than there are.       *)
Looked(c, name) ==
  IF name = c.file THEN [c EXCEPT !.at = "found"] ELSE [c EXCEPT !.i = @ + 1]

(* Mutation: the loop goes one too far.                                    *)
ScanBeyond(t) ==
  /\ At(t, "scan")
  /\ call[t].i <= size
  /\ call' = [call EXCEPT ![t] = Looked(@, names[call[t].i])]
  /\ UNCHANGED <<gr_files, opened, told, status>>

Scan(t) ==
  /\ At(t, "scan")
  /\ call[t].i < size
  /\ IF call[t].i \in Slots
     THEN call' = [call EXCEPT ![t] = Looked(@, names[call[t].i])] /\ UNCHANGED status
     ELSE status' = "fault" /\ UNCHANGED call
  /\ UNCHANGED <<gr_files, opened, told>>

Found(t) ==
  /\ At(t, "found")
  /\ Return(t, array[call[t].i])
  /\ UNCHANGED <<gr_files, opened, status>>

OpenFails(t) ==
  /\ At(t, "scan")
  /\ call[t].i >= size
  /\ call[t].file \in Unreadable
  /\ Return(t, -1)
  /\ UNCHANGED <<gr_files, opened, status>>

(* Mutation: the last name is not looked at.                               *)
OpenEarly(t) ==
  /\ At(t, "scan")
  /\ call[t].i >= size - 1
  /\ call[t].file \notin Unreadable
  /\ opened' = Append(opened, call[t].file)
  /\ call' = [call EXCEPT ![t].at = "next",
                          ![t].fd = FirstDescriptor + Len(opened)]
  /\ UNCHANGED <<gr_files, told, status>>

Open(t) ==
  /\ At(t, "scan")
  /\ call[t].i >= size
  /\ call[t].file \notin Unreadable
  /\ opened' = Append(opened, call[t].file)
  /\ call' = [call EXCEPT ![t].at = "next",
                          ![t].fd = FirstDescriptor + Len(opened)]
  /\ UNCHANGED <<gr_files, told, status>>

(* gr_record_fd: the next free slot, the name, the descriptor, the size.   *)
(* Mutation: the last used slot for the next free one.                     *)
ReadLast(t) ==
  /\ At(t, "next")
  /\ call' = [call EXCEPT ![t].at = "name",
                          ![t].next = IF size > 0 THEN size - 1 ELSE 0]
  /\ UNCHANGED <<gr_files, opened, told, status>>

ReadNext(t) ==
  /\ At(t, "next")
  /\ call' = [call EXCEPT ![t].at = "name", ![t].next = size]
  /\ UNCHANGED <<gr_files, opened, told, status>>

RecordName(t) ==
  /\ At(t, "name")
  /\ call' = [call EXCEPT ![t].at = "descriptor"]
  /\ IF call[t].next \in Slots
     THEN names' = [names EXCEPT ![call[t].next] = call[t].file] /\ UNCHANGED status
     ELSE status' = "fault" /\ UNCHANGED names
  /\ UNCHANGED <<array, size, opened, told>>

RecordDescriptor(t) ==
  /\ At(t, "descriptor")
  /\ array' = [array EXCEPT ![call[t].next] = call[t].fd]
  /\ call' = [call EXCEPT ![t].at = "load"]
  /\ UNCHANGED <<names, size, opened, told, status>>

(* size++ loads size, or uses the value already loaded, and stores it. The *)
(* call then returns from a function that has no return statement here.    *)
Load(t) ==
  /\ At(t, "load")
  /\ \E n \in {size, call[t].next} :
       call' = [call EXCEPT ![t].at = "store", ![t].next = n]
  /\ UNCHANGED <<gr_files, opened, told, status>>

(* Mutation: the size is counted up in the caller as well.                 *)
StoreTwice(t) ==
  /\ At(t, "store")
  /\ size' = call[t].next + 2
  /\ \E answer \in NoReturn : Return(t, answer)
  /\ UNCHANGED <<names, array, opened, status>>

Store(t) ==
  /\ At(t, "store")
  /\ size' = call[t].next + 1
  /\ \E answer \in NoReturn : Return(t, answer)
  /\ UNCHANGED <<names, array, opened, status>>

(* gr_destroy_opened_files, when the team is gone.                         *)
Destroy ==
  /\ \A t \in Threads : At(t, "idle")
  /\ status = "ok"
  /\ status' = "freed"
  /\ UNCHANGED <<gr_files, opened, call, told>>

Step(t) ==
  \/ Scan(t) \/ Found(t) \/ OpenFails(t) \/ Open(t)
  \/ ReadNext(t) \/ RecordName(t) \/ RecordDescriptor(t) \/ Load(t) \/ Store(t)

Next ==
  \/ \E t \in Threads : Step(t) \/ \E f \in Files : Call(t, f)
  \/ Destroy

Spec == Init /\ [][Next]_vars
-----------------------------------------------------------------------------
(* Types.                                                                  *)
Places == {"idle", "scan", "found", "next", "name", "descriptor", "load", "store"}

TypeOK ==
  /\ names \in [Slots -> Files \cup {NoFile}]
  /\ array \in [Slots -> {-1, 0} \cup Descriptors]
  /\ size \in Nat
  /\ opened \in Seq(Files \ Unreadable)
  /\ call \in [Threads -> [at : Places, file : Files \cup {NoFile}, i : 0 .. size,
                           fd : {-1} \cup Descriptors, next : Nat]]
  /\ told \in [Files -> SUBSET ({-1} \cup NoReturn \cup Descriptors)]
  /\ status \in {"ok", "freed", "fault"}

(***************************************************************************)
(* An integer that the table tells for a file was opened for that file,    *)
(* however the threads overwrite each other's slots: two files are never   *)
(* taken for one.                                                          *)
(***************************************************************************)
ToldIsDescriptorOfFile ==
  \A f \in Files : \A id \in told[f] \ (NoReturn \cup {-1}) :
    id \in Descriptors /\ FileOf(id) = f

(***************************************************************************)
(* A file is opened again only by threads that missed it together: never   *)
(* more often than there are threads. Without this every phase would use   *)
(* up a descriptor.                                                        *)
(***************************************************************************)
OpenedOncePerThread ==
  \A f \in Files :
    Cardinality({k \in 1 .. Len(opened) : opened[k] = f}) <= Cardinality(Threads)

(***************************************************************************)
(* A race wastes at most one slot for each thread in it: as long as every  *)
(* file can have a slot for every thread, nothing is written or read       *)
(* behind the end of the table, which the code does not check.             *)
(***************************************************************************)
TableHasRoom ==
  Cardinality(Threads) * Cardinality(Files) <= GR_MAX_OPEN_FILE => status # "fault"

(***************************************************************************)
(* Once the threads that asked for a file are done, the integer that the   *)
(* table tells for it is settled: later calls for other files, with their  *)
(* lost updates of size, and later calls for this one leave it as it is.   *)
(***************************************************************************)
SlotsOf(f)  == {s \in Slots : s < size /\ names[s] = f}
Tells(f)    == {array[s] : s \in {r \in SlotsOf(f) : \A q \in SlotsOf(f) : r <= q}}
Settled(f) ==
  SlotsOf(f) # {} /\ \A t \in Threads : call[t].file = f => call[t].at = "found"

SettledFilesAreStable ==
  [][\A f \in Files : Settled(f) => Tells(f)' = Tells(f)]_vars

(***************************************************************************)
(* "file: an integer identifying a source file" (gr_phase_start): a file   *)
(* has one integer. The code does not keep this, even for one thread.      *)
(***************************************************************************)
FileHasOneIdentifier ==
  \A f \in Files : Cardinality(told[f] \ {-1}) <= 1
=============================================================================
