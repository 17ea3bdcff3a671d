----------------------------- MODULE FileReplace ----------------------------
(***************************************************************************)
(* Replacing files (utils/fs.ts): renameOverwrite, atomicWriteFile and     *)
(* withAtomicOutput.  Every one of them writes temporary files next to the *)
(* destination and then performs a list of renames; they differ in what    *)
(* they write, which renames they make and what they clean up.  A call is  *)
(* one synchronous piece of JavaScript, but a crash may fall between two   *)
(* system calls and another thread or process may run between them, so     *)
(* each system call is an action.                                          *)
(*                                                                         *)
(* A path is <<stem, kind, n>>: kind "file" is the plain name, "num" the   *)
(* volume name.00n, "part" the volume name.partn.rar.  The stem of the     *)
(* temporary files of a writer is the writer itself.                       *)
(***************************************************************************)
EXTENDS Naturals, Sequences, FiniteSets

CONSTANTS
  Writer,      \* the operations that write files
  Stem,        \* names of destinations without a volume suffix
  SetStem,     \* those under which volume sets are written
  MaxVolumes,  \* bound: volumes of one set
  MaxFaults,   \* bound: file operations that fail
  Fragile,     \* does an unlinked file keep its name while it is open (Windows)?
  Absent       \* the content of a path that does not exist

ASSUME FileAssumption ==
  /\ SetStem \subseteq Stem
  /\ MaxVolumes \in Nat
  /\ MaxFaults \in Nat
  /\ Fragile \in BOOLEAN
  /\ Writer \cap Stem = {}
  /\ Absent \notin Writer \cup Stem

VARIABLES
  disk,    \* content of every path
  call,    \* where a writer's call stands, and the renames it has left
  faults   \* file operations that have failed so far

fileVars == <<disk, call, faults>>

File(s) == <<s, "file", 0>>
Volume(s, k, n) == <<s, k, n>>
VolumesOf(s) == {Volume(s, k, n) : k \in {"num", "part"}, n \in 1 .. MaxVolumes}
TempFiles(w) == {File(w)} \cup VolumesOf(w)
Work(w) == <<w, "work", 0>>
Paths == {File(s) : s \in Stem} \cup (UNION {VolumesOf(s) : s \in SetStem})
           \cup (UNION {TempFiles(w) \cup {Work(w)} : w \in Writer})

Exists(p) == disk[p] # Absent
Renamed(d, src, dst) == [d EXCEPT ![dst] = d[src], ![src] = Absent]
Removed(d, ps) == [p \in DOMAIN d |-> IF p \in ps THEN Absent ELSE d[p]]

Idle == [at |-> "idle", todo |-> <<>>, all |-> FALSE]
CallStages == {"idle", "rename", "unlink", "retry", "cleanup", "done", "failed"}

\* One more file operation fails.
Fault == faults < MaxFaults /\ faults' = faults + 1

\* The numbered volumes that exist, counted from 1 to the first gap.
Numbered(w) ==
  LET run == {n \in 1 .. MaxVolumes : \A i \in 1 .. n : Exists(Volume(w, "num", i))}
  IN  [n \in 1 .. Cardinality(run) |-> <<"num", n>>]

\* The .partN.rar files that exist, in whatever order the directory is listed.
Listings(w) ==
  LET parts == {<<"part", n>> : n \in {m \in 1 .. MaxVolumes : Exists(Volume(w, "part", m))}}
  IN  {list \in [1 .. Cardinality(parts) -> parts] :
         \A p \in parts : \E i \in DOMAIN list : list[i] = p}

\* The renames withAtomicOutput makes of the volumes it has found.
MoveAll(w, dst, found) ==
  [i \in 1 .. Len(found) |-> [src |-> Volume(w, found[i][1], found[i][2]),
                              dst |-> Volume(dst, found[i][1], found[i][2])]]

\* Mutant: an engine that did not split is not provided for.
MovesVolumesOnly(w, dst, volumes, list) == MoveAll(w, dst, Numbered(w) \o list)

\* The renames withAtomicOutput makes once the engine has written its output.
Moves(w, dst, volumes, list) ==
  LET found == Numbered(w) \o list
  IN  IF ~volumes \/ found = <<>> THEN <<[src |-> File(w), dst |-> File(dst)]>>
                                 ELSE MoveAll(w, dst, found)

-----------------------------------------------------------------------------
\* atomicWriteFile: writeFileSync to the temporary file, then the rename.
WriteTemp(w, dst, data, partial) ==
  /\ call[w].at = "idle"
  /\ \/ /\ disk' = [disk EXCEPT ![File(w)] = data]
        /\ call' = [call EXCEPT ![w] =
             [at |-> "rename", todo |-> <<[src |-> File(w), dst |-> File(dst)]>>,
              all |-> FALSE]]
        /\ UNCHANGED faults
     \/ /\ Fault
        /\ disk' = [disk EXCEPT ![File(w)] = partial]
        /\ call' = [call EXCEPT ![w] = [at |-> "cleanup", todo |-> <<>>, all |-> FALSE]]

\* withAtomicOutput after write() resolved.
Publish(w, dst, volumes) ==
  /\ call[w].at = "idle"
  /\ \E list \in Listings(w) :
       call' = [call EXCEPT ![w] =
         [at |-> "rename", todo |-> Moves(w, dst, volumes, list), all |-> TRUE]]
  /\ UNCHANGED <<disk, faults>>

\* withAtomicOutput after write() rejected: cleanup() and rethrow.
Discard(w) ==
  /\ call[w].at = "idle"
  /\ call' = [call EXCEPT ![w] = [at |-> "cleanup", todo |-> <<>>, all |-> TRUE]]
  /\ UNCHANGED <<disk, faults>>

Next1(w) == Head(call[w].todo)

\* Mutant: the move ends with the first volume.
MoveFirst(w) ==
  /\ disk' = Renamed(disk, Next1(w).src, Next1(w).dst)
  /\ call' = [call EXCEPT ![w].at = "done"]

MoveDone(w) ==
  /\ disk' = Renamed(disk, Next1(w).src, Next1(w).dst)
  /\ call' = [call EXCEPT
       ![w].todo = Tail(@),
       ![w].at = IF Len(call[w].todo) = 1 THEN "done" ELSE "rename"]

\* renameOverwrite: the first renameSync.
RenameOk(w) ==
  /\ call[w].at = "rename"
  /\ MoveDone(w)
  /\ UNCHANGED faults

RenameFails(w) ==
  /\ call[w].at = "rename"
  /\ Fault
  /\ call' = [call EXCEPT ![w].at = "unlink"]
  /\ UNCHANGED disk

\* unlinkSync(dst); its error is swallowed.
UnlinkDestination(w) ==
  /\ call[w].at = "unlink"
  /\ \/ disk' = Removed(disk, {Next1(w).dst})
     \/ UNCHANGED disk
  /\ call' = [call EXCEPT ![w].at = "retry"]
  /\ UNCHANGED faults

\* The second renameSync; when it throws the caller's catch cleans up.
RetryOk(w) ==
  /\ call[w].at = "retry"
  /\ MoveDone(w)
  /\ UNCHANGED faults

\* What made the first rename and the unlink fail may still be there.  Where an
\* unlinked file that is open keeps its name until it is closed, nothing more has
\* to go wrong.
RetryFails(w) ==
  /\ call[w].at = "retry"
  /\ Fault \/ ((Fragile \/ Exists(Next1(w).dst)) /\ UNCHANGED faults)
  /\ call' = [call EXCEPT ![w].at = "cleanup"]
  /\ UNCHANGED disk

\* Mutant: only the file the caller named is removed.
CleanupOutput(w) ==
  /\ call[w].at = "cleanup"
  /\ \/ disk' = Removed(disk, {File(w)}) /\ UNCHANGED faults
     \/ Fault /\ UNCHANGED disk
  /\ call' = [call EXCEPT ![w].at = "failed"]

\* atomicWriteFile unlinks its temporary file, withAtomicOutput every file with
\* the temporary prefix.  Both are best effort.
CleanupCall(w) ==
  /\ call[w].at = "cleanup"
  /\ LET mine == IF call[w].all THEN TempFiles(w) ELSE {File(w)}
     IN  \/ disk' = Removed(disk, mine) /\ UNCHANGED faults
         \/ Fault /\ UNCHANGED disk
  /\ call' = [call EXCEPT ![w].at = "failed"]

CallStep(w) ==
  \/ RenameOk(w) \/ RenameFails(w) \/ UnlinkDestination(w)
  \/ RetryOk(w) \/ RetryFails(w) \/ CleanupCall(w)

Rename == [src : Paths, dst : Paths]

FileTypeOK(Content) ==
  /\ disk \in [Paths -> Content \cup {Absent}]
  /\ faults \in 0 .. MaxFaults
  /\ call \in [Writer -> [at : CallStages, todo : Seq(Rename), all : BOOLEAN]]
  /\ \A w \in Writer : call[w].at \in {"rename", "unlink", "retry"} => call[w].todo # <<>>
=============================================================================
