----------------------------- MODULE ArchiveEdit -----------------------------
(***************************************************************************)
(* The operations on one archive: the host dispatchers                     *)
(* (providers/archive/add.ts, delete.ts, modify.ts), the WASM pipelines of *)
(* the worker (engines/modify-core.ts), the rar5 binding                   *)
(* (engines/rar5-engine.ts), the rebuild of RAR archives                   *)
(* (providers/archive/rar5-modify.ts) and the conversions                  *)
(* (services/archiveService.ts), over the files of FileReplace.            *)
(*                                                                         *)
(* The extension host runs one synchronous piece of code at a time; worker *)
(* threads, binding tasks and 7-Zip child processes run beside it.  Each   *)
(* writer runs one operation.  The content of an archive is the set of     *)
(* edits it holds; by names the operation that wrote the file.             *)
(***************************************************************************)
EXTENDS FileReplace

CONSTANTS
  MaxCrashes,   \* bound: crashes of the extension host
  Kinds,        \* the kinds of archive of this run
  Acts          \* the operations each writer may run

VARIABLES
  kind,     \* the format class of the archive
  system,   \* is a native 7-Zip usable?
  op,       \* each operation
  folders,  \* output folders that exist
  crashes

vars == <<fileVars, kind, system, op, folders, crashes>>

\* What a file of the archive holds: who wrote it, the edits in it, and whether it
\* is all there.
Content == [by : Writer \cup {Absent}, has : SUBSET Writer, whole : BOOLEAN]

Mutations == {"add", "delete", "rename", "mkdir"}
Conversions == {"convert", "merge", "split"}
RarKinds == {"rar5", "rar4", "rarset"}

ASSUME EditAssumption ==
  /\ MaxCrashes \in Nat
  /\ Kinds \subseteq {"plain", "wrapped"} \cup RarKinds
  /\ Acts \in [Writer -> SUBSET (Mutations \cup Conversions)]
  /\ {"arc", "bak", "out", "out1", "dir", "dir1"} \subseteq Stem
  /\ {"dir", "dir1"} \subseteq SetStem
  /\ Absent \notin Content
  /\ \A edits \in SUBSET Writer : edits # Absent

Arc == File("arc")     \* archivePath
Bak == File("bak")     \* `${archivePath}.rar5bak`

Original == [by |-> Absent, has |-> {}, whole |-> TRUE]
Partial(w) == [by |-> w, has |-> {}, whole |-> FALSE]
Written(w, edits) == [by |-> w, has |-> edits, whole |-> TRUE]

Results == {"none", "ok", "failed", "cancelled", "crashed"}
NoOp == [act |-> "none", at |-> "new", seen |-> Absent, dst |-> "arc", cancel |-> FALSE,
         wrote |-> 0, res |-> "none"]

Init ==
  /\ kind \in Kinds
  /\ system \in BOOLEAN
  /\ disk = [p \in Paths |-> IF p = Arc THEN Original ELSE Absent]
  /\ call = [w \in Writer |-> Idle]
  /\ faults = 0
  /\ op = [w \in Writer |-> NoOp]
  /\ folders = {}
  /\ crashes = 0

Running(w) == op[w].act # "none" /\ op[w].res = "none"
At(w, stage) == Running(w) /\ op[w].at = stage

SwapStages == {"swap", "backup", "install", "drop", "restore"}
Stages ==
  {"new", "load", "main", "write", "native", "child", "exited", "aborted",
   "binding", "inplace", "rebuild", "extract", "mutate", "compress",
   "unpack", "pack", "publish", "discard"} \cup SwapStages
HostFree ==
  \A w \in Writer : Running(w) =>
    /\ op[w].at \notin SwapStages
    /\ op[w].at = "publish" => call[w].at \in {"idle", "done", "failed"}

GoTo(w, stage) == op' = [op EXCEPT ![w].at = stage]
End(w, res) == op' = [op EXCEPT ![w].res = res]
Rest == UNCHANGED <<kind, system, folders, crashes>>

Fail(w) == End(w, "failed") /\ UNCHANGED fileVars

-----------------------------------------------------------------------------
\* selectEngine: the engine of a mutation.
Engine(act) ==
  IF kind \in RarKinds THEN "rarRebuild"
  ELSE IF kind = "wrapped" \/ ~system THEN "worker"
  ELSE "system7z"

\* Where an operation starts: the dispatch of addToArchive, deleteFromArchive,
\* renameInArchive, createFolderInArchive and the conversion handlers.
FirstStage(act) ==
  IF act \in Conversions THEN "unpack"
  ELSE CASE Engine(act) = "worker" -> "load"
         [] Engine(act) = "system7z" -> "native"
         [] OTHER ->
              IF \/ act = "add" /\ kind = "rar5"
                 \/ act = "delete" /\ kind \in {"rar5", "rarset"}
              THEN "binding" ELSE "rebuild"

\* uniquePath and the folder loops of the split handlers.
Destination(act) ==
  CASE act = "convert" -> IF Exists(File("out")) THEN "out1" ELSE "out"
    [] act = "split" -> IF "dir" \in folders THEN "dir1" ELSE "dir"
    [] OTHER -> "arc"

Start(w, act) ==
  /\ op[w].act = "none"
  /\ HostFree
  /\ op' = [op EXCEPT ![w] = [@ EXCEPT !.act = act, !.at = FirstStage(act),
                                       !.dst = Destination(act)]]
  /\ UNCHANGED fileVars
  /\ Rest

\* The cancel message of the panel: only the conversions are given its token.
Cancel(w) ==
  /\ Running(w)
  /\ op[w].act \in Conversions
  /\ ~op[w].cancel
  /\ op' = [op EXCEPT ![w].cancel = TRUE]
  /\ UNCHANGED fileVars
  /\ Rest

-----------------------------------------------------------------------------
(* The worker pipelines: addToArchiveCore, deleteFromArchiveCore,          *)
(* renameInArchiveCore, createFolderInArchiveCore, withWrappedArchiveCore  *)

\* streamToVFS or readFileSync.
Load(w) ==
  /\ At(w, "load")
  /\ IF Exists(Arc) THEN op' = [op EXCEPT ![w].seen = disk[Arc].has, ![w].at = "main"]
                    ELSE End(w, "failed")
  /\ UNCHANGED fileVars
  /\ Rest

\* Mutant: the archive is overwritten in place.
WriteBackInPlace(w) ==
  /\ At(w, "main")
  /\ \/ disk' = [disk EXCEPT ![Arc] = Written(w, op[w].seen \cup {w})] /\ UNCHANGED faults
     \/ Fault /\ disk' = [disk EXCEPT ![Arc] = Partial(w)]
  /\ call' = [call EXCEPT ![w].at = "done"]
  /\ GoTo(w, "write")
  /\ Rest

\* callMain edits the copy; atomicWriteFile writes it back.
WriteBack(w) ==
  /\ At(w, "main")
  /\ WriteTemp(w, "arc", Written(w, op[w].seen \cup {w}), Partial(w))
  /\ GoTo(w, "write")
  /\ Rest

MainFails(w) ==
  /\ At(w, "main")
  /\ Fail(w)
  /\ Rest

\* Mutant: a failed replacement never settles the promise.
CallReturnsOnce(w) ==
  /\ op[w].at \in {"write", "publish", "discard"}
  /\ Running(w)
  /\ call[w].at = "done"
  /\ End(w, "ok")
  /\ UNCHANGED fileVars
  /\ Rest

\* The promise of atomicWriteFile's or withAtomicOutput's caller.
CallReturns(w) ==
  /\ op[w].at \in {"write", "publish", "discard"}
  /\ Running(w)
  /\ call[w].at \in {"done", "failed"}
  /\ End(w, IF call[w].at = "done" THEN "ok"
            ELSE IF op[w].at = "discard" /\ op[w].cancel THEN "cancelled" ELSE "failed")
  /\ UNCHANGED fileVars
  /\ Rest

-----------------------------------------------------------------------------
(* System 7-Zip in place: addToArchiveSystem7z, deleteFromArchiveSystem7z, *)
(* renameInArchiveSystem7z                                                 *)

\* The child process writes a copy next to the archive and renames it.  A
\* missing archive is an empty one.
NativeReads(w) ==
  /\ At(w, "native")
  /\ op' = [op EXCEPT ![w].seen = IF Exists(Arc) THEN disk[Arc].has ELSE {},
                      ![w].at = "child"]
  /\ UNCHANGED fileVars
  /\ Rest

NativeApplies(w) ==
  /\ At(w, "child")
  /\ disk' = [disk EXCEPT ![Arc] = Written(w, op[w].seen \cup {w})]
  /\ GoTo(w, "exited")
  /\ UNCHANGED <<call, faults>>
  /\ Rest

NativeAborts(w) ==
  /\ At(w, "child")
  /\ GoTo(w, "aborted")
  /\ UNCHANGED fileVars
  /\ Rest

\* run7z looks at the exit code, spawnCapture leaves that to its caller and
\* addToArchiveSystem7z and renameInArchiveSystem7z do not look.  Either
\* rejects when its timer was first.
NativeReturns(w) ==
  /\ op[w].at \in {"exited", "aborted"}
  /\ Running(w)
  /\ HostFree
  /\ \/ /\ op[w].at = "exited" \/ op[w].act # "delete"
        /\ End(w, "ok")
     \/ End(w, "failed")
  /\ UNCHANGED fileVars
  /\ Rest

-----------------------------------------------------------------------------
(* The rar5 binding: appendWithRar5, deleteWithRar5                        *)

\* Members are appended to or removed from the file itself.
BindingBegins(w) ==
  /\ At(w, "binding")
  /\ Exists(Arc) /\ disk[Arc].whole
  /\ disk' = [disk EXCEPT ![Arc].whole = FALSE, ![Arc].by = w]
  /\ op' = [op EXCEPT ![w].seen = disk[Arc].has, ![w].at = "inplace"]
  /\ UNCHANGED <<call, faults>>
  /\ Rest

\* The blocks go to the file that was opened, wherever a swap has moved it.
Opened(w) == {p \in {Arc, Bak} : Exists(p) /\ disk[p].by = w /\ ~disk[p].whole}

BindingEnds(w) ==
  /\ At(w, "inplace")
  /\ disk' = [p \in Paths |->
       IF p \in Opened(w) THEN Written(w, op[w].seen \cup {w}) ELSE disk[p]]
  /\ End(w, "ok")
  /\ UNCHANGED <<call, faults>>
  /\ Rest

\* It gives up in the middle, which the dispatchers answer with a rebuild.
BindingBreaks(w) ==
  /\ At(w, "inplace")
  /\ Fault
  /\ GoTo(w, "rebuild")
  /\ UNCHANGED <<disk, call>>
  /\ Rest

\* A refusal (locked, wrong password, all targets excluded) falls back to the
\* rebuild; an archive that cannot even be opened ends the operation.
BindingRefuses(w) ==
  /\ At(w, "binding")
  /\ IF Exists(Arc) THEN GoTo(w, "rebuild") ELSE End(w, "failed")
  /\ UNCHANGED fileVars
  /\ Rest

-----------------------------------------------------------------------------
(* rebuildRarArchive                                                       *)

\* assertRarModifiable, detectRarVersion and the question about RAR4, which
\* the user may decline; then the work directory.
RebuildStarts(w) ==
  /\ At(w, "rebuild")
  /\ HostFree
  /\ \/ /\ Exists(Arc) /\ kind # "rarset"
        /\ GoTo(w, "extract")
     \/ /\ ~Exists(Arc) \/ kind \in {"rarset", "rar4"}
        /\ End(w, "failed")
  /\ UNCHANGED fileVars
  /\ Rest

\* finally: rmSync(workRoot), best effort.
Leave(w, res, d) ==
  /\ End(w, res)
  /\ disk' = Removed(d, {Work(w)})
  /\ UNCHANGED call

\* Mutant: the members of the archive are not unpacked into the work directory.
ExtractNothing(w) ==
  /\ At(w, "extract")
  /\ system /\ Exists(Arc) /\ disk[Arc].whole
  /\ op' = [op EXCEPT ![w].seen = {}, ![w].at = "mutate"]
  /\ UNCHANGED fileVars
  /\ Rest

\* decompressWithSystem7z reads the archive; it refuses without a 7-Zip that
\* knows RAR and fails on a damaged archive.
Extract(w) ==
  /\ At(w, "extract")
  /\ system /\ Exists(Arc) /\ disk[Arc].whole
  /\ op' = [op EXCEPT ![w].seen = disk[Arc].has, ![w].at = "mutate"]
  /\ UNCHANGED fileVars
  /\ Rest

RebuildFails(w) ==
  /\ op[w].at \in {"extract", "mutate", "compress"}
  /\ Running(w)
  /\ HostFree
  /\ Leave(w, "failed", disk)
  /\ UNCHANGED faults
  /\ Rest

\* mutate() left nothing: the archive is erased.
EraseArchive(w) ==
  /\ At(w, "mutate")
  /\ HostFree
  /\ op[w].act = "delete"
  /\ Leave(w, "ok", Removed(disk, {Arc}))
  /\ UNCHANGED faults
  /\ Rest

\* mutate(), then hasEncryptedHeaders and readRecoveryPercent look at the
\* archive again before compressWithRar5 is called.
Mutate(w) ==
  /\ At(w, "mutate")
  /\ HostFree
  /\ Exists(Arc)
  /\ GoTo(w, "compress")
  /\ UNCHANGED fileVars
  /\ Rest

Compressed(w) ==
  /\ At(w, "compress")
  /\ HostFree
  /\ disk' = [disk EXCEPT ![Work(w)] = Written(w, op[w].seen \cup {w})]
  /\ GoTo(w, "swap")
  /\ UNCHANGED <<call, faults>>
  /\ Rest

\* One file operation of the swap: it succeeds and goes on, or fails.
SwapStep(w, stage, possible, d, next, onFailure) ==
  /\ At(w, stage)
  /\ \/ /\ possible
        /\ disk' = d
        /\ GoTo(w, next)
        /\ UNCHANGED <<call, faults>>
     \/ /\ Fault \/ (~possible /\ UNCHANGED faults)
        /\ IF onFailure = "failed" THEN Leave(w, "failed", disk)
           ELSE GoTo(w, onFailure) /\ UNCHANGED <<disk, call>>
  /\ Rest

\* Mutants: the archive is removed first; a failure after it is not repaired.
BackUpNothing(w) == SwapStep(w, "backup", Exists(Arc), Removed(disk, {Arc}), "install", "failed")

RestoreNothing(w) ==
  /\ At(w, "restore")
  /\ Leave(w, "failed", disk)
  /\ UNCHANGED faults
  /\ Rest

DropOldBackup(w) == SwapStep(w, "swap", TRUE, Removed(disk, {Bak}), "backup", "failed")
BackUp(w) == SwapStep(w, "backup", Exists(Arc), Renamed(disk, Arc, Bak), "install", "failed")
Install(w) == SwapStep(w, "install", TRUE, Renamed(disk, Work(w), Arc), "drop", "restore")

DropBackup(w) ==
  /\ At(w, "drop")
  /\ \/ Leave(w, "ok", Removed(disk, {Bak})) /\ UNCHANGED faults
     \/ Fault /\ GoTo(w, "restore") /\ UNCHANGED <<disk, call>>
  /\ Rest

Restore(w) ==
  /\ At(w, "restore")
  /\ \/ Leave(w, "failed", Renamed(disk, Bak, Arc)) /\ UNCHANGED faults
     \/ Fault /\ Leave(w, "failed", disk)
  /\ Rest

-----------------------------------------------------------------------------
(* convertArchive                                                          *)

\* decompressWith7z; then the destination's directory.
Unpack(w) ==
  /\ At(w, "unpack")
  /\ HostFree
  /\ IF op[w].cancel THEN End(w, "cancelled") /\ UNCHANGED folders
     ELSE IF Exists(Arc) /\ disk[Arc].whole
          THEN /\ op' = [op EXCEPT ![w].seen = disk[Arc].has, ![w].at = "pack"]
               /\ folders' = IF op[w].act = "split" THEN folders \cup {op[w].dst} ELSE folders
          ELSE End(w, "failed") /\ UNCHANGED folders
  /\ UNCHANGED <<fileVars, kind, system, crashes>>

\* What compressWith7z leaves: one file, or a set when a volume size is asked.
Outputs(w) ==
  {{File(w)}} \cup
    IF op[w].act # "split" THEN {}
    ELSE {{Volume(w, k, i) : i \in 1 .. n} : k \in {"num", "part"}, n \in 1 .. MaxVolumes}

Pack(w) ==
  /\ At(w, "pack")
  /\ \E out \in Outputs(w) :
       \/ /\ ~op[w].cancel
          /\ disk' = [p \in Paths |-> IF p \in out THEN Written(w, op[w].seen) ELSE disk[p]]
          /\ op' = [op EXCEPT ![w].at = "publish", ![w].wrote = Cardinality(out)]
       \/ /\ \E left \in {{}, out} :
               disk' = [p \in Paths |-> IF p \in left THEN Partial(w) ELSE disk[p]]
          /\ GoTo(w, "discard")
  /\ UNCHANGED <<call, faults>>
  /\ Rest

PublishOutput(w) ==
  /\ At(w, "publish")
  /\ HostFree
  /\ Publish(w, op[w].dst, op[w].act = "split")
  /\ UNCHANGED op
  /\ Rest

DiscardOutput(w) ==
  /\ At(w, "discard")
  /\ HostFree
  /\ Discard(w)
  /\ UNCHANGED op
  /\ Rest

-----------------------------------------------------------------------------
\* The extension host dies with everything it runs; files stay as they are.
Crash ==
  /\ crashes < MaxCrashes
  /\ crashes' = crashes + 1
  /\ op' = [w \in Writer |-> IF Running(w) THEN [op[w] EXCEPT !.res = "crashed"] ELSE op[w]]
  /\ call' = [w \in Writer |-> Idle]
  /\ UNCHANGED <<disk, faults, kind, system, folders>>

FileStep(w) == CallStep(w) /\ UNCHANGED op /\ Rest

Step(w) ==
  \/ Load(w) \/ WriteBack(w) \/ MainFails(w) \/ CallReturns(w)
  \/ NativeReads(w) \/ NativeApplies(w) \/ NativeAborts(w) \/ NativeReturns(w)
  \/ BindingBegins(w) \/ BindingEnds(w) \/ BindingBreaks(w) \/ BindingRefuses(w)
  \/ RebuildStarts(w) \/ Extract(w) \/ RebuildFails(w) \/ EraseArchive(w)
  \/ Mutate(w) \/ Compressed(w)
  \/ DropOldBackup(w) \/ BackUp(w) \/ Install(w) \/ DropBackup(w) \/ Restore(w)
  \/ Unpack(w) \/ Pack(w) \/ PublishOutput(w) \/ DiscardOutput(w)
  \/ FileStep(w)

Next ==
  \/ \E w \in Writer : \/ \E act \in Acts[w] : Start(w, act)
                       \/ Cancel(w)
                       \/ Step(w)
  \/ Crash

Spec == Init /\ [][Next]_vars
FairSpec == Spec /\ \A w \in Writer : WF_vars(Step(w))

-----------------------------------------------------------------------------
(* Properties                                                              *)

\* The files hold contents, and every operation is at a place of its pipeline.
TypeOK ==
  /\ FileTypeOK(Content)
  /\ kind \in Kinds /\ system \in BOOLEAN
  /\ folders \subseteq SetStem
  /\ crashes \in 0 .. MaxCrashes
  /\ op \in [Writer -> [act : Mutations \cup Conversions \cup {"none"}, at : Stages,
                        seen : (SUBSET Writer) \cup {Absent}, dst : Stem,
                        cancel : BOOLEAN, wrote : Nat, res : Results]]
  /\ \A w \in Writer : op[w].act \in Acts[w] \cup {"none"}

\* A file under a name the user knows is a whole archive at every moment, also
\* at a crash and while outputs are cleaned up.  Only the binding, which edits
\* the archive in place, may be found in the middle of its work.
OnlyBindingTears ==
  \A p \in Paths : Exists(p) /\ ~disk[p].whole =>
    \/ p \in {Arc, Bak} /\ kind \in RarKinds
    \/ \E w \in Writer : p \in TempFiles(w)

\* The last member was deleted.
Erased == \E w \in Writer : op[w].at = "mutate" /\ op[w].res = "ok"

\* No crash and no single failed file operation takes the archive away: where it
\* is gone, its last member was deleted, or a whole copy lies beside it, as the
\* backup of a rebuild or as the temporary file of a replacement.
ArchiveOrCopy ==
  faults <= 1 /\ ~Exists(Arc) /\ ~Erased =>
    \E p \in {Bak} \cup {File(w) : w \in Writer} :
      Exists(p) /\ (disk[p].whole \/ kind \in RarKinds)

\* When one file operation fails, the operation that reports it leaves an archive
\* without its edit, also when a rebuild had already installed it.  (Another
\* operation may have read the edit meanwhile and commit it later, and a native
\* 7-Zip may finish just before its timer.)
FailedLeavesNoEdit ==
  [][\A w \in Writer :
       /\ op[w].res = "none" /\ op'[w].res = "failed"
       /\ Engine(op[w].act) # "system7z"
       /\ faults' <= 1 /\ Exists(Arc)'
       => w \notin disk'[Arc].has]_vars

\* An operation that has ended has taken its temporary files and its work
\* directory with it, unless the removal itself failed: a mutation comes to it
\* only after another failure.
NoLeftovers ==
  \A w \in Writer :
    /\ op[w].res \in {"ok", "failed", "cancelled"}
    /\ faults <= IF op[w].act \in Mutations THEN 1 ELSE 0
    => \A p \in TempFiles(w) \cup {Work(w)} : ~Exists(p)

\* A split that was the only one of its folder leaves there what it wrote: one
\* file, or as many volumes, counted from 1, of one naming.
SetIsComplete ==
  \A w \in Writer :
    /\ op[w].act = "split" /\ op[w].res = "ok"
    /\ \A v \in Writer \ {w} : op[v].act = "split" => op[v].dst # op[w].dst
    => LET dst == op[w].dst
           found == {p \in VolumesOf(dst) \cup {File(dst)} : Exists(p)}
       IN  /\ \/ found = {File(dst)} /\ op[w].wrote = 1
              \/ \E k \in {"num", "part"} :
                   found = {Volume(dst, k, i) : i \in 1 .. op[w].wrote}
           /\ \A p \in found : disk[p] = Written(w, op[w].seen)

\* What a conversion has put under a name is not replaced by another one.
NoSilentOverwrite ==
  [][\A n \in {"out", "out1"} : Exists(File(n)) => disk'[File(n)] = disk[File(n)]]_vars

\* The edits of one archive, as ArchiveStore has them: where it has no file, the
\* content is in the file that is about to be renamed to it, or in the backup of a
\* swap that is under way or was interrupted.
Incoming == {w \in Writer : call[w].at = "retry" /\ Next1(w).dst = Arc}
SetAside == \E w \in Writer : op[w].at \in {"install", "restore"}
Held ==
  IF Exists(Arc) THEN disk[Arc].has
  ELSE IF Incoming # {} THEN disk[Next1(CHOOSE w \in Incoming : TRUE).src].has
  ELSE IF Exists(Bak) /\ SetAside THEN disk[Bak].has ELSE Absent
Based == [w \in Writer |-> IF Running(w) THEN op[w].seen ELSE Absent]
Store == INSTANCE ArchiveStore WITH
  Tolerated <- IF Fragile THEN 0 ELSE 1,
  mishaps <- faults + crashes, archive <- Held, base <- Based
ImplementsArchiveStore == Store!Spec

\* Every operation ends: no engine or file call leaves it waiting, and no two
\* operations wait for each other.
EveryOperationEnds ==
  \A w \in Writer : op[w].act # "none" ~> op[w].res # "none"
=============================================================================
