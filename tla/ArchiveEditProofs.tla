-------------------------- MODULE ArchiveEditProofs --------------------------
(***************************************************************************)
(* ArchiveEdit: its types, that no replacement tears or loses the archive, *)
(* that an operation that failed has left none of its edit behind, that it *)
(* implements ArchiveStore, what an operation leaves behind of its         *)
(* temporary files and a split in its folder, for any operations on any    *)
(* number of writers, any number of volumes, faults and crashes.           *)
(***************************************************************************)
EXTENDS ArchiveEdit, FiniteSetTheorems, SequenceTheorems, TLAPS

-----------------------------------------------------------------------------
(* The inductive invariant                                                 *)

ConversionStages == {"unpack", "pack", "publish", "discard"}
WorkerStages == {"load", "main", "write"}
NativeStages == {"native", "child", "exited", "aborted"}
RarStages == {"binding", "inplace", "rebuild", "extract", "mutate", "compress"} \cup SwapStages
UnreadStages == {"new", "unpack", "load", "native", "binding", "rebuild", "extract"}
Moving == {"rename", "unlink", "retry"}

\* Where an operation stands fits what it does and what the archive is.
StageOK(w) ==
  /\ op[w].act = "none" <=> op[w].at = "new"
  /\ op[w].act = "none" => op[w].res = "none" /\ op[w].seen = Absent
  /\ op[w].act \in Conversions <=> op[w].at \in ConversionStages
  /\ op[w].at \in WorkerStages => kind \notin RarKinds
  /\ op[w].at \in NativeStages => kind \notin RarKinds /\ Engine(op[w].act) = "system7z"
  /\ op[w].at \in RarStages => kind \in RarKinds
  /\ op[w].at \notin UnreadStages => op[w].seen # Absent
  /\ op[w].act \notin {"convert", "split"} => op[w].dst = "arc"
  /\ op[w].act = "convert" => op[w].dst \in {"out", "out1"}
  /\ op[w].act = "split" => op[w].dst \in {"dir", "dir1"}
StageInv == \A w \in Writer : StageOK(w)

\* A file call belongs to an operation that waits for it.
CallOK(w) ==
  /\ call[w].at # "idle" => op[w].at \in {"write", "publish", "discard"}
  /\ call[w].at \in Moving => Running(w) /\ op[w].at \in {"write", "publish"}
  /\ call[w].at = "cleanup" => Running(w)
  /\ At(w, "write") => call[w].at # "idle"
  /\ op[w].at = "discard" => call[w].at \in {"idle", "cleanup", "failed"}
  /\ call[w].at \in {"unlink", "retry"} => faults >= 1
CallInv == \A w \in Writer : CallOK(w)

\* A call moves temporary files of its writer to where the operation puts them,
\* and to the archive only the one file.
MoveOK(w) ==
  call[w].at \in Moving =>
    /\ \A i \in 1 .. Len(call[w].todo) :
         /\ call[w].todo[i].src \in TempFiles(w)
         /\ \/ call[w].todo[i].dst = File(op[w].dst)
            \/ op[w].act = "split" /\ call[w].todo[i].dst \in VolumesOf(op[w].dst)
    /\ op[w].dst = "arc" =>
         /\ call[w].todo = <<[src |-> File(w), dst |-> Arc]>>
         /\ disk[File(w)] = Written(w, IF op[w].at = "write" THEN op[w].seen \cup {w}
                                                             ELSE op[w].seen)
MoveInv == \A w \in Writer : MoveOK(w)

OutputOK(w) ==
  At(w, "publish") /\ call[w].at = "idle" /\ op[w].dst = "arc" =>
    disk[File(w)] = Written(w, op[w].seen)
OutputInv == \A w \in Writer : OutputOK(w)

\* What is about to be published is whole.
TempsOK(w) ==
  op[w].res = "none" /\ op[w].at # "discard" /\ call[w].at \notin {"cleanup", "failed"} =>
    \A p \in TempFiles(w) : Exists(p) => disk[p].whole
TempsWhole == \A w \in Writer : TempsOK(w)

\* The host runs one synchronous piece of code at a time.
Busy(w) ==
  /\ Running(w)
  /\ \/ op[w].at \in SwapStages
     \/ op[w].at = "publish" /\ call[w].at \notin {"idle", "done", "failed"}
Exclusive == \A v, w \in Writer : Busy(v) /\ Busy(w) => v = w

\* The files of a swap.
SwapOK(w) ==
  /\ op[w].at \in {"swap", "backup", "install"} /\ Running(w) =>
       disk[Work(w)] = Written(w, op[w].seen \cup {w})
  /\ op[w].at \in {"install", "drop", "restore"} /\ Running(w) => Exists(Bak)
  /\ At(w, "drop") => Exists(Arc)
  /\ At(w, "restore") => faults >= 1
SwapInv == \A w \in Writer : SwapOK(w)

\* Where the content of the archive is while its name is missing: in the file that a
\* retried rename is about to move to it, in the backup of a swap that is under way,
\* or in what a crash has left of one of the two, and then nobody swaps.
Arriving(u) == call[u].at = "retry" /\ op[u].dst = "arc" /\ Exists(File(u)) /\ disk[File(u)].whole
Swapping(u) == Running(u) /\ op[u].at \in {"install", "restore"}
Stranded(u) ==
  /\ op[u].res = "crashed" /\ op[u].at \in {"write", "publish"}
  /\ Exists(File(u)) /\ disk[File(u)].whole
NobodySwaps == \A v \in Writer : Running(v) => op[v].at \notin {"compress"} \cup SwapStages
CopyInv ==
  faults <= 1 /\ ~Exists(Arc) /\ ~Erased =>
    \/ \E u \in Writer : Arriving(u)
    \/ Exists(Bak) /\ \E u \in Writer : Swapping(u)
    \/ (Exists(Bak) \/ \E u \in Writer : Stranded(u)) /\ NobodySwaps

\* An operation whose edit is nowhere but in its own temporary files.
Silent(w) ==
  /\ op[w].res = "none"
  /\ op[w].at \notin {"exited", "drop", "restore"}
  /\ ~(op[w].at = "write" /\ call[w].at = "done")
Own(w) ==
  IF op[w].at = "write" THEN TempFiles(w)
  ELSE IF op[w].at \in {"swap", "backup", "install"} THEN {Work(w)} ELSE {}
SilentOK(w) ==
  Silent(w) =>
    /\ \A p \in Paths \ Own(w) : Exists(p) => w \notin disk[p].has
    /\ \A v \in Writer : op[v].seen # Absent => w \notin op[v].seen
SilentInv == \A w \in Writer : SilentOK(w)

\* The binding knows what the file that it has open held; the backup of a swap
\* does not hold the edit that the swap installs.
TornInv ==
  \A w \in Writer : \A p \in {Arc, Bak} :
    Exists(p) /\ ~disk[p].whole /\ disk[p].by = w =>
      /\ op[w].at \notin {"new", "binding"}
      /\ At(w, "inplace") => disk[p].has = op[w].seen
BackupInv ==
  \A w \in Writer : Running(w) /\ op[w].at \in {"install", "drop", "restore"} => w \notin disk[Bak].has

-----------------------------------------------------------------------------
(* Paths                                                                   *)

\* The first part of a path tells whose it is.
LEMMA Owners ==
  /\ \A s : File(s)[1] = s /\ Work(s)[1] = s
  /\ \A s : \A p \in VolumesOf(s) : p[1] = s
  /\ \A w \in Writer : \A p \in TempFiles(w) \cup {Work(w)} : p[1] = w
BY DEF File, Work, VolumesOf, Volume, TempFiles

\* The paths of writers and destinations.
LEMMA PathSets ==
  /\ \A s \in Stem : File(s) \in Paths
  /\ \A s \in SetStem : VolumesOf(s) \subseteq Paths
  /\ \A w \in Writer : TempFiles(w) \subseteq Paths /\ Work(w) \in Paths /\ File(w) \in TempFiles(w)
  /\ Arc \in Paths /\ Bak \in Paths /\ Arc # Bak
<1>1. "arc" \in Stem /\ "bak" \in Stem
  BY EditAssumption
<1>2. Arc # Bak
  BY Owners DEF Arc, Bak
<1>3. /\ \A s \in Stem : File(s) \in Paths
      /\ \A s \in SetStem : VolumesOf(s) \subseteq Paths
  BY DEF Paths
<1>4. \A w \in Writer : TempFiles(w) \cup {Work(w)} \subseteq Paths
  BY DEF Paths
<1>5. \A w \in Writer : File(w) \in TempFiles(w)
  BY DEF TempFiles
<1>6. QED
  BY <1>1, <1>2, <1>3, <1>4, <1>5 DEF Arc, Bak

\* No writer's file is one of the user's, or of another writer.
LEMMA Disjoint ==
  ASSUME NEW w \in Writer, NEW p \in TempFiles(w) \cup {Work(w)}
  PROVE  /\ \A s \in Stem : p # File(s) /\ p \notin VolumesOf(s)
         /\ p # Arc /\ p # Bak
         /\ \A v \in Writer : v # w => p \notin TempFiles(v) /\ p # Work(v)
<1>1. p[1] = w
  BY Owners
<1>2. w \notin Stem
  BY FileAssumption
<1>3. QED
  BY <1>1, <1>2, Owners, EditAssumption DEF Arc, Bak

\* The kinds of a path tell the files of one owner apart.
LEMMA Kindred ==
  /\ \A w \in Writer : Work(w) \notin TempFiles(w)
  /\ \A s, t : File(s) \notin VolumesOf(t)
  /\ \A s \in Stem : File(s) = Arc <=> s = "arc"
  /\ \A s \in Stem : File(s) = Bak <=> s = "bak"
BY DEF Work, TempFiles, File, VolumesOf, Volume, Arc, Bak

-----------------------------------------------------------------------------
(* Types                                                                   *)

Disks == [Paths -> Content \cup {Absent}]

\* What operations write is content.
LEMMA Contents ==
  /\ Original \in Content
  /\ \A w \in Writer : Partial(w) \in Content
  /\ \A w \in Writer : \A e \in SUBSET Writer : Written(w, e) \in Content
  /\ \A c \in Content : c # Absent
BY EditAssumption DEF Content, Original, Partial, Written

\* A rename of one path over another leaves a disk.
LEMMA RenamedType ==
  ASSUME NEW d \in Disks, NEW p \in Paths, NEW q \in Paths
  PROVE  Renamed(d, p, q) \in Disks
BY DEF Disks, Renamed

\* So does the removal of any set of paths.
LEMMA RemovedType ==
  ASSUME NEW d \in Disks, NEW S
  PROVE  Removed(d, S) \in Disks
BY DEF Disks, Removed

\* What withAtomicOutput finds of its output are volumes of the set.
Found == {"num", "part"} \X (1 .. MaxVolumes)

\* The numbered volumes and the parts a call finds are together a sequence of
\* volumes.
LEMMA FoundType ==
  ASSUME NEW w \in Writer, NEW list \in Listings(w)
  PROVE  Numbered(w) \o list \in Seq(Found)
<1> DEFINE run == {n \in 1 .. MaxVolumes : \A i \in 1 .. n : Exists(Volume(w, "num", i))}
           parts == {<<"part", n>> : n \in {m \in 1 .. MaxVolumes : Exists(Volume(w, "part", m))}}
<1>1. MaxVolumes \in Nat
  BY FileAssumption
<1>2. IsFiniteSet(1 .. MaxVolumes) /\ Cardinality(1 .. MaxVolumes) = MaxVolumes
  BY <1>1, FS_Interval
<1>3. Cardinality(run) \in Nat /\ Cardinality(run) <= MaxVolumes
  BY <1>2, FS_Subset, FS_CardinalityType
<1>4. Numbered(w) \in Seq(Found)
  <2>1. Numbered(w) = [n \in 1 .. Cardinality(run) |-> <<"num", n>>]
    BY DEF Numbered
  <2>2. \A n \in 1 .. Cardinality(run) : <<"num", n>> \in Found
    BY <1>1, <1>3 DEF Found
  <2>3. QED
    BY <2>1, <2>2, <1>3, IsASeq
<1>5. list \in Seq(Found)
  <2>1. IsFiniteSet(parts)
    <3>1. IsFiniteSet({m \in 1 .. MaxVolumes : Exists(Volume(w, "part", m))})
      BY <1>2, FS_Subset
    <3>2. [m \in {k \in 1 .. MaxVolumes : Exists(Volume(w, "part", k))} |-> <<"part", m>>]
            \in Surjection({m \in 1 .. MaxVolumes : Exists(Volume(w, "part", m))}, parts)
      BY DEF Surjection
    <3>3. QED
      BY <3>1, <3>2, FS_Surjection
  <2>2. Cardinality(parts) \in Nat
    BY <2>1, FS_CardinalityType
  <2>3. list \in [1 .. Cardinality(parts) -> parts]
    BY DEF Listings
  <2>4. parts \subseteq Found
    BY DEF Found
  <2>5. list \in [1 .. Cardinality(parts) -> Found]
    BY <2>3, <2>4
  <2>6. ASSUME NEW n \in Nat, list \in [1 .. n -> Found]
        PROVE  list \in Seq(Found)
    BY <2>6, SeqDef
  <2>7. QED
    BY <2>2, <2>5, <2>6
<1>6. QED
  BY <1>4, <1>5, ConcatProperties

\* The renames go from temporary files to the destination.
LEMMA MovesFacts ==
  ASSUME NEW w \in Writer, NEW dst \in Stem, NEW volumes \in BOOLEAN,
         volumes => dst \in SetStem, NEW list \in Listings(w)
  PROVE  LET moves == Moves(w, dst, volumes, list)
         IN  /\ moves \in Seq(Rename)
             /\ moves # <<>>
             /\ \A i \in 1 .. Len(moves) :
                  /\ moves[i].src \in TempFiles(w)
                  /\ \/ moves[i].dst = File(dst)
                     \/ volumes /\ moves[i].dst \in VolumesOf(dst)
             /\ ~volumes => moves = <<[src |-> File(w), dst |-> File(dst)]>>
<1> DEFINE moves == Moves(w, dst, volumes, list)
           Goal(m) == /\ m \in Seq(Rename)
                      /\ m # <<>>
                      /\ \A i \in 1 .. Len(m) :
                           /\ m[i].src \in TempFiles(w)
                           /\ \/ m[i].dst = File(dst)
                              \/ volumes /\ m[i].dst \in VolumesOf(dst)
                      /\ ~volumes => m = <<[src |-> File(w), dst |-> File(dst)]>>
           found == Numbered(w) \o list
           one == <<[src |-> File(w), dst |-> File(dst)]>>
<1>1. File(w) \in TempFiles(w) /\ TempFiles(w) \subseteq Paths /\ File(dst) \in Paths
  BY PathSets
<1>2. ASSUME ~volumes \/ found = <<>> PROVE Goal(moves)
  <2>1. moves = one
    BY <1>2 DEF Moves
  <2>2. [src |-> File(w), dst |-> File(dst)] \in Rename
    BY <1>1 DEF Rename
  <2>3. one \in Seq(Rename) /\ one # <<>> /\ Len(one) = 1 /\ one[1] = [src |-> File(w), dst |-> File(dst)]
    BY <2>2
  <2>4. Goal(one)
    BY <2>3, <1>1
  <2>5. QED
    BY <2>1, <2>4
<1>3. ASSUME volumes, found # <<>> PROVE Goal(moves)
  <2>1. moves = [i \in 1 .. Len(found) |-> [src |-> Volume(w, found[i][1], found[i][2]),
                                            dst |-> Volume(dst, found[i][1], found[i][2])]]
    BY <1>3 DEF Moves, MoveAll
  <2>2. found \in Seq(Found)
    BY FoundType
  <2>3. Len(found) \in Nat /\ Len(found) # 0
    BY <2>2, <1>3, EmptySeq, LenProperties
  <2>4. ASSUME NEW i \in 1 .. Len(found)
        PROVE  /\ Volume(w, found[i][1], found[i][2]) \in TempFiles(w)
               /\ Volume(dst, found[i][1], found[i][2]) \in VolumesOf(dst)
               /\ Volume(dst, found[i][1], found[i][2]) \in Paths
    <3>1. found[i] \in Found
      BY <2>2, <2>4, ElementOfSeq
    <3>2. found[i][1] \in {"num", "part"} /\ found[i][2] \in 1 .. MaxVolumes
      BY <3>1 DEF Found
    <3>3. QED
      BY <3>2, <1>3, PathSets DEF TempFiles, VolumesOf
  <2>5. moves \in Seq(Rename)
    <3>1. \A i \in 1 .. Len(found) : moves[i] \in Rename
      BY <2>1, <2>4, <1>1 DEF Rename
    <3>2. QED
      BY <2>1, <2>3, <3>1, IsASeq
  <2>6. Len(moves) = Len(found) /\ moves # <<>>
    BY <2>1, <2>3, <2>5, LenProperties
  <2>7. \A i \in 1 .. Len(moves) :
          moves[i].src \in TempFiles(w) /\ moves[i].dst \in VolumesOf(dst)
    BY <2>1, <2>4, <2>6
  <2> HIDE DEF moves
  <2>8. Goal(moves)
    BY <1>3, <2>5, <2>6, <2>7
  <2>9. QED
    BY <2>8
<1> HIDE DEF moves, found, Goal
<1>4. Goal(moves)
  BY <1>2, <1>3
<1>5. QED
  BY <1>4 DEF moves, Goal

\* The parts of the type invariant, and a bound on where a split goes.
OpRecord == [act : Mutations \cup Conversions \cup {"none"}, at : Stages,
             seen : (SUBSET Writer) \cup {Absent}, dst : Stem,
             cancel : BOOLEAN, wrote : Nat, res : Results]
OpsOK ==
  /\ op \in [Writer -> OpRecord]
  /\ \A w \in Writer : op[w].act \in Acts[w] \cup {"none"}
  /\ \A w \in Writer : op[w].act = "split" => op[w].dst \in SetStem
CallRecord == [at : CallStages, todo : Seq(Rename), all : BOOLEAN]
CallsOK ==
  /\ call \in [Writer -> CallRecord]
  /\ \A w \in Writer : call[w].at \in Moving => call[w].todo # <<>>
RestOK ==
  /\ faults \in 0 .. MaxFaults
  /\ kind \in Kinds /\ system \in BOOLEAN
  /\ folders \subseteq SetStem
  /\ crashes \in 0 .. MaxCrashes
Typed == OpsOK /\ CallsOK /\ disk \in Disks /\ RestOK

\* The typing the proofs use implies the type invariant the runs check.
LEMMA TypedIsTypeOK == Typed => TypeOK
BY DEF Typed, TypeOK, FileTypeOK, OpsOK, OpRecord, CallsOK, CallRecord, RestOK, Disks, Moving

\* An operation that moves on along its pipeline changes only its stage.
LEMMA GoToKeeps ==
  ASSUME OpsOK, NEW w \in Writer, NEW s \in Stages, GoTo(w, s)
  PROVE  OpsOK' /\ op' = [op EXCEPT ![w] = op'[w]] /\ op'[w] = [op[w] EXCEPT !.at = s]
<1>1. op[w] \in OpRecord
  BY DEF OpsOK
<1>2. op' = [op EXCEPT ![w] = [op[w] EXCEPT !.at = s]]
  BY DEF GoTo
<1>3. [op[w] EXCEPT !.at = s] \in OpRecord
  BY <1>1 DEF OpRecord
<1>4. op'[w] = [op[w] EXCEPT !.at = s]
  BY <1>2 DEF OpsOK
<1>5. OpsOK'
  BY <1>1, <1>2, <1>3 DEF OpsOK, OpRecord
<1>6. QED
  BY <1>2, <1>4, <1>5

\* An operation that ends changes only its result.
LEMMA EndKeeps ==
  ASSUME OpsOK, NEW w \in Writer, NEW res \in Results, End(w, res)
  PROVE  OpsOK' /\ op' = [op EXCEPT ![w] = op'[w]] /\ op'[w] = [op[w] EXCEPT !.res = res]
<1>1. op[w] \in OpRecord
  BY DEF OpsOK
<1>2. op' = [op EXCEPT ![w] = [op[w] EXCEPT !.res = res]]
  BY DEF End
<1>3. [op[w] EXCEPT !.res = res] \in OpRecord
  BY <1>1 DEF OpRecord
<1>4. op'[w] = [op[w] EXCEPT !.res = res]
  BY <1>2 DEF OpsOK
<1>5. OpsOK'
  BY <1>1, <1>2, <1>3 DEF OpsOK, OpRecord
<1>6. QED
  BY <1>2, <1>4, <1>5

\* The inductive invariant.
IInv ==
  /\ Typed
  /\ StageInv
  /\ CallInv
  /\ MoveInv
  /\ OutputInv
  /\ TempsWhole
  /\ OnlyBindingTears
  /\ Exclusive
  /\ SwapInv
  /\ TornInv
  /\ BackupInv
  /\ SilentInv

\* A step of one operation leaves the others and their files alone.
Frame(w) ==
  /\ op' = [op EXCEPT ![w] = op'[w]]
  /\ call' = [call EXCEPT ![w] = call'[w]]
  /\ \A v \in Writer \ {w} : \A p \in TempFiles(v) \cup {Work(v)} : disk'[p] = disk[p]
  /\ UNCHANGED <<kind, system, crashes>>
  /\ faults' \in {faults, faults + 1}

\* The rename that a call makes next goes from its own file to one of the user's,
\* and to the archive only if the operation is about the archive.
LEMMA NextMove ==
  ASSUME Typed, StageInv, MoveInv, NEW w \in Writer, call[w].at \in Moving
  PROVE  /\ Next1(w) = call[w].todo[1]
         /\ Next1(w).src \in TempFiles(w) /\ Next1(w).src \in Paths
         /\ Next1(w).dst \in Paths /\ Next1(w).dst # Bak
         /\ Next1(w).dst = Arc <=> op[w].dst = "arc"
         /\ op[w].dst = "arc" => Next1(w).src = File(w) /\ Len(call[w].todo) = 1
         /\ \A v \in Writer : Next1(w).dst \notin TempFiles(v) \cup {Work(v)}
<1>1. call[w].todo \in Seq(Rename) /\ call[w].todo # <<>>
  BY DEF Typed, CallsOK, CallRecord
<1>2. Len(call[w].todo) \in Nat \ {0}
  BY <1>1, EmptySeq
<1>3. Next1(w) = call[w].todo[1] /\ Next1(w) \in Rename
  BY <1>1, <1>2, HeadTailProperties, ElementOfSeq DEF Next1
<1>4. /\ Next1(w).src \in TempFiles(w)
      /\ \/ Next1(w).dst = File(op[w].dst)
         \/ op[w].act = "split" /\ Next1(w).dst \in VolumesOf(op[w].dst)
  <2>1. 1 \in 1 .. Len(call[w].todo)
    BY <1>2
  <2>2. /\ call[w].todo[1].src \in TempFiles(w)
        /\ \/ call[w].todo[1].dst = File(op[w].dst)
           \/ op[w].act = "split" /\ call[w].todo[1].dst \in VolumesOf(op[w].dst)
    BY <2>1 DEF MoveInv, MoveOK
  <2>3. QED
    BY <1>3, <2>2
<1>5. op[w].dst \in Stem /\ op[w].dst \in {"arc", "out", "out1", "dir", "dir1"}
  BY DEF Typed, OpsOK, OpRecord, StageInv, StageOK
<1>6. op[w].act = "split" => op[w].dst # "arc"
  BY DEF StageInv, StageOK
<1>7. Next1(w).dst[1] = op[w].dst
  BY <1>4, Owners
<1>8. Next1(w).dst # Bak /\ (Next1(w).dst = Arc <=> op[w].dst = "arc")
  BY <1>4, <1>5, <1>6, <1>7, Owners DEF Arc, Bak
<1>9. ASSUME op[w].dst = "arc"
      PROVE  Next1(w).src = File(w) /\ Len(call[w].todo) = 1
  <2>1. call[w].todo = <<[src |-> File(w), dst |-> Arc]>>
    BY <1>9 DEF MoveInv, MoveOK
  <2>2. QED
    BY <1>3, <2>1
<1>10. \A v \in Writer : Next1(w).dst \notin TempFiles(v) \cup {Work(v)}
  BY <1>5, <1>7, Owners, FileAssumption
<1>11. QED
  BY <1>3, <1>4, <1>8, <1>9, <1>10 DEF Rename

\* The steps of a file call keep the types.
LEMMA CallTyped ==
  ASSUME Typed, StageInv, MoveInv, NEW w \in Writer, FileStep(w)
  PROVE  Typed' /\ Frame(w)
<1>1. op' = op /\ OpsOK' /\ UNCHANGED <<kind, system, folders, crashes>>
  BY DEF FileStep, Rest, Typed, OpsOK
<1>2. call[w] \in CallRecord /\ faults \in 0 .. MaxFaults /\ MaxFaults \in Nat
  BY FileAssumption DEF Typed, CallsOK, RestOK
<1>3. ASSUME MoveDone(w), call[w].at \in Moving, UNCHANGED faults
      PROVE  Typed' /\ Frame(w)
  <2>1. disk' \in Disks
    BY <1>3, NextMove, RenamedType DEF MoveDone, Typed
  <2>2. /\ call[w].todo \in Seq(Rename) /\ call[w].todo # <<>>
        /\ Tail(call[w].todo) \in Seq(Rename)
        /\ Len(call[w].todo) \in Nat \ {0}
        /\ Len(Tail(call[w].todo)) = Len(call[w].todo) - 1
    BY <1>2, <1>3, HeadTailProperties, EmptySeq DEF Typed, CallsOK, CallRecord
  <2>3. CASE Len(call[w].todo) = 1
    <3>1. call' = [call EXCEPT ![w] = [call[w] EXCEPT !.todo = Tail(@), !.at = "done"]]
      BY <1>3, <2>3 DEF MoveDone
    <3>2. [call[w] EXCEPT !.todo = Tail(@), !.at = "done"] \in CallRecord
      BY <1>2, <2>2 DEF CallRecord, CallStages
    <3>3. CallsOK' /\ call' = [call EXCEPT ![w] = call'[w]]
      BY <3>1, <3>2 DEF Typed, CallsOK, Moving, CallRecord
    <3>4. \A v \in Writer \ {w} : \A p \in TempFiles(v) \cup {Work(v)} : disk'[p] = disk[p]
      BY <1>3, NextMove, Disjoint, PathSets DEF MoveDone, Renamed, Typed, Disks
    <3>5. QED
      BY <1>1, <1>2, <1>3, <2>1, <3>3, <3>4 DEF Typed, RestOK, Frame, OpsOK
  <2>4. CASE Len(call[w].todo) # 1
    <3>1. call' = [call EXCEPT ![w] = [call[w] EXCEPT !.todo = Tail(@), !.at = "rename"]]
      BY <1>3, <2>4 DEF MoveDone
    <3>2. [call[w] EXCEPT !.todo = Tail(@), !.at = "rename"] \in CallRecord
      BY <1>2, <2>2 DEF CallRecord, CallStages
    <3>6. Tail(call[w].todo) # <<>>
      <4>1. Len(Tail(call[w].todo)) # 0
        BY <2>2, <2>4
      <4>2. \A s : s = <<>> => Len(s) = 0
        OBVIOUS
      <4>3. QED
        BY <4>1, <4>2
    <3>3. CallsOK' /\ call' = [call EXCEPT ![w] = call'[w]]
      BY <3>1, <3>2, <3>6 DEF Typed, CallsOK, Moving, CallRecord
    <3>4. \A v \in Writer \ {w} : \A p \in TempFiles(v) \cup {Work(v)} : disk'[p] = disk[p]
      BY <1>3, NextMove, Disjoint, PathSets DEF MoveDone, Renamed, Typed, Disks
    <3>5. QED
      BY <1>1, <1>2, <1>3, <2>1, <3>3, <3>4 DEF Typed, RestOK, Frame, OpsOK
  <2>5. QED
    BY <2>3, <2>4
<1>4. ASSUME NEW s \in CallStages, call' = [call EXCEPT ![w].at = s],
             s \in Moving => call[w].at \in Moving
      PROVE  CallsOK' /\ call' = [call EXCEPT ![w] = call'[w]]
  <2>1. call' = [call EXCEPT ![w] = [call[w] EXCEPT !.at = s]]
    BY <1>4
  <2>2. [call[w] EXCEPT !.at = s] \in CallRecord
    BY <1>2, <1>4 DEF CallRecord
  <2>3. QED
    BY <1>4, <2>1, <2>2 DEF Typed, CallsOK, CallRecord
<1>5. CASE RenameOk(w)
  BY <1>3, <1>5 DEF RenameOk, Moving
<1>6. CASE RenameFails(w)
  <2>1. CallsOK' /\ call' = [call EXCEPT ![w] = call'[w]]
    BY <1>4, <1>6 DEF RenameFails, CallStages, Moving
  <2>2. disk' = disk /\ faults' = faults + 1 /\ faults' \in 0 .. MaxFaults
    BY <1>2, <1>6 DEF RenameFails, Fault
  <2>3. QED
    BY <1>1, <2>1, <2>2 DEF Typed, RestOK, Frame, OpsOK
<1>7. CASE UnlinkDestination(w)
  <2>1. CallsOK' /\ call' = [call EXCEPT ![w] = call'[w]]
    BY <1>4, <1>7 DEF UnlinkDestination, CallStages, Moving
  <2>2. disk' \in Disks
    BY <1>7, RemovedType DEF UnlinkDestination, Typed
  <2>3. \A v \in Writer \ {w} : \A p \in TempFiles(v) \cup {Work(v)} : disk'[p] = disk[p]
    <3>1. \A v \in Writer : Next1(w).dst \notin TempFiles(v) \cup {Work(v)}
      BY <1>7, NextMove DEF UnlinkDestination, Moving
    <3>2. QED
      BY <1>7, <3>1, PathSets DEF UnlinkDestination, Removed, Typed, Disks
  <2>4. faults' = faults
    BY <1>7 DEF UnlinkDestination
  <2>5. QED
    BY <1>1, <1>2, <2>1, <2>2, <2>3, <2>4 DEF Typed, RestOK, Frame, OpsOK
<1>8. CASE RetryOk(w)
  BY <1>3, <1>8 DEF RetryOk, Moving
<1>9. CASE RetryFails(w)
  <2>1. CallsOK' /\ call' = [call EXCEPT ![w] = call'[w]]
    BY <1>4, <1>9 DEF RetryFails, CallStages, Moving
  <2>2. disk' = disk /\ faults' \in {faults, faults + 1} /\ faults' \in 0 .. MaxFaults
    BY <1>2, <1>9 DEF RetryFails, Fault
  <2>3. QED
    BY <1>1, <2>1, <2>2 DEF Typed, RestOK, Frame, OpsOK
<1>10. CASE CleanupCall(w)
  <2>1. CallsOK' /\ call' = [call EXCEPT ![w] = call'[w]]
    BY <1>4, <1>10 DEF CleanupCall, CallStages, Moving
  <2>2. disk' \in Disks
    BY <1>10, RemovedType DEF CleanupCall, Typed
  <2>3. \A v \in Writer \ {w} : \A p \in TempFiles(v) \cup {Work(v)} : disk'[p] = disk[p]
    <3>1. PICK mine \in SUBSET TempFiles(w) : disk' = disk \/ disk' = Removed(disk, mine)
      BY <1>10, PathSets DEF CleanupCall
    <3>2. ASSUME NEW v \in Writer \ {w}, NEW p \in TempFiles(v) \cup {Work(v)}
          PROVE  p \notin mine /\ p \in Paths
      BY <3>1, Disjoint, PathSets
    <3>3. QED
      BY <3>1, <3>2 DEF Removed, Typed, Disks
  <2>4. faults' \in {faults, faults + 1} /\ faults' \in 0 .. MaxFaults
    BY <1>2, <1>10 DEF CleanupCall, Fault
  <2>5. QED
    BY <1>1, <1>2, <2>1, <2>2, <2>3, <2>4 DEF Typed, RestOK, Frame, OpsOK
<1>11. QED
  BY <1>5, <1>6, <1>7, <1>8, <1>9, <1>10 DEF FileStep, CallStep

\* Together: a step whose parts keep their types.
LEMMA PartsTyped ==
  ASSUME Typed, NEW w \in Writer, OpsOK', op' = [op EXCEPT ![w] = op'[w]],
         UNCHANGED call \/ (CallsOK' /\ call' = [call EXCEPT ![w] = call'[w]]),
         disk' \in Disks,
         \A v \in Writer \ {w} : \A p \in TempFiles(v) \cup {Work(v)} : disk'[p] = disk[p],
         UNCHANGED faults \/ Fault,
         UNCHANGED <<kind, system, crashes>>, folders' \subseteq SetStem
  PROVE  Typed' /\ Frame(w)
<1>1. CallsOK' /\ call' = [call EXCEPT ![w] = call'[w]]
  BY DEF Typed, CallsOK
<1>2. faults' \in 0 .. MaxFaults /\ faults' \in {faults, faults + 1}
  BY FileAssumption DEF Typed, RestOK, Fault
<1>3. QED
  BY <1>1, <1>2 DEF Typed, RestOK, Frame

\* A step that touches no file.
LEMMA QuietTyped ==
  ASSUME Typed, NEW w \in Writer, OpsOK', op' = [op EXCEPT ![w] = op'[w]], UNCHANGED fileVars,
         UNCHANGED <<kind, system, crashes>>, folders' \subseteq SetStem
  PROVE  Typed' /\ Frame(w)
BY PartsTyped DEF fileVars, Typed

\* A step that changes files of the user or of its own writer.
LEMMA DiskTyped ==
  ASSUME Typed, NEW w \in Writer, OpsOK', op' = [op EXCEPT ![w] = op'[w]], UNCHANGED call,
         disk' \in Disks, UNCHANGED faults \/ Fault, Rest,
         \A p \in Paths \ ({Arc, Bak, Work(w)} \cup TempFiles(w)) : disk'[p] = disk[p]
  PROVE  Typed' /\ Frame(w)
<1>1. ASSUME NEW v \in Writer \ {w}, NEW p \in TempFiles(v) \cup {Work(v)}
      PROVE  p \in Paths \ ({Arc, Bak, Work(w)} \cup TempFiles(w))
  BY Disjoint, PathSets
<1>2. folders' \subseteq SetStem
  BY DEF Typed, RestOK, Rest
<1>3. QED
  BY <1>1, <1>2, PartsTyped DEF Rest

\* An operation that reads the archive changes only its stage and what it has seen.
LEMMA ReadKeeps ==
  ASSUME OpsOK, NEW w \in Writer, NEW s \in Stages, NEW e \in SUBSET Writer,
         op' = [op EXCEPT ![w].seen = e, ![w].at = s]
  PROVE  /\ OpsOK' /\ op' = [op EXCEPT ![w] = op'[w]]
         /\ op'[w] = [op[w] EXCEPT !.seen = e, !.at = s]
<1>1. op[w] \in OpRecord
  BY DEF OpsOK
<1>2. op' = [op EXCEPT ![w] = [op[w] EXCEPT !.seen = e, !.at = s]]
  BY DEF OpsOK
<1>3. [op[w] EXCEPT !.seen = e, !.at = s] \in OpRecord
  BY <1>1 DEF OpRecord
<1>4. op'[w] = [op[w] EXCEPT !.seen = e, !.at = s]
  BY <1>2 DEF OpsOK
<1>5. OpsOK'
  BY <1>1, <1>2, <1>3 DEF OpsOK, OpRecord
<1>6. QED
  BY <1>2, <1>4, <1>5

\* What a compression leaves are temporary files.
LEMMA OutputFacts ==
  ASSUME NEW w \in Writer, NEW out \in Outputs(w)
  PROVE  out \subseteq TempFiles(w) /\ IsFiniteSet(out)
<1>1. CASE out = {File(w)}
  BY <1>1, FS_Singleton DEF TempFiles
<1>2. ASSUME NEW k \in {"num", "part"}, NEW n \in 1 .. MaxVolumes, out = {Volume(w, k, i) : i \in 1 .. n}
      PROVE  out \subseteq TempFiles(w) /\ IsFiniteSet(out)
  <2>1. n \in Nat /\ MaxVolumes \in Nat
    BY FileAssumption
  <2>2. IsFiniteSet(1 .. n)
    BY <2>1, FS_Interval
  <2>3. [i \in 1 .. n |-> Volume(w, k, i)] \in Surjection(1 .. n, out)
    BY <1>2 DEF Surjection
  <2>4. IsFiniteSet(out)
    BY <2>2, <2>3, FS_Surjection
  <2>5. out \subseteq VolumesOf(w)
    BY <1>2, <2>1 DEF VolumesOf
  <2>6. QED
    BY <2>4, <2>5 DEF TempFiles
<1>3. QED
  BY <1>1, <1>2 DEF Outputs

\* An archive that is there has a content, and so a set of edits in it.
LEMMA SeenType == ASSUME Typed, Exists(Arc) PROVE disk[Arc] \in Content /\ disk[Arc].has \in SUBSET Writer
<1>1. disk[Arc] \in Content
  BY PathSets DEF Typed, Disks, Exists
<1>2. QED
  BY <1>1 DEF Content

\* Every other step keeps the types.
LEMMA StepTyped ==
  ASSUME Typed, StageInv, MoveInv, NEW w \in Writer, Step(w)
  PROVE  Typed' /\ Frame(w)
<1> USE DEF At, Running
<1>1. op[w] \in OpRecord /\ OpsOK /\ disk \in Disks /\ folders \subseteq SetStem
  BY DEF Typed, OpsOK, RestOK
<1>2. op[w].seen # Absent => op[w].seen \in SUBSET Writer /\ op[w].seen \cup {w} \in SUBSET Writer
  BY <1>1 DEF OpRecord
<1>3. op[w].at \notin UnreadStages => op[w].seen # Absent
  BY DEF StageInv, StageOK
<1>4. CASE Load(w)
  <2>1. OpsOK' /\ op' = [op EXCEPT ![w] = op'[w]]
    BY <1>1, <1>4, SeenType, ReadKeeps, EndKeeps DEF Load, Stages, Results
  <2>2. QED
    BY <1>1, <1>4, <2>1, QuietTyped DEF Load, Rest, Fail
<1>5. CASE WriteBack(w)
  <2>1. OpsOK' /\ op' = [op EXCEPT ![w] = op'[w]]
    BY <1>1, <1>5, GoToKeeps DEF WriteBack, Stages
  <2>2. /\ Written(w, op[w].seen \cup {w}) \in Content /\ Partial(w) \in Content
        /\ File(w) \in Paths /\ "arc" \in Stem
    BY <1>2, <1>3, <1>5, Contents, PathSets, EditAssumption DEF WriteBack, UnreadStages
  <2>3. disk' \in Disks /\ \A p \in Paths \ {File(w)} : disk'[p] = disk[p]
    BY <1>1, <1>5, <2>2 DEF WriteBack, WriteTemp, Disks
  <2>4. CallsOK' /\ call' = [call EXCEPT ![w] = call'[w]]
    <3>1. PICK r : call' = [call EXCEPT ![w] = r] /\
              \/ r = [at |-> "rename", todo |-> <<[src |-> File(w), dst |-> File("arc")]>>, all |-> FALSE]
              \/ r = [at |-> "cleanup", todo |-> <<>>, all |-> FALSE]
      BY <1>5 DEF WriteBack, WriteTemp
    <3>2. [src |-> File(w), dst |-> File("arc")] \in Rename
      BY <2>2, PathSets DEF Rename
    <3>3. <<[src |-> File(w), dst |-> File("arc")]>> \in Seq(Rename)
          /\ <<[src |-> File(w), dst |-> File("arc")]>> # <<>> /\ <<>> \in Seq(Rename)
      BY <3>2
    <3>4. [at |-> "rename", todo |-> <<[src |-> File(w), dst |-> File("arc")]>>, all |-> FALSE] \in CallRecord
      BY <3>3 DEF CallRecord, CallStages
    <3>6. [at |-> "cleanup", todo |-> <<>>, all |-> FALSE] \in CallRecord
      BY <3>3 DEF CallRecord, CallStages
    <3>7. r \in CallRecord
      BY <3>1, <3>4, <3>6
    <3>8. r.at \in Moving => r.todo # <<>>
      BY <3>1, <3>3 DEF Moving
    <3>5. QED
      BY <3>1, <3>7, <3>8 DEF Typed, CallsOK
  <2>5. \A v \in Writer \ {w} : \A p \in TempFiles(v) \cup {Work(v)} : disk'[p] = disk[p]
    <3>1. ASSUME NEW v \in Writer \ {w}, NEW p \in TempFiles(v) \cup {Work(v)}
          PROVE  p \in Paths \ {File(w)}
      BY Disjoint, PathSets
    <3>2. QED
      BY <2>3, <3>1
  <2>6. (UNCHANGED faults \/ Fault) /\ Rest
    BY <1>5 DEF WriteBack, WriteTemp
  <2>7. UNCHANGED <<kind, system, crashes>> /\ folders' \subseteq SetStem
    BY <1>1, <2>6 DEF Rest
  <2>8. QED
    BY <2>1, <2>3, <2>4, <2>5, <2>6, <2>7, PartsTyped
<1>6. CASE MainFails(w)
  <2>1. OpsOK' /\ op' = [op EXCEPT ![w] = op'[w]]
    BY <1>1, <1>6, EndKeeps DEF MainFails, Fail, Results
  <2>2. QED
    BY <1>1, <1>6, <2>1, QuietTyped DEF MainFails, Fail, Rest, Fail
<1>7. CASE CallReturns(w)
  <2>1. PICK res \in Results : End(w, res)
    BY <1>7 DEF CallReturns, Results
  <2>2. OpsOK' /\ op' = [op EXCEPT ![w] = op'[w]]
    BY <1>1, <2>1, EndKeeps
  <2>3. QED
    BY <1>1, <1>7, <2>2, QuietTyped DEF CallReturns, Rest
<1>8. CASE NativeReads(w)
  <2> DEFINE e == IF Exists(Arc) THEN disk[Arc].has ELSE {}
  <2>3. e \in SUBSET Writer
    BY <1>1, SeenType
  <2>4. op' = [op EXCEPT ![w].seen = e, ![w].at = "child"]
    BY <1>8 DEF NativeReads
  <2> HIDE DEF e
  <2>1. OpsOK' /\ op' = [op EXCEPT ![w] = op'[w]]
    BY <1>1, <2>3, <2>4, ReadKeeps DEF Stages
  <2>2. QED
    BY <1>1, <1>8, <2>1, QuietTyped DEF NativeReads, Rest, Fail
<1>9. CASE NativeApplies(w)
  <2>1. OpsOK' /\ op' = [op EXCEPT ![w] = op'[w]]
    BY <1>1, <1>9, GoToKeeps DEF NativeApplies, Stages, SwapStages
  <2>2. disk' \in Disks
    BY <1>1, <1>2, <1>3, <1>9, Contents, PathSets DEF NativeApplies, UnreadStages, Disks, SwapStages
  <2>3. \A p \in Paths \ ({Arc, Bak, Work(w)} \cup TempFiles(w)) : disk'[p] = disk[p]
    BY <1>1, <1>9 DEF NativeApplies, Disks, Removed, Renamed
  <2>4. (UNCHANGED faults \/ Fault) /\ Rest /\ UNCHANGED call
    BY <1>9 DEF NativeApplies
  <2>5. QED
    BY <2>1, <2>2, <2>3, <2>4, DiskTyped
<1>10. CASE NativeAborts(w)
  <2>1. OpsOK' /\ op' = [op EXCEPT ![w] = op'[w]]
    BY <1>1, <1>10, GoToKeeps DEF NativeAborts, Stages, SwapStages
  <2>2. QED
    BY <1>1, <1>10, <2>1, QuietTyped DEF NativeAborts, Rest, Fail
<1>11. CASE NativeReturns(w)
  <2>1. OpsOK' /\ op' = [op EXCEPT ![w] = op'[w]]
    BY <1>1, <1>11, EndKeeps DEF NativeReturns, Results
  <2>2. QED
    BY <1>1, <1>11, <2>1, QuietTyped DEF NativeReturns, Rest, Fail
<1>12. CASE BindingBegins(w)
  <2>1. OpsOK' /\ op' = [op EXCEPT ![w] = op'[w]]
    BY <1>1, <1>12, SeenType, ReadKeeps DEF BindingBegins, Stages
  <2>2. disk' \in Disks
    <3>1. disk[Arc] \in Content
      BY <1>12, SeenType DEF BindingBegins
    <3>2. [disk[Arc] EXCEPT !.whole = FALSE, !.by = w] \in Content
      BY <3>1 DEF Content
    <3>3. disk' = [disk EXCEPT ![Arc] = [disk[Arc] EXCEPT !.whole = FALSE, !.by = w]]
      BY <1>1, <1>12, PathSets DEF BindingBegins, Disks
    <3>4. QED
      BY <1>1, <3>2, <3>3 DEF Disks
  <2>3. \A p \in Paths \ ({Arc, Bak, Work(w)} \cup TempFiles(w)) : disk'[p] = disk[p]
    BY <1>1, <1>12 DEF BindingBegins, Disks, Removed, Renamed
  <2>4. (UNCHANGED faults \/ Fault) /\ Rest /\ UNCHANGED call
    BY <1>12 DEF BindingBegins
  <2>5. QED
    BY <2>1, <2>2, <2>3, <2>4, DiskTyped
<1>13. CASE BindingEnds(w)
  <2>1. OpsOK' /\ op' = [op EXCEPT ![w] = op'[w]]
    BY <1>1, <1>13, EndKeeps DEF BindingEnds, Opened, Results
  <2>2. disk' \in Disks
    BY <1>1, <1>2, <1>3, <1>13, Contents, PathSets DEF BindingEnds, UnreadStages, Disks, SwapStages
  <2>3. \A p \in Paths \ ({Arc, Bak, Work(w)} \cup TempFiles(w)) : disk'[p] = disk[p]
    BY <1>1, <1>13 DEF BindingEnds, Opened, Disks, Removed, Renamed
  <2>4. (UNCHANGED faults \/ Fault) /\ Rest /\ UNCHANGED call
    BY <1>13 DEF BindingEnds, Opened
  <2>5. QED
    BY <2>1, <2>2, <2>3, <2>4, DiskTyped
<1>14. CASE BindingBreaks(w)
  <2>1. OpsOK' /\ op' = [op EXCEPT ![w] = op'[w]]
    BY <1>1, <1>14, GoToKeeps DEF BindingBreaks, Stages
  <2>2. (UNCHANGED faults \/ Fault) /\ Rest /\ UNCHANGED call /\ UNCHANGED disk
    BY <1>14 DEF BindingBreaks
  <2>3. QED
    BY <1>1, <2>1, <2>2, DiskTyped
<1>15. CASE BindingRefuses(w)
  <2>1. OpsOK' /\ op' = [op EXCEPT ![w] = op'[w]]
    BY <1>1, <1>15, GoToKeeps, EndKeeps DEF BindingRefuses, Stages, SwapStages, Results
  <2>2. QED
    BY <1>1, <1>15, <2>1, QuietTyped DEF BindingRefuses, Rest, Fail
<1>16. CASE RebuildStarts(w)
  <2>1. OpsOK' /\ op' = [op EXCEPT ![w] = op'[w]]
    BY <1>1, <1>16, GoToKeeps, EndKeeps DEF RebuildStarts, Stages, SwapStages, Results
  <2>2. QED
    BY <1>1, <1>16, <2>1, QuietTyped DEF RebuildStarts, Rest, Fail
<1>17. CASE Extract(w)
  <2>1. OpsOK' /\ op' = [op EXCEPT ![w] = op'[w]]
    BY <1>1, <1>17, SeenType, ReadKeeps DEF Extract, Stages
  <2>2. QED
    BY <1>1, <1>17, <2>1, QuietTyped DEF Extract, Rest, Fail
<1>18. CASE RebuildFails(w)
  <2>1. OpsOK' /\ op' = [op EXCEPT ![w] = op'[w]]
    BY <1>1, <1>18, EndKeeps DEF RebuildFails, Leave, Results
  <2>2. disk' \in Disks
    BY <1>1, <1>18, RemovedType, RenamedType, PathSets DEF RebuildFails, Leave
  <2>3. \A p \in Paths \ ({Arc, Bak, Work(w)} \cup TempFiles(w)) : disk'[p] = disk[p]
    BY <1>1, <1>18 DEF RebuildFails, Leave, Disks, Removed, Renamed
  <2>4. (UNCHANGED faults \/ Fault) /\ Rest /\ UNCHANGED call
    BY <1>18 DEF RebuildFails, Leave
  <2>5. QED
    BY <2>1, <2>2, <2>3, <2>4, DiskTyped
<1>19. CASE EraseArchive(w)
  <2>1. OpsOK' /\ op' = [op EXCEPT ![w] = op'[w]]
    BY <1>1, <1>19, EndKeeps DEF EraseArchive, Leave, Results
  <2>2. disk' \in Disks
    BY <1>1, <1>19, RemovedType, RenamedType, PathSets DEF EraseArchive, Leave
  <2>3. \A p \in Paths \ ({Arc, Bak, Work(w)} \cup TempFiles(w)) : disk'[p] = disk[p]
    BY <1>1, <1>19 DEF EraseArchive, Leave, Disks, Removed, Renamed
  <2>4. (UNCHANGED faults \/ Fault) /\ Rest /\ UNCHANGED call
    BY <1>19 DEF EraseArchive, Leave
  <2>5. QED
    BY <2>1, <2>2, <2>3, <2>4, DiskTyped
<1>20. CASE Mutate(w)
  <2>1. OpsOK' /\ op' = [op EXCEPT ![w] = op'[w]]
    BY <1>1, <1>20, GoToKeeps DEF Mutate, Stages, SwapStages
  <2>2. QED
    BY <1>1, <1>20, <2>1, QuietTyped DEF Mutate, Rest, Fail
<1>21. CASE Compressed(w)
  <2>1. OpsOK' /\ op' = [op EXCEPT ![w] = op'[w]]
    BY <1>1, <1>21, GoToKeeps DEF Compressed, Stages, SwapStages
  <2>2. disk' \in Disks
    BY <1>1, <1>2, <1>3, <1>21, Contents, PathSets DEF Compressed, UnreadStages, Disks, SwapStages
  <2>3. \A p \in Paths \ ({Arc, Bak, Work(w)} \cup TempFiles(w)) : disk'[p] = disk[p]
    BY <1>1, <1>21 DEF Compressed, Disks, Removed, Renamed
  <2>4. (UNCHANGED faults \/ Fault) /\ Rest /\ UNCHANGED call
    BY <1>21 DEF Compressed
  <2>5. QED
    BY <2>1, <2>2, <2>3, <2>4, DiskTyped
<1>22. CASE DropOldBackup(w)
  <2>1. OpsOK' /\ op' = [op EXCEPT ![w] = op'[w]]
    BY <1>1, <1>22, GoToKeeps, EndKeeps DEF DropOldBackup, SwapStep, Leave, Stages, SwapStages, Results
  <2>2. disk' \in Disks
    BY <1>1, <1>22, RemovedType, RenamedType, PathSets DEF DropOldBackup, SwapStep, Leave
  <2>3. \A p \in Paths \ ({Arc, Bak, Work(w)} \cup TempFiles(w)) : disk'[p] = disk[p]
    BY <1>1, <1>22 DEF DropOldBackup, SwapStep, Leave, Disks, Removed, Renamed
  <2>4. (UNCHANGED faults \/ Fault) /\ Rest /\ UNCHANGED call
    BY <1>22 DEF DropOldBackup, SwapStep, Leave
  <2>5. QED
    BY <2>1, <2>2, <2>3, <2>4, DiskTyped
<1>23. CASE BackUp(w)
  <2>1. OpsOK' /\ op' = [op EXCEPT ![w] = op'[w]]
    BY <1>1, <1>23, GoToKeeps, EndKeeps DEF BackUp, SwapStep, Leave, Stages, SwapStages, Results
  <2>2. disk' \in Disks
    BY <1>1, <1>23, RemovedType, RenamedType, PathSets DEF BackUp, SwapStep, Leave
  <2>3. \A p \in Paths \ ({Arc, Bak, Work(w)} \cup TempFiles(w)) : disk'[p] = disk[p]
    BY <1>1, <1>23 DEF BackUp, SwapStep, Leave, Disks, Removed, Renamed
  <2>4. (UNCHANGED faults \/ Fault) /\ Rest /\ UNCHANGED call
    BY <1>23 DEF BackUp, SwapStep, Leave
  <2>5. QED
    BY <2>1, <2>2, <2>3, <2>4, DiskTyped
<1>24. CASE Install(w)
  <2>1. OpsOK' /\ op' = [op EXCEPT ![w] = op'[w]]
    BY <1>1, <1>24, GoToKeeps, EndKeeps DEF Install, SwapStep, Leave, Stages, SwapStages, Results
  <2>2. disk' \in Disks
    BY <1>1, <1>24, RemovedType, RenamedType, PathSets DEF Install, SwapStep, Leave
  <2>3. \A p \in Paths \ ({Arc, Bak, Work(w)} \cup TempFiles(w)) : disk'[p] = disk[p]
    BY <1>1, <1>24 DEF Install, SwapStep, Leave, Disks, Removed, Renamed
  <2>4. (UNCHANGED faults \/ Fault) /\ Rest /\ UNCHANGED call
    BY <1>24 DEF Install, SwapStep, Leave
  <2>5. QED
    BY <2>1, <2>2, <2>3, <2>4, DiskTyped
<1>25. CASE DropBackup(w)
  <2>1. OpsOK' /\ op' = [op EXCEPT ![w] = op'[w]]
    BY <1>1, <1>25, GoToKeeps, EndKeeps DEF DropBackup, Leave, Stages, SwapStages, Results
  <2>2. disk' \in Disks
    BY <1>1, <1>25, RemovedType, RenamedType, PathSets DEF DropBackup, Leave
  <2>3. \A p \in Paths \ ({Arc, Bak, Work(w)} \cup TempFiles(w)) : disk'[p] = disk[p]
    BY <1>1, <1>25 DEF DropBackup, Leave, Disks, Removed, Renamed
  <2>4. (UNCHANGED faults \/ Fault) /\ Rest /\ UNCHANGED call
    BY <1>25 DEF DropBackup, Leave
  <2>5. QED
    BY <2>1, <2>2, <2>3, <2>4, DiskTyped
<1>26. CASE Restore(w)
  <2>1. OpsOK' /\ op' = [op EXCEPT ![w] = op'[w]]
    BY <1>1, <1>26, EndKeeps DEF Restore, Leave, Results
  <2>2. disk' \in Disks
    BY <1>1, <1>26, RemovedType, RenamedType, PathSets DEF Restore, Leave
  <2>3. \A p \in Paths \ ({Arc, Bak, Work(w)} \cup TempFiles(w)) : disk'[p] = disk[p]
    BY <1>1, <1>26 DEF Restore, Leave, Disks, Removed, Renamed
  <2>4. (UNCHANGED faults \/ Fault) /\ Rest /\ UNCHANGED call
    BY <1>26 DEF Restore, Leave
  <2>5. QED
    BY <2>1, <2>2, <2>3, <2>4, DiskTyped
<1>27. CASE Unpack(w)
  <2>1. OpsOK' /\ op' = [op EXCEPT ![w] = op'[w]]
    BY <1>1, <1>27, SeenType, ReadKeeps, EndKeeps DEF Unpack, Stages, Results
  <2>2. folders' \subseteq SetStem
    BY <1>1, <1>27 DEF Unpack, Typed, OpsOK
  <2>3. QED
    BY <1>1, <1>27, <2>1, <2>2, QuietTyped DEF Unpack
<1>28. CASE Pack(w)
  <2>1. PICK out \in Outputs(w) :
          \/ /\ disk' = [p \in Paths |-> IF p \in out THEN Written(w, op[w].seen) ELSE disk[p]]
             /\ op' = [op EXCEPT ![w].at = "publish", ![w].wrote = Cardinality(out)]
          \/ /\ \E left \in SUBSET out :
                  disk' = [p \in Paths |-> IF p \in left THEN Partial(w) ELSE disk[p]]
             /\ GoTo(w, "discard")
    BY <1>28 DEF Pack
  <2>2. out \subseteq TempFiles(w) /\ IsFiniteSet(out)
    BY OutputFacts
  <2>3. Cardinality(out) \in Nat
    BY <2>2, FS_CardinalityType
  <2>4. OpsOK' /\ op' = [op EXCEPT ![w] = op'[w]]
    <3>1. CASE GoTo(w, "discard")
      BY <1>1, <3>1, GoToKeeps DEF Stages
    <3>2. CASE op' = [op EXCEPT ![w].at = "publish", ![w].wrote = Cardinality(out)]
      <4>1. op' = [op EXCEPT ![w] = [op[w] EXCEPT !.at = "publish", !.wrote = Cardinality(out)]]
        BY <1>1, <3>2 DEF OpsOK
      <4>2. [op[w] EXCEPT !.at = "publish", !.wrote = Cardinality(out)] \in OpRecord
        BY <1>1, <2>3 DEF OpRecord, Stages
      <4>3. QED
        BY <1>1, <4>1, <4>2 DEF OpsOK, OpRecord
    <3>3. QED
      BY <2>1, <3>1, <3>2
  <2>5. disk' \in Disks
    BY <1>1, <1>2, <1>3, <1>28, <2>1, Contents DEF Pack, UnreadStages, Disks
  <2>6. \A p \in Paths \ ({Arc, Bak, Work(w)} \cup TempFiles(w)) : disk'[p] = disk[p]
    BY <2>1, <2>2
  <2>7. QED
    BY <1>28, <2>4, <2>5, <2>6, DiskTyped DEF Pack
<1>29. CASE PublishOutput(w)
  <2>1. PICK list \in Listings(w) : call' = [call EXCEPT ![w] =
          [at |-> "rename", todo |-> Moves(w, op[w].dst, op[w].act = "split", list), all |-> TRUE]]
    BY <1>29 DEF PublishOutput, Publish
  <2>2. op[w].dst \in Stem /\ (op[w].act = "split" => op[w].dst \in SetStem)
    BY <1>1 DEF OpsOK, OpRecord
  <2>3. /\ Moves(w, op[w].dst, op[w].act = "split", list) \in Seq(Rename)
        /\ Moves(w, op[w].dst, op[w].act = "split", list) # <<>>
    BY <2>2, MovesFacts
  <2>4. CallsOK' /\ call' = [call EXCEPT ![w] = call'[w]]
    BY <2>1, <2>3 DEF Typed, CallsOK, CallRecord, CallStages
  <2>5. OpsOK' /\ op' = [op EXCEPT ![w] = op'[w]]
    BY <1>1, <1>29 DEF PublishOutput, OpsOK
  <2>6. QED
    BY <1>1, <1>29, <2>4, <2>5, PartsTyped DEF PublishOutput, Publish, Rest
<1>30. CASE DiscardOutput(w)
  <2>1. call' = [call EXCEPT ![w] = [at |-> "cleanup", todo |-> <<>>, all |-> TRUE]]
    BY <1>30 DEF DiscardOutput, Discard
  <2>2. [at |-> "cleanup", todo |-> <<>>, all |-> TRUE] \in CallRecord
    BY DEF CallRecord, CallStages
  <2>3. CallsOK' /\ call' = [call EXCEPT ![w] = call'[w]]
    BY <2>1, <2>2 DEF Typed, CallsOK, Moving
  <2>4. OpsOK' /\ op' = [op EXCEPT ![w] = op'[w]]
    BY <1>1, <1>30 DEF DiscardOutput, OpsOK
  <2>5. QED
    BY <1>1, <1>30, <2>3, <2>4, PartsTyped DEF DiscardOutput, Discard, Rest
<1>31. CASE FileStep(w)
  BY <1>31, CallTyped
<1>32. QED
  BY <1>4, <1>5, <1>6, <1>7, <1>8, <1>9, <1>10, <1>11, <1>12, <1>13, <1>14, <1>15, <1>16, <1>17, <1>18, <1>19, <1>20, <1>21, <1>22, <1>23, <1>24, <1>25, <1>26, <1>27, <1>28, <1>29, <1>30, <1>31 DEF Step

\* An operation that starts, or is cancelled.
LEMMA StartEffect ==
  ASSUME Typed, StageInv, NEW w \in Writer, NEW act \in Acts[w], Start(w, act)
  PROVE  /\ Typed' /\ Frame(w) /\ UNCHANGED fileVars /\ HostFree
         /\ act \in Mutations \cup Conversions
         /\ op[w].act = "none" /\ op[w].at = "new" /\ op[w].res = "none" /\ op[w].seen = Absent
         /\ op'[w].act = act /\ op'[w].at = FirstStage(act) /\ op'[w].dst = Destination(act)
         /\ op'[w].res = "none" /\ op'[w].seen = Absent
         /\ FirstStage(act) \in {"unpack", "load", "native", "binding", "rebuild"}
<1>1. op[w] \in OpRecord /\ OpsOK /\ act \in Mutations \cup Conversions /\ folders \subseteq SetStem
  BY EditAssumption DEF Typed, OpsOK, RestOK
<1>2. FirstStage(act) \in {"unpack", "load", "native", "binding", "rebuild"}
  BY DEF FirstStage, Engine
<1>3. /\ Destination(act) \in {"arc", "out", "out1", "dir", "dir1"}
      /\ act = "split" => Destination(act) \in {"dir", "dir1"}
  BY DEF Destination
<1>4. Destination(act) \in Stem /\ (act = "split" => Destination(act) \in SetStem)
  BY <1>3, EditAssumption
<1>5. op' = [op EXCEPT ![w] = [op[w] EXCEPT !.act = act, !.at = FirstStage(act), !.dst = Destination(act)]]
  BY DEF Start
<1>6. [op[w] EXCEPT !.act = act, !.at = FirstStage(act), !.dst = Destination(act)] \in OpRecord
  BY <1>1, <1>2, <1>4 DEF OpRecord, Stages
<1>7. op'[w] = [op[w] EXCEPT !.act = act, !.at = FirstStage(act), !.dst = Destination(act)]
  BY <1>1, <1>5 DEF OpsOK
<1>8. OpsOK' /\ op' = [op EXCEPT ![w] = op'[w]]
  BY <1>1, <1>4, <1>5, <1>6, <1>7 DEF OpsOK, OpRecord
<1>9. Typed' /\ Frame(w)
  BY <1>1, <1>8, QuietTyped DEF Start, Rest
<1>10. op[w].act = "none" /\ op[w].at = "new" /\ op[w].res = "none" /\ op[w].seen = Absent
  BY DEF Start, StageInv, StageOK
<1>11. /\ op'[w].act = act /\ op'[w].at = FirstStage(act) /\ op'[w].dst = Destination(act)
       /\ op'[w].res = op[w].res /\ op'[w].seen = op[w].seen
  BY <1>1, <1>7 DEF OpRecord
<1>12. UNCHANGED fileVars /\ HostFree
  BY DEF Start
<1>13. QED
  BY <1>1, <1>2, <1>9, <1>10, <1>11, <1>12

\* A cancel marks one conversion and touches neither a file nor where the operation
\* is.
LEMMA CancelEffect ==
  ASSUME Typed, NEW w \in Writer, Cancel(w)
  PROVE  /\ Typed' /\ Frame(w) /\ UNCHANGED fileVars
         /\ op'[w].act = op[w].act /\ op'[w].at = op[w].at /\ op'[w].dst = op[w].dst
         /\ op'[w].res = op[w].res /\ op'[w].seen = op[w].seen
         /\ op[w].act \in Conversions
<1>1. op[w] \in OpRecord /\ OpsOK /\ folders \subseteq SetStem
  BY DEF Typed, OpsOK, RestOK
<1>2. op' = [op EXCEPT ![w] = [op[w] EXCEPT !.cancel = TRUE]]
  BY DEF Cancel
<1>3. [op[w] EXCEPT !.cancel = TRUE] \in OpRecord
  BY <1>1 DEF OpRecord
<1>4. op'[w] = [op[w] EXCEPT !.cancel = TRUE]
  BY <1>1, <1>2 DEF OpsOK
<1>5. OpsOK' /\ op' = [op EXCEPT ![w] = op'[w]]
  BY <1>1, <1>2, <1>3, <1>4 DEF OpsOK, OpRecord
<1>6. Typed' /\ Frame(w)
  BY <1>1, <1>5, QuietTyped DEF Cancel, Rest
<1>7. QED
  BY <1>1, <1>4, <1>6 DEF Cancel, OpRecord

\* A crash stops every operation that runs and leaves the files as they are.
LEMMA CrashEffect ==
  ASSUME Typed, Crash
  PROVE  /\ Typed' /\ UNCHANGED <<disk, faults, kind, system>>
         /\ \A w \in Writer :
              /\ op'[w].act = op[w].act /\ op'[w].at = op[w].at /\ op'[w].dst = op[w].dst
              /\ op'[w].seen = op[w].seen /\ call'[w].at = "idle"
              /\ op'[w].res = IF Running(w) THEN "crashed" ELSE op[w].res
<1>1. ASSUME NEW w \in Writer
      PROVE  /\ op'[w] \in OpRecord /\ op'[w].act = op[w].act /\ op'[w].at = op[w].at
             /\ op'[w].dst = op[w].dst /\ op'[w].seen = op[w].seen
             /\ op'[w].res = IF Running(w) THEN "crashed" ELSE op[w].res
  <2>1. op[w] \in OpRecord
    BY DEF Typed, OpsOK
  <2>2. op'[w] = IF Running(w) THEN [op[w] EXCEPT !.res = "crashed"] ELSE op[w]
    BY DEF Crash
  <2>3. [op[w] EXCEPT !.res = "crashed"] \in OpRecord
    BY <2>1 DEF OpRecord, Results
  <2>4. QED
    BY <2>1, <2>2, <2>3 DEF OpRecord
<1>2. OpsOK'
  <2>1. op' = [w \in Writer |-> op'[w]]
    BY DEF Crash
  <2>2. op' \in [Writer -> OpRecord]
    BY <1>1, <2>1
  <2>3. QED
    BY <1>1, <2>2 DEF Typed, OpsOK
<1>3. call' = [w \in Writer |-> Idle]
  BY DEF Crash
<1>4. Idle \in CallRecord /\ Idle.at = "idle"
  BY DEF Idle, CallRecord, CallStages
<1>5. CallsOK' /\ \A w \in Writer : call'[w].at = "idle"
  BY <1>3, <1>4 DEF CallsOK, Moving
<1>6. RestOK'
  BY EditAssumption DEF Typed, RestOK, Crash
<1>7. QED
  BY <1>1, <1>2, <1>5, <1>6 DEF Crash, Typed

\* Steps, with what each does to its operation's record.
NextBy(w) == Cancel(w) \/ Step(w) \/ \E act \in Acts[w] : Start(w, act)

\* A step is a crash or a step of one operation.
LEMMA NextIsBy == Next <=> Crash \/ \E w \in Writer : NextBy(w)
BY DEF Next, NextBy

\* The step of one operation keeps the types and leaves the records of the others
\* alone.
LEMMA NextByTyped ==
  ASSUME Typed, StageInv, MoveInv, NEW w \in Writer, NextBy(w)
  PROVE  Typed' /\ Frame(w)
BY StartEffect, CancelEffect, StepTyped DEF NextBy

\* What one step does to the record of its operation: nothing, an end, a move along
\* the pipeline, or a read of the archive.
Endings == {"ok", "failed", "cancelled"}
Ends(w) ==
  /\ Running(w) /\ op'[w].res \in Endings
  /\ op'[w].act = op[w].act /\ op'[w].at = op[w].at
  /\ op'[w].dst = op[w].dst /\ op'[w].seen = op[w].seen
Goes(w, s, t) ==
  /\ At(w, s) /\ op'[w].at = t /\ op'[w].res = "none"
  /\ op'[w].act = op[w].act /\ op'[w].dst = op[w].dst /\ op'[w].seen = op[w].seen
Reads(w, s, t) ==
  /\ At(w, s) /\ op'[w].at = t /\ op'[w].res = "none" /\ op'[w].seen \in SUBSET Writer
  /\ op'[w].seen = IF Exists(Arc) THEN disk[Arc].has ELSE {}
  /\ s # "native" => Exists(Arc)
  /\ op'[w].act = op[w].act /\ op'[w].dst = op[w].dst

\* End is an end, in the terms of Shape.
LEMMA EndShape ==
  ASSUME Typed, NEW w \in Writer, Running(w), NEW res \in Endings, End(w, res)
  PROVE  Ends(w)
<1>1. op[w] \in OpRecord /\ op'[w] = [op[w] EXCEPT !.res = res]
  BY EndKeeps DEF Typed, OpsOK, Endings, Results
<1>2. QED
  BY <1>1 DEF Ends, Endings, OpRecord

\* GoTo is a move along the pipeline.
LEMMA GoToShape ==
  ASSUME Typed, NEW w \in Writer, NEW s, At(w, s), NEW t \in Stages, GoTo(w, t)
  PROVE  Goes(w, s, t)
<1>1. op[w] \in OpRecord /\ op'[w] = [op[w] EXCEPT !.at = t]
  BY GoToKeeps DEF Typed, OpsOK
<1>2. QED
  BY <1>1 DEF Goes, OpRecord, At, Running

\* Loading the archive and moving on is a read.
LEMMA ReadShape ==
  ASSUME Typed, NEW w \in Writer, NEW s, At(w, s), NEW t \in Stages, NEW e \in SUBSET Writer,
         op' = [op EXCEPT ![w].seen = e, ![w].at = t], e = IF Exists(Arc) THEN disk[Arc].has ELSE {},
         s # "native" => Exists(Arc)
  PROVE  Reads(w, s, t)
<1>1. op[w] \in OpRecord /\ op'[w] = [op[w] EXCEPT !.seen = e, !.at = t]
  BY ReadKeeps DEF Typed, OpsOK
<1>2. ASSUME NEW r \in OpRecord
      PROVE  LET q == [r EXCEPT !.seen = e, !.at = t]
             IN  q.seen = e /\ q.at = t /\ q.act = r.act /\ q.dst = r.dst /\ q.res = r.res
  BY DEF OpRecord
<1>3. QED
  BY <1>1, <1>2 DEF Reads, At, Running

\* The pipelines.
Shape(w) ==
  \/ op' = op
  \/ Ends(w)
  \/ Reads(w, "load", "main") \/ Goes(w, "main", "write")
  \/ Reads(w, "native", "child") \/ Goes(w, "child", "exited") \/ Goes(w, "child", "aborted")
  \/ Reads(w, "binding", "inplace") \/ Goes(w, "inplace", "rebuild") \/ Goes(w, "binding", "rebuild")
  \/ Goes(w, "rebuild", "extract") \/ Reads(w, "extract", "mutate")
  \/ Goes(w, "mutate", "compress") \/ Goes(w, "compress", "swap") \/ Goes(w, "swap", "backup")
  \/ Goes(w, "backup", "install") \/ Goes(w, "install", "drop") \/ Goes(w, "install", "restore")
  \/ Goes(w, "drop", "restore")
  \/ Reads(w, "unpack", "pack") \/ Goes(w, "pack", "publish") \/ Goes(w, "pack", "discard")

\* Every action of a running operation is one of these.
LEMMA StepShape ==
  ASSUME Typed, StageInv, MoveInv, NEW w \in Writer, Step(w)
  PROVE  Shape(w)
<1>1. "failed" \in Endings /\ "ok" \in Endings /\ "cancelled" \in Endings
  BY DEF Endings
<1>2. "main" \in Stages /\ "write" \in Stages /\ "child" \in Stages /\ "exited" \in Stages /\ "aborted" \in Stages /\ "inplace" \in Stages /\ "rebuild" \in Stages /\ "extract" \in Stages /\ "mutate" \in Stages
      /\ "compress" \in Stages /\ "swap" \in Stages /\ "backup" \in Stages /\ "install" \in Stages /\ "drop" \in Stages /\ "restore" \in Stages /\ "pack" \in Stages /\ "publish" \in Stages /\ "discard" \in Stages
  BY DEF Stages, SwapStages
<1>3. CASE Load(w)
  BY <1>1, <1>2, <1>3, SeenType, ReadShape, EndShape DEF Load, Shape, At
<1>4. CASE WriteBack(w)
  BY <1>1, <1>2, <1>4, GoToShape DEF WriteBack, Shape, At
<1>5. CASE MainFails(w)
  BY <1>1, <1>2, <1>5, EndShape DEF MainFails, Fail, Shape, At
<1>6. CASE CallReturns(w)
  <2>1. PICK res \in Endings : End(w, res)
    BY <1>1, <1>6 DEF CallReturns
  <2>2. QED
    BY <1>6, <2>1, EndShape DEF CallReturns, Shape
<1>7. CASE NativeReads(w)
  <2> DEFINE e == IF Exists(Arc) THEN disk[Arc].has ELSE {}
  <2>1. e \in SUBSET Writer
    BY SeenType
  <2>2. op' = [op EXCEPT ![w].seen = e, ![w].at = "child"] /\ At(w, "native")
    BY <1>7 DEF NativeReads
  <2>5. e = IF Exists(Arc) THEN disk[Arc].has ELSE {}
    OBVIOUS
  <2> HIDE DEF e
  <2>3. Reads(w, "native", "child")
    BY <1>2, <2>1, <2>2, <2>5, ReadShape
  <2>4. QED
    BY <2>3 DEF Shape
<1>8. CASE NativeApplies(w)
  BY <1>1, <1>2, <1>8, GoToShape DEF NativeApplies, Shape, At
<1>9. CASE NativeAborts(w)
  BY <1>1, <1>2, <1>9, GoToShape DEF NativeAborts, Shape, At
<1>10. CASE NativeReturns(w)
  BY <1>1, <1>2, <1>10, EndShape DEF NativeReturns, Shape, At
<1>11. CASE BindingBegins(w)
  BY <1>1, <1>2, <1>11, SeenType, ReadShape DEF BindingBegins, Shape, At
<1>12. CASE BindingEnds(w)
  BY <1>1, <1>2, <1>12, EndShape DEF BindingEnds, Shape, At
<1>13. CASE BindingBreaks(w)
  BY <1>1, <1>2, <1>13, GoToShape DEF BindingBreaks, Shape, At
<1>14. CASE BindingRefuses(w)
  BY <1>1, <1>2, <1>14, GoToShape, EndShape DEF BindingRefuses, Shape, At
<1>15. CASE RebuildStarts(w)
  BY <1>1, <1>2, <1>15, GoToShape, EndShape DEF RebuildStarts, Shape, At
<1>16. CASE Extract(w)
  BY <1>1, <1>2, <1>16, SeenType, ReadShape DEF Extract, Shape, At
<1>17. CASE RebuildFails(w)
  BY <1>1, <1>2, <1>17, EndShape DEF RebuildFails, Leave, Shape, At
<1>18. CASE EraseArchive(w)
  BY <1>1, <1>2, <1>18, EndShape DEF EraseArchive, Leave, Shape, At
<1>19. CASE Mutate(w)
  BY <1>1, <1>2, <1>19, GoToShape DEF Mutate, Shape, At
<1>20. CASE Compressed(w)
  BY <1>1, <1>2, <1>20, GoToShape DEF Compressed, Shape, At
<1>21. CASE DropOldBackup(w)
  BY <1>1, <1>2, <1>21, GoToShape, EndShape DEF DropOldBackup, SwapStep, Leave, Shape, At
<1>22. CASE BackUp(w)
  BY <1>1, <1>2, <1>22, GoToShape, EndShape DEF BackUp, SwapStep, Leave, Shape, At
<1>23. CASE Install(w)
  BY <1>1, <1>2, <1>23, GoToShape DEF Install, SwapStep, Leave, Shape, At
<1>24. CASE DropBackup(w)
  BY <1>1, <1>2, <1>24, GoToShape, EndShape DEF DropBackup, Leave, Shape, At
<1>25. CASE Restore(w)
  BY <1>1, <1>2, <1>25, EndShape DEF Restore, Leave, Shape, At
<1>26. CASE Unpack(w)
  BY <1>1, <1>2, <1>26, SeenType, ReadShape, EndShape DEF Unpack, Shape, At
<1>27. CASE Pack(w)
  <2>1. CASE GoTo(w, "discard")
    BY <1>2, <1>27, <2>1, GoToShape DEF Pack, Shape
  <2>2. CASE \E out \in Outputs(w) : op' = [op EXCEPT ![w].at = "publish", ![w].wrote = Cardinality(out)]
    <3>1. PICK c : op' = [op EXCEPT ![w].at = "publish", ![w].wrote = c]
      BY <2>2
    <3>2. op[w] \in OpRecord /\ op'[w] = [op[w] EXCEPT !.at = "publish", !.wrote = c]
      BY <3>1 DEF Typed, OpsOK
    <3>3. Goes(w, "pack", "publish")
      BY <1>27, <3>2 DEF Goes, OpRecord, Pack, At, Running
    <3>4. QED
      BY <3>3 DEF Shape
  <2>3. QED
    BY <1>27, <2>1, <2>2 DEF Pack
<1>28. CASE PublishOutput(w)
  BY <1>28 DEF PublishOutput, Shape
<1>29. CASE DiscardOutput(w)
  BY <1>29 DEF DiscardOutput, Shape
<1>30. CASE FileStep(w)
  BY <1>30 DEF FileStep, Shape
<1>31. QED
  BY <1>3, <1>4, <1>5, <1>6, <1>7, <1>8, <1>9, <1>10, <1>11, <1>12, <1>13, <1>14, <1>15, <1>16, <1>17, <1>18, <1>19, <1>20, <1>21, <1>22, <1>23, <1>24, <1>25, <1>26, <1>27, <1>28, <1>29, <1>30 DEF Step

\* Operations stay where their pipelines lead.
LEMMA StageStep ==
  ASSUME Typed, StageInv, MoveInv, Next
  PROVE  StageInv'
<1>1. CASE Crash
  <2>1. ASSUME NEW w \in Writer
        PROVE  StageOK(w)'
    <3>1. StageOK(w)
      BY DEF StageInv
    <3>2. Running(w) => op[w].act # "none"
      BY DEF Running
    <3>3. QED
      BY <1>1, <3>1, <3>2, CrashEffect DEF StageOK, Engine
  <2>2. QED
    BY <2>1 DEF StageInv
<1>2. ASSUME NEW w \in Writer, NextBy(w)
      PROVE  StageInv'
  <2>1. Frame(w) /\ StageOK(w)
    BY <1>2, NextByTyped DEF StageInv
  <2>2. ASSUME NEW v \in Writer \ {w}
        PROVE  StageOK(v)'
    <3>1. op'[v] = op[v] /\ kind' = kind /\ system' = system
      BY <2>1 DEF Frame, Typed, OpsOK
    <3>2. StageOK(v)
      BY DEF StageInv
    <3>3. QED
      BY <3>1, <3>2 DEF StageOK, Engine
  <2>3. StageOK(w)'
    <3>1. kind' = kind /\ system' = system
      BY <2>1 DEF Frame
    <3>2. ASSUME NEW act \in Acts[w], Start(w, act)
          PROVE  StageOK(w)'
      <4>1. act \in Mutations \cup Conversions /\ act # "none"
        BY <3>2, StartEffect DEF Mutations, Conversions
      <4>2. Destination(act) = IF act \in {"convert", "split"} THEN Destination(act) ELSE "arc"
        BY DEF Destination
      <4>3. /\ act = "convert" => Destination(act) \in {"out", "out1"}
            /\ act = "split" => Destination(act) \in {"dir", "dir1"}
        BY DEF Destination
      <4>4. /\ act \in Conversions <=> FirstStage(act) = "unpack"
            /\ FirstStage(act) = "load" => kind \notin RarKinds
            /\ FirstStage(act) = "native" => kind \notin RarKinds /\ Engine(act) = "system7z"
            /\ FirstStage(act) \in {"binding", "rebuild"} => kind \in RarKinds
        BY DEF FirstStage, Engine
      <4>5. Engine(act)' = Engine(act)
        BY <3>1 DEF Engine
      <4>6. QED
        BY <3>1, <3>2, <4>1, <4>2, <4>3, <4>4, <4>5, StartEffect
           DEF StageOK, ConversionStages, WorkerStages, NativeStages, RarStages, UnreadStages, SwapStages
    <3>3. CASE Cancel(w)
      BY <2>1, <3>1, <3>3, CancelEffect DEF StageOK, Engine
    <3>4. CASE Step(w)
      <4>1. Shape(w)
        BY <3>4, StepShape
      <4>2. CASE op' = op
        BY <2>1, <3>1, <4>2 DEF StageOK, Engine
      <4>3. CASE Ends(w)
        BY <2>1, <3>1, <4>3 DEF StageOK, Engine, Ends, Running
      <4>4. ASSUME NEW s, NEW t, Reads(w, s, t), op[w].at = s, t # "new", t # "write",
                   /\ s \in ConversionStages <=> t \in ConversionStages
                   /\ t \in WorkerStages => s \in WorkerStages
                   /\ t \in NativeStages => s \in NativeStages
                   /\ t \in RarStages => s \in RarStages
            PROVE  StageOK(w)'
        <5>1. op'[w].seen # Absent
          BY <4>4, EditAssumption DEF Reads
        <5>2. QED
          BY <2>1, <3>1, <4>4, <5>1 DEF StageOK, Engine, Reads, At, Running
      <4>5. ASSUME NEW s, NEW t, Goes(w, s, t), op[w].at = s, t # "new",
                   /\ s \in ConversionStages <=> t \in ConversionStages
                   /\ t \in WorkerStages => s \in WorkerStages
                   /\ t \in NativeStages => s \in NativeStages
                   /\ t \in RarStages => s \in RarStages
                   /\ t \notin UnreadStages => s \notin UnreadStages
            PROVE  StageOK(w)'
        BY <2>1, <3>1, <4>5 DEF StageOK, Engine, Goes, At, Running
      <4>6. QED
        BY <4>1, <4>2, <4>3, <4>4, <4>5 DEF Shape, Reads, Goes, At,
           ConversionStages, WorkerStages, NativeStages, RarStages, UnreadStages, SwapStages
    <3>5. QED
      BY <1>2, <3>2, <3>3, <3>4 DEF NextBy
  <2>4. QED
    BY <2>2, <2>3 DEF StageInv
<1>3. QED
  BY <1>1, <1>2, NextIsBy

\* The steps around a file call, and the others.
Rest1(w) ==
  \/ Load(w) \/ MainFails(w)
  \/ NativeReads(w) \/ NativeApplies(w) \/ NativeAborts(w) \/ NativeReturns(w)
Rest2(w) ==
  \/ BindingBegins(w) \/ BindingEnds(w) \/ BindingBreaks(w) \/ BindingRefuses(w)
  \/ RebuildStarts(w) \/ Extract(w) \/ RebuildFails(w) \/ EraseArchive(w)
  \/ Mutate(w) \/ Compressed(w)
Rest3(w) ==
  \/ DropOldBackup(w) \/ BackUp(w) \/ Install(w) \/ DropBackup(w) \/ Restore(w)
  \/ Unpack(w) \/ Pack(w)
Calling(w) == WriteBack(w) \/ CallReturns(w) \/ PublishOutput(w) \/ DiscardOutput(w) \/ FileStep(w)

\* The groups are all the actions there are.
LEMMA StepKinds ==
  ASSUME NEW w \in Writer
  PROVE  Step(w) <=> Rest1(w) \/ Rest2(w) \/ Rest3(w) \/ Calling(w)
BY DEF Step, Rest1, Rest2, Rest3, Calling

\* The actions outside a write leave the calls alone, and none is at a stage that
\* calls.
LEMMA RestOfCall ==
  ASSUME Typed, StageInv, MoveInv, NEW w \in Writer, Rest1(w) \/ Rest2(w) \/ Rest3(w)
  PROVE  /\ call' = call /\ Running(w)
         /\ op[w].at \notin {"write", "publish", "discard"} /\ op'[w].at # "write"
<1>1. /\ call' = call /\ Running(w) /\ op[w].at \notin {"write", "publish", "discard"}
      /\ op[w].at = "main" => MainFails(w)
  <2> USE DEF At
  <2>1. CASE Rest1(w)
    BY <2>1 DEF Rest1, Load, MainFails, NativeReads, NativeApplies, NativeAborts, NativeReturns, Fail, fileVars
  <2>2. CASE Rest2(w)
    BY <2>2 DEF Rest2, BindingBegins, BindingEnds, BindingBreaks, BindingRefuses, RebuildStarts,
       Extract, RebuildFails, EraseArchive, Mutate, Compressed, Leave, fileVars
  <2>3. CASE Rest3(w)
    BY <2>3 DEF Rest3, DropOldBackup, BackUp, Install, DropBackup, Restore, Unpack, Pack, SwapStep, Leave, fileVars
  <2>4. QED
    BY <2>1, <2>2, <2>3
<1>2. Shape(w)
  BY StepKinds, StepShape
<1>3. ASSUME MainFails(w)
      PROVE  op'[w].at = op[w].at
  <2>1. op'[w] = [op[w] EXCEPT !.res = "failed"] /\ op[w] \in OpRecord
    BY <1>3 DEF MainFails, Fail, End, Typed, OpsOK
  <2>2. QED
    BY <2>1 DEF OpRecord
<1>4. op'[w].at # "write"
  BY <1>1, <1>2, <1>3 DEF Shape, Ends, Goes, Reads, At
<1>5. QED
  BY <1>1, <1>4

\* A call belongs to an operation that waits for it.
LEMMA CallInvStep ==
  ASSUME Typed, StageInv, CallInv, MoveInv, Next
  PROVE  CallInv'
<1>1. CASE Crash
  BY <1>1, CrashEffect DEF CallInv, CallOK, Moving, At, Running
<1>2. ASSUME NEW w \in Writer, NextBy(w)
      PROVE  CallInv'
  <2>1. Frame(w) /\ CallOK(w) /\ StageOK(w) /\ Typed'
    BY <1>2, NextByTyped DEF CallInv, StageInv
  <2>2. faults \in Nat /\ faults' \in {faults, faults + 1}
    BY <2>1, FileAssumption DEF Frame, Typed, RestOK
  <2>3. ASSUME NEW v \in Writer \ {w}
        PROVE  CallOK(v)'
    <3>1. op'[v] = op[v] /\ call'[v] = call[v]
      BY <2>1 DEF Frame, Typed, OpsOK, CallsOK
    <3>2. CallOK(v)
      BY DEF CallInv
    <3>3. QED
      BY <2>2, <3>1, <3>2 DEF CallOK, At, Running
  <2>4. CallOK(w)'
    <3>1. ASSUME NEW act \in Acts[w], Start(w, act)
          PROVE  CallOK(w)'
      <4>1. call[w].at = "idle" /\ call' = call
        BY <2>1, <3>1, StartEffect DEF CallOK, fileVars
      <4>2. QED
        BY <3>1, <4>1, StartEffect DEF CallOK, Moving, At
    <3>2. CASE Cancel(w)
      BY <2>1, <2>2, <3>2, CancelEffect DEF CallOK, fileVars, At, Running
    <3>3. CASE Rest1(w) \/ Rest2(w) \/ Rest3(w)
      <4>1. /\ call' = call /\ Running(w)
            /\ op[w].at \notin {"write", "publish", "discard"} /\ op'[w].at # "write"
        BY <3>3, RestOfCall
      <4>2. call[w].at = "idle"
        BY <2>1, <4>1 DEF CallOK
      <4>3. QED
        BY <4>1, <4>2 DEF CallOK, Moving, At
    <3>4. CASE WriteBack(w)
      <4>1. call'[w].at \in {"rename", "cleanup"}
        BY <2>1, <3>4 DEF WriteBack, WriteTemp, Typed, CallsOK
      <4>2. Goes(w, "main", "write")
        BY <3>4, GoToShape DEF WriteBack, Stages
      <4>3. QED
        BY <2>1, <4>1, <4>2 DEF CallOK, Moving, Goes, At, Running, Typed, OpsOK, OpRecord
    <3>5. CASE CallReturns(w)
      <4>1. PICK res \in Endings : End(w, res)
        BY <3>5 DEF CallReturns, Endings
      <4>2. Ends(w) /\ call' = call /\ call[w].at \in {"done", "failed"}
        BY <3>5, <4>1, EndShape DEF CallReturns, fileVars
      <4>3. QED
        BY <2>1, <4>2 DEF CallOK, Moving, Ends, At, Running
    <3>6. CASE PublishOutput(w)
      <4>1. call'[w].at = "rename" /\ op' = op /\ At(w, "publish")
        BY <3>6 DEF PublishOutput, Publish, Typed, CallsOK
      <4>2. QED
        BY <4>1 DEF CallOK, Moving, At, Running
    <3>7. CASE DiscardOutput(w)
      <4>1. call'[w].at = "cleanup" /\ op' = op /\ At(w, "discard")
        BY <3>7 DEF DiscardOutput, Discard, Typed, CallsOK
      <4>2. QED
        BY <4>1 DEF CallOK, Moving, At, Running
    <3>8. CASE FileStep(w)
      <4>1. op' = op /\ call[w] \in CallRecord
        BY <3>8 DEF FileStep, Typed, CallsOK
      <4>2. \/ call[w].at \in Moving /\ call'[w].at \in {"rename", "done", "cleanup"}
            \/ call[w].at = "rename" /\ call'[w].at = "unlink" /\ faults' = faults + 1
            \/ call[w].at = "unlink" /\ call'[w].at = "retry"
            \/ call[w].at = "cleanup" /\ call'[w].at = "failed"
        <5>1. CASE RenameOk(w) \/ RetryOk(w)
          BY <4>1, <5>1 DEF RenameOk, RetryOk, MoveDone, Moving, CallRecord, Typed, CallsOK
        <5>2. CASE RenameFails(w) \/ UnlinkDestination(w) \/ RetryFails(w) \/ CleanupCall(w)
          BY <4>1, <5>2 DEF RenameFails, UnlinkDestination, RetryFails, CleanupCall, Fault, Moving,
             CallRecord, Typed, CallsOK
        <5>3. QED
          BY <3>8, <5>1, <5>2 DEF FileStep, CallStep
      <4>3. QED
        BY <2>1, <2>2, <4>1, <4>2 DEF CallOK, Moving, At, Running
    <3>9. QED
      BY <1>2, <3>1, <3>2, <3>3, <3>4, <3>5, <3>6, <3>7, <3>8, StepKinds DEF NextBy, Calling
  <2>5. QED
    BY <2>3, <2>4 DEF CallInv
<1>3. QED
  BY <1>1, <1>2, NextIsBy

\* Only a packing, a write and a file call touch an operation's temporary files.
LEMMA TempsKept ==
  ASSUME Typed, NEW w \in Writer, Rest1(w) \/ Rest2(w) \/ Rest3(w), ~Pack(w)
  PROVE  \A p \in TempFiles(w) : disk'[p] = disk[p]
<1> SUFFICES ASSUME NEW p \in TempFiles(w)
             PROVE  disk'[p] = disk[p]
  OBVIOUS
<1>1. p \in Paths /\ p # Arc /\ p # Bak /\ p # Work(w) /\ disk \in [Paths -> Content \cup {Absent}]
  BY PathSets, Disjoint, Kindred DEF Typed, Disks
<1>2. CASE Rest1(w)
  BY <1>1, <1>2 DEF Rest1, Load, MainFails, NativeReads, NativeApplies, NativeAborts, NativeReturns, Fail, fileVars
<1>3. CASE Rest2(w)
  BY <1>1, <1>3 DEF Rest2, BindingBegins, BindingEnds, BindingBreaks, BindingRefuses, RebuildStarts,
     Extract, RebuildFails, EraseArchive, Mutate, Compressed, Leave, fileVars, Removed, Opened
<1>4. CASE Rest3(w)
  BY <1>1, <1>4 DEF Rest3, DropOldBackup, BackUp, Install, DropBackup, Restore, Unpack, SwapStep, Leave, fileVars,
     Removed, Renamed
<1>5. QED
  BY <1>2, <1>3, <1>4

\* A file call that moves on to its next rename has one rename less to make; the
\* others that go on with the same one have not touched its source.
LEMMA CallMoves ==
  ASSUME Typed, StageInv, MoveInv, NEW w \in Writer, FileStep(w), call'[w].at \in Moving
  PROVE  /\ call[w].at \in Moving /\ op' = op
         /\ \/ /\ call'[w].todo = call[w].todo
               /\ \A p \in TempFiles(w) : disk'[p] = disk[p]
            \/ /\ call'[w].todo = Tail(call[w].todo) /\ Len(call[w].todo) # 1
               /\ \A p \in TempFiles(w) : disk'[p] = disk[p] \/ ~Exists(p)'
<1>1. op' = op /\ call[w] \in CallRecord
  BY DEF FileStep, Typed, CallsOK
<1>2. TempFiles(w) \subseteq Paths /\ disk \in [Paths -> Content \cup {Absent}]
  BY PathSets DEF Typed, Disks
<1>3. CASE RenameOk(w) \/ RetryOk(w)
  <2>1. MoveDone(w) /\ call[w].at \in Moving
    BY <1>3 DEF RenameOk, RetryOk, Moving
  <2>2. call'[w].todo = Tail(call[w].todo) /\ Len(call[w].todo) # 1
    BY <1>1, <2>1 DEF MoveDone, Typed, CallsOK, CallRecord, Moving
  <2>3. Next1(w).src \in Paths /\ Next1(w).dst \in Paths /\ Next1(w).dst \notin TempFiles(w)
    BY <2>1, NextMove
  <2>4. \A p \in TempFiles(w) : disk'[p] = disk[p] \/ ~Exists(p)'
    BY <1>2, <2>1, <2>3 DEF MoveDone, Renamed, Exists
  <2>5. QED
    BY <1>1, <2>1, <2>2, <2>4
<1>4. CASE RenameFails(w)
  BY <1>1, <1>4 DEF RenameFails, Moving, Typed, CallsOK, CallRecord
<1>5. CASE UnlinkDestination(w)
  <2>1. Next1(w).dst \notin TempFiles(w)
    BY <1>5, NextMove DEF UnlinkDestination, Moving
  <2>2. \A p \in TempFiles(w) : disk'[p] = disk[p]
    BY <1>2, <1>5, <2>1 DEF UnlinkDestination, Removed
  <2>3. call'[w].todo = call[w].todo /\ call[w].at \in Moving
    BY <1>1, <1>5 DEF UnlinkDestination, Moving, Typed, CallsOK, CallRecord
  <2>4. QED
    BY <1>1, <2>2, <2>3
<1>6. CASE RetryFails(w) \/ CleanupCall(w)
  BY <1>1, <1>6 DEF RetryFails, CleanupCall, Moving, Typed, CallsOK, CallRecord
<1>7. QED
  BY <1>3, <1>4, <1>5, <1>6 DEF FileStep, CallStep

\* What calls move, what they move it from, and that it is whole.
LEMMA MoveInvStep ==
  ASSUME Typed, StageInv, CallInv, MoveInv, OutputInv, TempsWhole, Next
  PROVE  MoveInv' /\ OutputInv' /\ TempsWhole'
<1>1. CASE Crash
  <2>1. MoveInv' /\ OutputInv'
    BY <1>1, CrashEffect DEF MoveInv, MoveOK, Moving, OutputInv, OutputOK, At, Running
  <2>2. ASSUME NEW w \in Writer
        PROVE  TempsOK(w)'
    <3>1. op'[w].res = "none" => call[w].at = "idle" /\ op[w].at = "new" /\ op[w].res = "none"
      BY <1>1, CrashEffect DEF Running, StageInv, StageOK, CallInv, CallOK
    <3>2. disk' = disk /\ TempsOK(w)
      BY <1>1, CrashEffect DEF TempsWhole
    <3>3. QED
      BY <3>1, <3>2 DEF TempsOK, Exists
  <2>3. QED
    BY <2>1, <2>2 DEF TempsWhole
<1>2. ASSUME NEW w \in Writer, NextBy(w)
      PROVE  MoveInv' /\ OutputInv' /\ TempsWhole'
  <2>1. Frame(w) /\ CallOK(w) /\ StageOK(w) /\ MoveOK(w) /\ OutputOK(w) /\ TempsOK(w) /\ Typed'
    BY <1>2, NextByTyped DEF CallInv, StageInv, MoveInv, OutputInv, TempsWhole
  <2>2. ASSUME NEW v \in Writer \ {w}
        PROVE  MoveOK(v)' /\ OutputOK(v)' /\ TempsOK(v)'
    <3>1. op'[v] = op[v] /\ call'[v] = call[v]
      BY <2>1 DEF Frame, Typed, OpsOK, CallsOK
    <3>2. \A p \in TempFiles(v) : disk'[p] = disk[p]
      BY <2>1 DEF Frame
    <3>3. MoveOK(v) /\ OutputOK(v) /\ TempsOK(v) /\ File(v) \in TempFiles(v)
      BY PathSets DEF MoveInv, OutputInv, TempsWhole
    <3>4. MoveOK(v)'
      BY <3>1, <3>2, <3>3 DEF MoveOK
    <3>5. OutputOK(v)'
      BY <3>1, <3>2, <3>3 DEF OutputOK, At, Running
    <3>6. TempsOK(v)'
      BY <3>1, <3>2, <3>3 DEF TempsOK, Exists
    <3>7. QED
      BY <3>4, <3>5, <3>6
  <2>3. MoveOK(w)' /\ OutputOK(w)' /\ TempsOK(w)'
    <3>1. ASSUME NEW act \in Acts[w], Start(w, act)
          PROVE  MoveOK(w)' /\ OutputOK(w)' /\ TempsOK(w)'
      <4>1. call[w].at = "idle" /\ call' = call /\ disk' = disk
        BY <2>1, <3>1, StartEffect DEF CallOK, fileVars
      <4>2. op[w].res = "none" /\ op[w].at = "new" /\ op'[w].at # "publish"
        BY <3>1, StartEffect
      <4>3. QED
        BY <2>1, <4>1, <4>2 DEF MoveOK, Moving, OutputOK, TempsOK, At, Exists
    <3>2. CASE Cancel(w)
      <4>1. call' = call /\ disk' = disk
        BY <3>2, CancelEffect DEF fileVars
      <4>2. /\ op'[w].act = op[w].act /\ op'[w].at = op[w].at /\ op'[w].dst = op[w].dst
            /\ op'[w].res = op[w].res /\ op'[w].seen = op[w].seen
        BY <3>2, CancelEffect
      <4>3. MoveOK(w)'
        BY <2>1, <4>1, <4>2 DEF MoveOK
      <4>4. OutputOK(w)' /\ TempsOK(w)'
        BY <2>1, <4>1, <4>2 DEF OutputOK, TempsOK, At, Running, Exists
      <4>5. QED
        BY <4>3, <4>4
    <3>3. ASSUME Rest1(w) \/ Rest2(w) \/ Rest3(w), ~Pack(w)
          PROVE  MoveOK(w)' /\ OutputOK(w)' /\ TempsOK(w)'
      <4>1. call' = call /\ Running(w) /\ op[w].at \notin {"write", "publish", "discard"}
        BY <3>3, RestOfCall
      <4>2. call[w].at = "idle"
        BY <2>1, <4>1 DEF CallOK
      <4>3. \A p \in TempFiles(w) : disk'[p] = disk[p]
        BY <3>3, TempsKept
      <4>4. op'[w].at # "publish"
        <5>1. op[w].at = "pack" => Pack(w)
          BY <3>3 DEF Rest1, Rest2, Rest3, Load, MainFails, NativeReads, NativeApplies, NativeAborts, NativeReturns,
             BindingBegins, BindingEnds, BindingBreaks, BindingRefuses, RebuildStarts, Extract, RebuildFails,
             EraseArchive, Mutate, Compressed, DropOldBackup, BackUp, Install, DropBackup, Restore, Unpack,
             SwapStep, At
        <5>2. Shape(w)
          BY <3>3, StepKinds, StepShape
        <5>3. QED
          BY <3>3, <4>1, <5>1, <5>2 DEF Shape, Ends, Goes, Reads, At
      <4>5. QED
        BY <2>1, <4>1, <4>2, <4>3, <4>4 DEF MoveOK, Moving, OutputOK, TempsOK, At, Running, Exists
    <3>4. CASE Pack(w)
      <4>1. call' = call /\ call[w].at = "idle" /\ At(w, "pack") /\ op[w].seen # Absent
        BY <2>1, <3>4 DEF Pack, CallOK, At, StageOK, UnreadStages
      <4>2. MoveOK(w)'
        BY <4>1 DEF MoveOK, Moving
      <4>3. Goes(w, "pack", "publish") \/ Goes(w, "pack", "discard")
        <5>1. Shape(w)
          BY <3>4, StepShape DEF Step
        <5>2. op' # op
          BY <3>4, <4>1 DEF Pack, GoTo, At, Typed, OpsOK, OpRecord
        <5>3. ~Ends(w)
          BY <3>4, <4>1 DEF Pack, GoTo, Ends, At, Typed, OpsOK, OpRecord
        <5>4. QED
          BY <4>1, <5>1, <5>2, <5>3 DEF Shape, Goes, Reads, At
      <4>4. CASE Goes(w, "pack", "discard")
        BY <4>2, <4>4 DEF OutputOK, TempsOK, Goes, At
      <4>5. CASE Goes(w, "pack", "publish")
        <5>1. PICK out \in Outputs(w) :
                disk' = [p \in Paths |-> IF p \in out THEN Written(w, op[w].seen) ELSE disk[p]]
          <6>1. op'[w].at # "discard"
            BY <4>5 DEF Goes
          <6>2. ~GoTo(w, "discard")
            BY <6>1 DEF GoTo, Typed, OpsOK, OpRecord
          <6>3. QED
            BY <3>4, <6>2 DEF Pack
        <5>2. TempFiles(w) \subseteq Paths /\ File(w) \in Paths
          BY PathSets
        <5>3. TempsOK(w)'
          BY <2>1, <4>1, <5>1, <5>2 DEF TempsOK, Written, Exists, At, Running
        <5>4. OutputOK(w)'
          <6>1. ASSUME op'[w].dst = "arc"
                PROVE  out = {File(w)} /\ op'[w].seen = op[w].seen
            BY <2>1, <4>5, <6>1 DEF Outputs, StageOK, Goes
          <6>2. QED
            BY <5>1, <5>2, <6>1 DEF OutputOK
        <5>5. QED
          BY <4>2, <5>3, <5>4
      <4>6. QED
        BY <4>3, <4>4, <4>5
    <3>5. CASE WriteBack(w)
      <4>1. Goes(w, "main", "write") /\ op[w].seen # Absent
        BY <2>1, <3>5, GoToShape DEF WriteBack, Stages, StageOK, UnreadStages, At
      <4>2. op[w].dst = "arc"
        BY <2>1, <4>1 DEF StageOK, Goes, At, Conversions, ConversionStages
      <4>3. OutputOK(w)'
        BY <4>1 DEF OutputOK, At, Goes
      <4>4. File(w) \in Paths /\ TempFiles(w) \subseteq Paths /\ disk \in [Paths -> Content \cup {Absent}]
        BY PathSets DEF Typed, Disks
      <4>5. CASE call'[w].at = "cleanup"
        BY <4>3, <4>5 DEF MoveOK, Moving, TempsOK
      <4>6. CASE call'[w].at # "cleanup"
        <5>1. /\ call'[w].todo = <<[src |-> File(w), dst |-> Arc]>>
              /\ disk' = [disk EXCEPT ![File(w)] = Written(w, op[w].seen \cup {w})]
          BY <3>5, <4>6 DEF WriteBack, WriteTemp, Arc, Typed, CallsOK
        <5>2. MoveOK(w)'
          <6>1. disk'[File(w)] = Written(w, op[w].seen \cup {w})
            BY <4>4, <5>1
          <6>2. op'[w].dst = "arc" /\ op'[w].at = "write" /\ op'[w].seen = op[w].seen
            BY <4>1, <4>2 DEF Goes
          <6>3. \A i \in 1 .. Len(call'[w].todo) :
                  call'[w].todo[i].src = File(w) /\ call'[w].todo[i].dst = File(op'[w].dst)
            BY <5>1, <6>2 DEF Arc
          <6>4. QED
            BY <5>1, <6>1, <6>2, <6>3, PathSets DEF MoveOK
        <5>3. TempsOK(w)'
          BY <2>1, <4>1, <4>4, <5>1, <3>5 DEF TempsOK, Written, Exists, Goes, At, Running, WriteBack, WriteTemp
        <5>4. QED
          BY <4>3, <5>2, <5>3
      <4>7. QED
        BY <4>5, <4>6
    <3>6. CASE CallReturns(w)
      <4>1. PICK res \in Endings : End(w, res)
        BY <3>6 DEF CallReturns, Endings
      <4>2. Ends(w) /\ call' = call /\ call[w].at \in {"done", "failed"}
        BY <3>6, <4>1, EndShape DEF CallReturns, fileVars
      <4>3. QED
        BY <4>2 DEF MoveOK, Moving, OutputOK, TempsOK, Ends, Endings, At, Running
    <3>7. CASE PublishOutput(w)
      <4>1. PICK list \in Listings(w) : call' = [call EXCEPT ![w] =
              [at |-> "rename", todo |-> Moves(w, op[w].dst, op[w].act = "split", list), all |-> TRUE]]
        BY <3>7 DEF PublishOutput, Publish
      <4>2. op[w].dst \in Stem /\ (op[w].act = "split" => op[w].dst \in SetStem)
        BY DEF Typed, OpsOK, OpRecord
      <4>3. call'[w].at = "rename" /\ call'[w].todo = Moves(w, op[w].dst, op[w].act = "split", list)
        BY <4>1 DEF Typed, CallsOK
      <4>4. op' = op /\ disk' = disk /\ At(w, "publish") /\ call[w].at = "idle"
        BY <3>7 DEF PublishOutput, Publish
      <4>5. /\ \A i \in 1 .. Len(call'[w].todo) :
                 /\ call'[w].todo[i].src \in TempFiles(w)
                 /\ \/ call'[w].todo[i].dst = File(op[w].dst)
                    \/ op[w].act = "split" /\ call'[w].todo[i].dst \in VolumesOf(op[w].dst)
            /\ op[w].act # "split" => call'[w].todo = <<[src |-> File(w), dst |-> File(op[w].dst)]>>
        <5> DEFINE volumes == op[w].act = "split"
        <5>1. volumes \in BOOLEAN /\ (volumes => op[w].dst \in SetStem)
          BY <4>2
        <5>2. call'[w].todo = Moves(w, op[w].dst, volumes, list)
          BY <4>3
        <5>3. volumes <=> op[w].act = "split"
          OBVIOUS
        <5> HIDE DEF volumes
        <5>4. /\ \A i \in 1 .. Len(call'[w].todo) :
                   /\ call'[w].todo[i].src \in TempFiles(w)
                   /\ \/ call'[w].todo[i].dst = File(op[w].dst)
                      \/ volumes /\ call'[w].todo[i].dst \in VolumesOf(op[w].dst)
              /\ ~volumes => call'[w].todo = <<[src |-> File(w), dst |-> File(op[w].dst)]>>
          BY <4>2, <5>1, <5>2, MovesFacts
        <5>5. QED
          BY <5>3, <5>4
      <4>6. op[w].dst = "arc" => op[w].act # "split"
        BY <2>1 DEF StageOK
      <4>7. MoveOK(w)'
        BY <2>1, <4>4, <4>5, <4>6 DEF MoveOK, OutputOK, At, Arc
      <4>8. OutputOK(w)' /\ TempsOK(w)'
        BY <2>1, <4>3, <4>4 DEF OutputOK, TempsOK, Exists
      <4>9. QED
        BY <4>7, <4>8
    <3>8. CASE DiscardOutput(w)
      <4>1. call'[w].at = "cleanup" /\ op' = op /\ At(w, "discard")
        BY <3>8 DEF DiscardOutput, Discard, Typed, CallsOK
      <4>2. QED
        BY <4>1 DEF MoveOK, Moving, OutputOK, TempsOK, At
    <3>9. CASE FileStep(w)
      <4>1. op' = op /\ call[w] \in CallRecord
        BY <3>9 DEF FileStep, Typed, CallsOK
      <4>2. ASSUME call'[w].at \in Moving
            PROVE  MoveOK(w)'
        <5>1. call[w].at \in Moving
          BY <3>9, <4>2, CallMoves
        <5>2. CASE /\ call'[w].todo = call[w].todo
                   /\ \A p \in TempFiles(w) : disk'[p] = disk[p]
          BY <2>1, <4>1, <5>1, <5>2, PathSets DEF MoveOK
        <5>3. CASE call'[w].todo = Tail(call[w].todo) /\ Len(call[w].todo) # 1
          <6>1. call[w].todo \in Seq(Rename) /\ call[w].todo # <<>>
            BY <4>1, <5>1 DEF CallRecord, Typed, CallsOK
          <6>2. /\ Len(call'[w].todo) = Len(call[w].todo) - 1 /\ Len(call[w].todo) \in Nat
                /\ \A i \in 1 .. Len(call'[w].todo) : call'[w].todo[i] = call[w].todo[i + 1]
            BY <5>3, <6>1, HeadTailProperties, LenProperties
          <6>3. op[w].dst # "arc"
            BY <2>1, <5>1, <5>3, NextMove
          <6>4. \A i \in 1 .. Len(call'[w].todo) :
                  /\ call'[w].todo[i].src \in TempFiles(w)
                  /\ \/ call'[w].todo[i].dst = File(op[w].dst)
                     \/ op[w].act = "split" /\ call'[w].todo[i].dst \in VolumesOf(op[w].dst)
            <7>1. ASSUME NEW i \in 1 .. Len(call'[w].todo)
                  PROVE  i + 1 \in 1 .. Len(call[w].todo) /\ call'[w].todo[i] = call[w].todo[i + 1]
              BY <6>2
            <7>2. QED
              BY <2>1, <5>1, <7>1 DEF MoveOK
          <6>5. QED
            BY <4>1, <6>3, <6>4 DEF MoveOK
        <5>4. QED
          BY <3>9, <4>2, <5>2, <5>3, CallMoves
      <4>3. MoveOK(w)'
        BY <4>2 DEF MoveOK
      <4>4. call[w].at # "idle"  /\ call'[w].at # "idle"
        BY <3>9, <4>1 DEF FileStep, CallStep, RenameOk, RetryOk, RenameFails, UnlinkDestination,
           RetryFails, CleanupCall, MoveDone, Typed, CallsOK, CallRecord
      <4>5. OutputOK(w)'
        BY <4>4 DEF OutputOK
      <4>6. TempsOK(w)'
        <5>1. CASE RenameOk(w) \/ RetryOk(w)
          <6>1. MoveDone(w) /\ call[w].at \in Moving
            BY <5>1 DEF RenameOk, RetryOk, Moving
          <6>2. Next1(w).src \in Paths /\ Next1(w).dst \in Paths /\ Next1(w).dst \notin TempFiles(w)
            BY <6>1, NextMove
          <6>3. TempFiles(w) \subseteq Paths /\ disk \in [Paths -> Content \cup {Absent}]
            BY PathSets DEF Typed, Disks
          <6>4. \A p \in TempFiles(w) : disk'[p] = disk[p] \/ ~Exists(p)'
            BY <6>1, <6>2, <6>3 DEF MoveDone, Renamed, Exists
          <6>5. QED
            BY <2>1, <4>1, <6>1, <6>4 DEF TempsOK, Exists, Moving
        <5>2. CASE RenameFails(w) \/ UnlinkDestination(w)
          <6>1. call[w].at \in Moving /\ call'[w].at \in Moving
            BY <4>1, <5>2 DEF RenameFails, UnlinkDestination, Moving, Typed, CallsOK, CallRecord
          <6>2. \A p \in TempFiles(w) : disk'[p] = disk[p] \/ ~Exists(p)'
            BY <3>9, <6>1, CallMoves
          <6>3. QED
            BY <2>1, <4>1, <6>1, <6>2 DEF TempsOK, Exists, Moving
        <5>3. CASE RetryFails(w) \/ CleanupCall(w)
          <6>1. call'[w].at \in {"cleanup", "failed"}
            BY <4>1, <5>3 DEF RetryFails, CleanupCall, Typed, CallsOK, CallRecord
          <6>2. QED
            BY <6>1 DEF TempsOK
        <5>4. QED
          BY <3>9, <5>1, <5>2, <5>3 DEF FileStep, CallStep
      <4>7. QED
        BY <4>3, <4>5, <4>6
    <3>10. QED
      BY <1>2, <3>1, <3>2, <3>3, <3>4, <3>5, <3>6, <3>7, <3>8, <3>9, StepKinds DEF NextBy, Calling
  <2>4. QED
    BY <2>2, <2>3 DEF MoveInv, OutputInv, TempsWhole
<1>3. QED
  BY <1>1, <1>2, NextIsBy

\* The step with which a file call puts the archive in place, and the one with which
\* it removes the old one first.
ArcMove(w) ==
  /\ FileStep(w) /\ op[w].dst = "arc" /\ call[w].at \in {"rename", "retry"}
  /\ disk' = Renamed(disk, File(w), Arc) /\ call'[w].at = "done"
ArcUnlink(w) ==
  /\ FileStep(w) /\ op[w].dst = "arc" /\ call[w].at = "unlink"
  /\ disk' = Removed(disk, {Arc}) /\ call'[w].at = "retry" /\ call'[w].todo = call[w].todo

\* The steps that change the archive or its backup.
LEMMA UserFiles ==
  ASSUME Typed, StageInv, MoveInv, NEW w \in Writer, NextBy(w)
  PROVE  \/ disk'[Arc] = disk[Arc] /\ disk'[Bak] = disk[Bak]
         \/ NativeApplies(w) \/ BindingBegins(w) \/ BindingEnds(w) \/ EraseArchive(w)
         \/ DropOldBackup(w) \/ BackUp(w) \/ Install(w) \/ DropBackup(w) \/ Restore(w)
         \/ ArcMove(w) \/ ArcUnlink(w)
<1>1. /\ Arc \in Paths /\ Bak \in Paths /\ disk \in [Paths -> Content \cup {Absent}]
      /\ Arc # Work(w) /\ Bak # Work(w) /\ Arc \notin TempFiles(w) /\ Bak \notin TempFiles(w)
      /\ File(w) \in TempFiles(w)
  BY PathSets, Disjoint DEF Typed, Disks
<1>2. ASSUME NEW act \in Acts[w], Start(w, act)
      PROVE  disk' = disk
  BY <1>2 DEF Start, fileVars
<1>3. CASE Cancel(w)
  BY <1>3 DEF Cancel, fileVars
<1>4. CASE Rest1(w)
  BY <1>1, <1>4 DEF Rest1, Load, MainFails, NativeReads, NativeAborts, NativeReturns, Fail, fileVars
<1>5. CASE Rest2(w)
  BY <1>1, <1>5 DEF Rest2, BindingBreaks, BindingRefuses, RebuildStarts,
     Extract, RebuildFails, Mutate, Compressed, Leave, fileVars, Removed
<1>6. CASE Rest3(w)
  <2>1. CASE Unpack(w)
    BY <2>1 DEF Unpack, fileVars
  <2>2. CASE Pack(w)
    <3>1. PICK out \in Outputs(w) :
            disk' = disk \/ \E c : disk' = [p \in Paths |-> IF p \in out THEN c ELSE disk[p]]
      BY <1>1, <2>2 DEF Pack
    <3>2. Arc \notin out /\ Bak \notin out
      BY <1>1, OutputFacts
    <3>3. QED
      BY <1>1, <3>1, <3>2
  <2>3. QED
    BY <1>6, <2>1, <2>2 DEF Rest3
<1>7. CASE WriteBack(w)
  BY <1>1, <1>7 DEF WriteBack, WriteTemp
<1>8. CASE CallReturns(w) \/ PublishOutput(w) \/ DiscardOutput(w)
  BY <1>8 DEF CallReturns, PublishOutput, DiscardOutput, Publish, Discard, fileVars
<1>9. CASE FileStep(w)
  <2>1. CASE RenameOk(w) \/ RetryOk(w)
    <3>1. MoveDone(w) /\ call[w].at \in Moving /\ call[w].at \in {"rename", "retry"}
      BY <2>1 DEF RenameOk, RetryOk, Moving
    <3>2. /\ Next1(w).src \in TempFiles(w) /\ Next1(w).dst \in Paths /\ Next1(w).dst # Bak
          /\ Next1(w).dst = Arc <=> op[w].dst = "arc"
          /\ op[w].dst = "arc" => Next1(w).src = File(w) /\ Len(call[w].todo) = 1
      BY <3>1, NextMove
    <3>3. CASE op[w].dst = "arc"
      BY <1>9, <3>1, <3>2, <3>3 DEF ArcMove, MoveDone, Typed, CallsOK, CallRecord
    <3>4. CASE op[w].dst # "arc"
      BY <1>1, <3>1, <3>2, <3>4 DEF MoveDone, Renamed
    <3>5. QED
      BY <3>3, <3>4
  <2>2. CASE UnlinkDestination(w)
    <3>1. call[w].at = "unlink" /\ call[w].at \in Moving
      BY <2>2 DEF UnlinkDestination, Moving
    <3>2. Next1(w).dst # Bak /\ (Next1(w).dst = Arc <=> op[w].dst = "arc")
      BY <3>1, NextMove
    <3>3. call'[w].at = "retry" /\ call'[w].todo = call[w].todo
      BY <2>2 DEF UnlinkDestination, Typed, CallsOK, CallRecord
    <3>4. CASE disk' = disk
      BY <3>4
    <3>5. CASE disk' = Removed(disk, {Next1(w).dst})
      BY <1>1, <1>9, <3>1, <3>2, <3>3, <3>5 DEF ArcUnlink, Removed
    <3>6. QED
      BY <2>2, <3>4, <3>5 DEF UnlinkDestination
  <2>3. CASE RenameFails(w) \/ RetryFails(w)
    BY <2>3 DEF RenameFails, RetryFails
  <2>4. CASE CleanupCall(w)
    <3>1. PICK mine \in SUBSET TempFiles(w) : disk' = disk \/ disk' = Removed(disk, mine)
      BY <1>1, <2>4 DEF CleanupCall
    <3>2. QED
      BY <1>1, <3>1 DEF Removed
  <2>5. QED
    BY <1>9, <2>1, <2>2, <2>3, <2>4 DEF FileStep, CallStep
<1>10. QED
  BY <1>2, <1>3, <1>4, <1>5, <1>6, <1>7, <1>8, <1>9, StepKinds DEF NextBy, Calling

\* No step tears a file under a name the user knows, except the binding.
LEMMA TearsStep ==
  ASSUME Typed, StageInv, CallInv, MoveInv, TempsWhole, OnlyBindingTears, Next
  PROVE  OnlyBindingTears'
<1>1. CASE Crash
  BY <1>1, CrashEffect DEF OnlyBindingTears, Exists
<1>2. ASSUME NEW w \in Writer, NextBy(w)
      PROVE  OnlyBindingTears'
  <2>1. kind' = kind /\ StageOK(w) /\ CallOK(w) /\ TempsOK(w)
    BY <1>2, NextByTyped DEF Frame, StageInv, CallInv, TempsWhole
  <2>2. SUFFICES ASSUME NEW p \in Paths, Exists(p)', ~(p \in {Arc, Bak} /\ kind \in RarKinds),
                        \A v \in Writer : p \notin TempFiles(v)
                 PROVE  disk'[p].whole
    BY <2>1 DEF OnlyBindingTears
  <2>3. /\ Exists(p) => disk[p].whole
        /\ p \notin TempFiles(w) /\ disk \in [Paths -> Content \cup {Absent}]
    BY <2>2 DEF OnlyBindingTears, Typed, Disks
  <2>4. ASSUME NEW act \in Acts[w], Start(w, act)
        PROVE  disk' = disk
    BY <2>4 DEF Start, fileVars
  <2>5. CASE Cancel(w)
    BY <2>2, <2>3, <2>5 DEF Cancel, fileVars, Exists
  <2>6. CASE Rest1(w)
    BY <2>2, <2>3, <2>6, PathSets DEF Rest1, Load, MainFails, NativeReads, NativeApplies, NativeAborts, NativeReturns,
       Fail, fileVars, Exists, Written
  <2>7. CASE Rest2(w)
    <3>1. op[w].at = "binding" => kind \in RarKinds
      BY <2>1 DEF StageOK, RarStages
    <3>2. QED
      BY <2>2, <2>3, <2>7, <3>1, PathSets DEF Rest2, BindingBegins, BindingEnds, BindingBreaks, BindingRefuses,
         RebuildStarts, Extract, RebuildFails, EraseArchive, Mutate, Compressed, Leave, fileVars,
         Exists, Written, Removed, Opened, At
  <2>8. CASE Rest3(w)
    <3>1. op[w].at \in SwapStages => p # Arc /\ p # Bak
      BY <2>1, <2>2 DEF StageOK, RarStages
    <3>2. CASE Pack(w)
      <4>1. PICK out \in Outputs(w) :
              disk' = disk \/ \E c : disk' = [q \in Paths |-> IF q \in out THEN c ELSE disk[q]]
        BY <2>3, <3>2 DEF Pack
      <4>2. p \notin out
        BY <2>3, OutputFacts
      <4>3. QED
        BY <2>2, <2>3, <4>1, <4>2 DEF Exists
    <3>3. CASE ~Pack(w)
      BY <2>2, <2>3, <2>8, <3>1, <3>3, PathSets DEF Rest3, DropOldBackup, BackUp, Install, DropBackup, Restore,
         Unpack, SwapStep, Leave, fileVars, Exists, Removed, Renamed, At, SwapStages
    <3>4. QED
      BY <3>2, <3>3
  <2>9. CASE WriteBack(w)
    BY <2>2, <2>3, <2>9, PathSets DEF WriteBack, WriteTemp, Exists
  <2>10. CASE CallReturns(w) \/ PublishOutput(w) \/ DiscardOutput(w)
    BY <2>2, <2>3, <2>10 DEF CallReturns, PublishOutput, DiscardOutput, Publish, Discard, fileVars, Exists
  <2>11. CASE FileStep(w)
    <3>1. CASE RenameOk(w) \/ RetryOk(w)
      <4>1. MoveDone(w) /\ call[w].at \in Moving
        BY <3>1 DEF RenameOk, RetryOk, Moving
      <4>2. Next1(w).src \in TempFiles(w) /\ Next1(w).src \in Paths
        BY <4>1, NextMove
      <4>3. Exists(Next1(w).src) => disk[Next1(w).src].whole
        BY <2>1, <4>1, <4>2 DEF TempsOK, CallOK, Moving, Running
      <4>4. QED
        BY <2>2, <2>3, <4>1, <4>2, <4>3 DEF MoveDone, Renamed, Exists
    <3>2. CASE RenameFails(w) \/ RetryFails(w) \/ UnlinkDestination(w) \/ CleanupCall(w)
      BY <2>2, <2>3, <3>2 DEF RenameFails, RetryFails, UnlinkDestination, CleanupCall, Removed, Exists
    <3>3. QED
      BY <2>11, <3>1, <3>2 DEF FileStep, CallStep
  <2>12. QED
    BY <1>2, <2>2, <2>3, <2>4, <2>5, <2>6, <2>7, <2>8, <2>9, <2>10, <2>11, StepKinds DEF NextBy, Calling, Exists
<1>3. QED
  BY <1>1, <1>2, NextIsBy

\* Nobody takes the host while another operation has it.
LEMMA HostTaken ==
  ASSUME Typed, StageInv, CallInv, MoveInv, NEW w \in Writer, NextBy(w), Busy(w)'
  PROVE  Busy(w) \/ HostFree
<1>1. ASSUME NEW act \in Acts[w], Start(w, act)
      PROVE  HostFree
  BY <1>1 DEF Start
<1>2. CASE Cancel(w)
  BY <1>2, CancelEffect DEF Busy, Running, fileVars
<1>3. CASE Rest1(w) \/ Rest2(w) \/ Rest3(w)
  <2>1. call' = call /\ Running(w) /\ op[w].at \notin {"write", "publish", "discard"} /\ call[w].at = "idle"
    BY <1>3, RestOfCall DEF CallInv, CallOK
  <2>2. op[w].at = "compress" => HostFree
    BY <1>3 DEF Rest1, Rest2, Rest3, Load, MainFails, NativeReads, NativeApplies, NativeAborts, NativeReturns,
       BindingBegins, BindingEnds, BindingBreaks, BindingRefuses, RebuildStarts, Extract, RebuildFails,
       EraseArchive, Mutate, Compressed, DropOldBackup, BackUp, Install, DropBackup, Restore, Unpack, Pack,
       SwapStep, At
  <2>3. Shape(w)
    BY <1>3, StepKinds, StepShape
  <2>4. op'[w].at \in SwapStages
    BY <2>1 DEF Busy
  <2>5. QED
    BY <2>1, <2>2, <2>3, <2>4 DEF Shape, Ends, Goes, Reads, At, Busy, SwapStages
<1>4. CASE WriteBack(w)
  <2>1. Goes(w, "main", "write")
    BY <1>4, GoToShape DEF WriteBack, Stages
  <2>2. QED
    BY <2>1 DEF Goes, Busy, SwapStages
<1>5. CASE CallReturns(w)
  <2>1. PICK res \in Endings : End(w, res)
    BY <1>5 DEF CallReturns, Endings
  <2>2. QED
    BY <1>5, <2>1, EndShape DEF Busy, Running, Ends, Endings, CallReturns
<1>6. CASE PublishOutput(w) \/ DiscardOutput(w)
  BY <1>6 DEF PublishOutput, DiscardOutput
<1>7. CASE FileStep(w)
  <2>1. op' = op /\ call[w].at \in {"rename", "unlink", "retry", "cleanup"}
    BY <1>7 DEF FileStep, CallStep, RenameOk, RetryOk, RenameFails, UnlinkDestination, RetryFails, CleanupCall
  <2>2. QED
    BY <2>1 DEF Busy, Running
<1>8. QED
  BY <1>1, <1>2, <1>3, <1>4, <1>5, <1>6, <1>7, StepKinds DEF NextBy, Calling

\* A step keeps the in-process RAR edits apart, as the queue does.
LEMMA ExclusiveStep ==
  ASSUME Typed, StageInv, CallInv, MoveInv, Exclusive, Next
  PROVE  Exclusive'
<1>1. CASE Crash
  <2>1. \A w \in Writer : ~Busy(w)'
    BY <1>1, CrashEffect DEF Busy, Running
  <2>2. QED
    BY <2>1 DEF Exclusive
<1>2. ASSUME NEW w \in Writer, NextBy(w)
      PROVE  Exclusive'
  <2>1. \A v \in Writer \ {w} : op'[v] = op[v] /\ call'[v] = call[v]
    BY <1>2, NextByTyped DEF Frame, Typed, OpsOK, CallsOK
  <2>2. \A v \in Writer \ {w} : Busy(v)' <=> Busy(v)
    BY <2>1 DEF Busy, Running
  <2>3. HostFree => \A v \in Writer : ~Busy(v)
    BY DEF HostFree, Busy
  <2>4. QED
    BY <1>2, <2>2, <2>3, HostTaken DEF Exclusive
<1>3. QED
  BY <1>1, <1>2, NextIsBy

\* While an operation swaps the archive, no other one removes it or the backup.
LEMMA SwapUndisturbed ==
  ASSUME Typed, StageInv, CallInv, MoveInv, Exclusive, NEW w \in Writer, NextBy(w),
         NEW v \in Writer \ {w}, Running(v), op[v].at \in SwapStages
  PROVE  /\ Exists(Arc) => Exists(Arc)'
         /\ Exists(Bak) => Exists(Bak)'
         /\ disk'[Bak] = disk[Bak] \/ BindingEnds(w)
<1>1. Busy(v) /\ ~Busy(w) /\ ~HostFree /\ kind \in RarKinds
  BY DEF Busy, Exclusive, HostFree, StageInv, StageOK, RarStages
<1>2. Arc \in Paths /\ Bak \in Paths /\ Arc # Bak /\ disk \in [Paths -> Content \cup {Absent}]
  BY PathSets DEF Typed, Disks
<1>3. CASE NativeApplies(w)
  BY <1>1, <1>3 DEF NativeApplies, At, StageInv, StageOK, NativeStages
<1>4. CASE BindingBegins(w)
  <2>1. [disk[Arc] EXCEPT !.whole = FALSE, !.by = w] \in Content
    BY <1>2, <1>4, SeenType DEF BindingBegins, Content
  <2>2. disk' = [disk EXCEPT ![Arc] = [disk[Arc] EXCEPT !.whole = FALSE, !.by = w]]
    BY <1>2, <1>4 DEF BindingBegins
  <2>3. QED
    BY <1>2, <2>1, <2>2, Contents DEF Exists
<1>5. CASE BindingEnds(w)
  <2>1. Written(w, op[w].seen \cup {w}) # Absent
    <3>1. op[w].seen \cup {w} \in SUBSET Writer
      BY <1>5 DEF BindingEnds, At, StageInv, StageOK, UnreadStages, Typed, OpsOK, OpRecord
    <3>2. QED
      BY <3>1, Contents
  <2>2. QED
    BY <1>2, <1>5, <2>1 DEF BindingEnds, Exists
<1>6. CASE EraseArchive(w) \/ DropOldBackup(w) \/ BackUp(w) \/ Install(w) \/ DropBackup(w) \/ Restore(w)
  BY <1>1, <1>6 DEF EraseArchive, DropOldBackup, BackUp, Install, DropBackup, Restore, SwapStep, At, Busy, SwapStages
<1>7. CASE ArcMove(w) \/ ArcUnlink(w)
  <2>1. call[w].at \in Moving
    BY <1>7 DEF ArcMove, ArcUnlink, Moving
  <2>2. Running(w) /\ (op[w].at = "write" \/ op[w].at = "publish")
    BY <2>1 DEF CallInv, CallOK
  <2>3. QED
    BY <1>1, <2>1, <2>2 DEF StageInv, StageOK, WorkerStages, Busy, Moving
<1>8. CASE disk'[Arc] = disk[Arc] /\ disk'[Bak] = disk[Bak]
  BY <1>8 DEF Exists
<1>9. QED
  BY <1>3, <1>4, <1>5, <1>6, <1>7, <1>8, UserFiles

\* The files of a swap are where the swap needs them.
LEMMA SwapInvStep ==
  ASSUME Typed, StageInv, CallInv, MoveInv, Exclusive, SwapInv, Next
  PROVE  SwapInv'
<1>1. CASE Crash
  BY <1>1, CrashEffect DEF SwapInv, SwapOK, At, Running, SwapStages, StageInv, StageOK
<1>2. ASSUME NEW w \in Writer, NextBy(w)
      PROVE  SwapInv'
  <2>1. Frame(w) /\ StageOK(w) /\ SwapOK(w) /\ Typed'
    BY <1>2, NextByTyped DEF StageInv, SwapInv
  <2>2. faults \in Nat /\ faults' \in {faults, faults + 1}
    BY <2>1, FileAssumption DEF Frame, Typed, RestOK
  <2>3. ASSUME NEW v \in Writer \ {w}
        PROVE  SwapOK(v)'
    <3>1. op'[v] = op[v] /\ disk'[Work(v)] = disk[Work(v)] /\ SwapOK(v)
      BY <2>1 DEF Frame, Typed, OpsOK, SwapInv
    <3>2. Running(v) /\ op[v].at \in SwapStages =>
            (Exists(Arc) => Exists(Arc)') /\ (Exists(Bak) => Exists(Bak)')
      BY <1>2, SwapUndisturbed
    <3>3. QED
      BY <2>2, <3>1, <3>2 DEF SwapOK, At, Running, SwapStages
  <2>4. SwapOK(w)'
    <3>1. /\ Work(w) \in Paths /\ Arc \in Paths /\ Bak \in Paths /\ Arc # Bak
          /\ Work(w) # Arc /\ Work(w) # Bak /\ disk \in [Paths -> Content \cup {Absent}]
      BY PathSets, Disjoint DEF Typed, Disks
    <3>2. ASSUME NEW act \in Acts[w], Start(w, act)
          PROVE  SwapOK(w)'
      BY <3>2, StartEffect DEF SwapOK, At
    <3>3. CASE Cancel(w)
      BY <2>1, <2>2, <3>3, CancelEffect DEF SwapOK, At, Running, fileVars, Exists
    <3>4. CASE Step(w) /\ op[w].at \notin SwapStages
      <4>1. Shape(w)
        BY <3>4, StepShape
      <4>2. CASE Goes(w, "compress", "swap")
        <5>1. Compressed(w) \/ RebuildFails(w)
          BY <3>4, <4>2 DEF Step, Goes, Load, WriteBack, MainFails, CallReturns, NativeReads, NativeApplies,
             NativeAborts, NativeReturns,
             BindingBegins, BindingEnds, BindingBreaks, BindingRefuses, RebuildStarts, Extract,
             EraseArchive, Mutate, DropOldBackup, BackUp, Install, DropBackup, Restore, Unpack, Pack,
             SwapStep, At, PublishOutput, DiscardOutput, FileStep
        <5>2. ~RebuildFails(w)
          BY <4>2, GoToShape DEF RebuildFails, Leave, End, Goes, At, Typed, OpsOK, OpRecord
        <5>3. disk'[Work(w)] = Written(w, op[w].seen \cup {w})
          BY <3>1, <5>1, <5>2 DEF Compressed
        <5>4. QED
          BY <4>2, <5>3 DEF Goes, SwapOK, At
      <4>3. CASE op' = op
        BY <3>4, <4>3 DEF SwapOK, At, Running, SwapStages
      <4>4. QED
        BY <3>4, <4>1, <4>2, <4>3 DEF Shape, Goes, Ends, Reads, SwapOK, SwapStages, At, Running
    <3>5. CASE Step(w) /\ op[w].at \in SwapStages
      <4>1. \/ DropOldBackup(w) \/ BackUp(w) \/ Install(w) \/ DropBackup(w) \/ Restore(w) \/ FileStep(w)
        BY <3>5 DEF Step, Load, WriteBack, MainFails, CallReturns, NativeReads, NativeApplies,
             NativeAborts, NativeReturns,
             BindingBegins, BindingEnds, BindingBreaks, BindingRefuses, RebuildStarts, Extract, RebuildFails,
             EraseArchive, Mutate, Compressed, Unpack, Pack, At, PublishOutput, DiscardOutput, SwapStages
      <4>2. ~FileStep(w)
        BY <3>5 DEF CallInv, CallOK, FileStep, CallStep, RenameOk, RetryOk, RenameFails, UnlinkDestination,
           RetryFails, CleanupCall, SwapStages
      <4>3. CASE op'[w].res # "none"
        BY <4>3 DEF SwapOK, At, Running
      <4>4. CASE op'[w].res = "none"
        <5>1. /\ Exists(Arc) => disk[Arc] # Absent
              /\ Written(w, op[w].seen \cup {w}) # Absent
          <6>1. op[w].seen \cup {w} \in SUBSET Writer
            BY <2>1, <3>5 DEF StageOK, UnreadStages, SwapStages, Typed, OpsOK, OpRecord
          <6>2. QED
            BY <6>1, Contents DEF Exists
        <5>2. Shape(w)
          BY <3>5, StepShape
        <5>3. CASE DropOldBackup(w)
          <6>1. Goes(w, "swap", "backup")
            BY <4>4, <5>2, <5>3 DEF Shape, Goes, Ends, Reads, At, DropOldBackup, SwapStep, GoTo, Leave, End,
               Typed, OpsOK, OpRecord
          <6>2. disk'[Work(w)] = disk[Work(w)]
            BY <3>1, <5>3, <6>1 DEF DropOldBackup, SwapStep, Removed, Leave, End, Goes, Typed, OpsOK, OpRecord
          <6>3. QED
            BY <2>1, <6>1, <6>2 DEF SwapOK, Goes, At, Running
        <5>4. CASE BackUp(w)
          <6>1. Goes(w, "backup", "install")
            BY <4>4, <5>2, <5>4 DEF Shape, Goes, Ends, Reads, At, BackUp, SwapStep, GoTo, Leave, End,
               Typed, OpsOK, OpRecord
          <6>2. Exists(Arc) /\ disk' = Renamed(disk, Arc, Bak)
            BY <5>4, <6>1 DEF BackUp, SwapStep, Leave, End, Goes, Typed, OpsOK, OpRecord
          <6>3. disk'[Work(w)] = disk[Work(w)] /\ Exists(Bak)'
            BY <3>1, <6>2 DEF Renamed, Exists
          <6>4. QED
            BY <2>1, <6>1, <6>3 DEF SwapOK, Goes, At, Running
        <5>5. CASE Install(w)
          <6>1. CASE Goes(w, "install", "drop")
            <7>1. disk' = Renamed(disk, Work(w), Arc)
              BY <5>5, <6>1 DEF Install, SwapStep, GoTo, Goes, Typed, OpsOK, OpRecord
            <7>2. disk[Work(w)] # Absent /\ Exists(Bak)
              BY <2>1, <5>1, <6>1 DEF SwapOK, Goes, At
            <7>3. QED
              BY <3>1, <6>1, <7>1, <7>2 DEF Renamed, Exists, SwapOK, Goes, At
          <6>2. CASE Goes(w, "install", "restore")
            <7>1. disk' = disk /\ faults' = faults + 1
              BY <5>5, <6>2 DEF Install, SwapStep, GoTo, Goes, Typed, OpsOK, OpRecord, Fault
            <7>2. QED
              BY <2>1, <2>2, <6>2, <7>1 DEF Exists, SwapOK, Goes, At, Running
          <6>3. QED
            BY <4>4, <5>2, <5>5, <6>1, <6>2 DEF Shape, Goes, Ends, Reads, At, Install, SwapStep, GoTo,
               Typed, OpsOK, OpRecord
        <5>6. CASE DropBackup(w)
          <6>1. Goes(w, "drop", "restore") /\ disk' = disk /\ faults' = faults + 1
            BY <4>4, <5>2, <5>6 DEF Shape, Goes, Ends, Reads, At, DropBackup, Leave, End, GoTo, Fault,
               Typed, OpsOK, OpRecord
          <6>2. QED
            BY <2>1, <2>2, <6>1 DEF Exists, SwapOK, Goes, At, Running
        <5>7. CASE Restore(w)
          BY <4>4, <5>7 DEF Restore, Leave, End, Typed, OpsOK, OpRecord
        <5>8. QED
          BY <4>1, <4>2, <5>3, <5>4, <5>5, <5>6, <5>7
      <4>5. QED
        BY <4>3, <4>4
    <3>6. QED
      BY <1>2, <3>2, <3>3, <3>4, <3>5 DEF NextBy
  <2>5. QED
    BY <2>3, <2>4 DEF SwapInv
<1>3. QED
  BY <1>1, <1>2, NextIsBy

\* Where what a step leaves in a file comes from.
LEMMA TornFrom ==
  ASSUME Typed, StageInv, MoveInv, SwapInv, NEW w \in Writer, NextBy(w),
         NEW p \in {Arc, Bak}, Exists(p)', ~disk'[p].whole
  PROVE  \/ p = Arc /\ BindingBegins(w) /\ disk' = [disk EXCEPT ![Arc] = [disk[Arc] EXCEPT !.whole = FALSE, !.by = w]]
         \/ /\ \E q \in {Arc, Bak} : disk'[p] = disk[q] /\ Exists(q) /\ ~disk[q].whole
            /\ BindingEnds(w) => disk'[p].by # w
<1>1. /\ Arc \in Paths /\ Bak \in Paths /\ Arc # Bak /\ disk \in [Paths -> Content \cup {Absent}]
      /\ Work(w) \in Paths /\ Work(w) # Arc /\ Work(w) # Bak
      /\ File(w) \in Paths /\ File(w) # Arc /\ File(w) # Bak
  BY PathSets, Disjoint DEF Typed, Disks
<1>2. disk'[p] # Absent
  BY DEF Exists
<1>3. CASE NativeApplies(w)
  BY <1>1, <1>2, <1>3 DEF NativeApplies, Written, Exists, BindingEnds, At
<1>4. CASE BindingBegins(w)
  <2>1. disk' = [disk EXCEPT ![Arc] = [disk[Arc] EXCEPT !.whole = FALSE, !.by = w]]
    BY <1>1, <1>4 DEF BindingBegins
  <2>2. ~BindingEnds(w)
    BY <1>4 DEF BindingBegins, BindingEnds, At
  <2>3. QED
    BY <1>1, <1>2, <1>4, <2>1, <2>2 DEF Exists
<1>5. CASE BindingEnds(w)
  BY <1>1, <1>2, <1>5 DEF BindingEnds, Opened, Written, Exists
<1>6. CASE EraseArchive(w) \/ DropOldBackup(w) \/ DropBackup(w)
  <2>1. disk'[p] = disk[p] /\ ~BindingEnds(w)
    BY <1>1, <1>2, <1>6 DEF EraseArchive, DropOldBackup, DropBackup, SwapStep, Leave, Removed, BindingEnds, At
  <2>2. QED
    BY <1>2, <2>1 DEF Exists
<1>7. CASE BackUp(w)
  <2>1. ~BindingEnds(w)
    BY <1>7 DEF BackUp, SwapStep, BindingEnds, At
  <2>2. CASE disk' = Renamed(disk, Arc, Bak)
    BY <1>1, <1>2, <2>1, <2>2 DEF Renamed, Exists
  <2>3. CASE disk' = Removed(disk, {Work(w)})
    BY <1>1, <1>2, <2>1, <2>3 DEF Removed, Exists
  <2>4. QED
    BY <1>7, <2>2, <2>3 DEF BackUp, SwapStep, Leave
<1>8. CASE Install(w)
  <2>1. ~BindingEnds(w) /\ At(w, "install")
    BY <1>8 DEF Install, SwapStep, BindingEnds, At
  <2>2. disk[Work(w)].whole
    <3>1. disk[Work(w)] = Written(w, op[w].seen \cup {w})
      BY <2>1 DEF SwapInv, SwapOK, At
    <3>2. QED
      BY <3>1 DEF Written
  <2>3. CASE disk' = Renamed(disk, Work(w), Arc)
    BY <1>1, <1>2, <2>1, <2>2, <2>3 DEF Renamed, Exists
  <2>4. CASE disk' = disk
    BY <1>2, <2>1, <2>4 DEF Exists
  <2>5. QED
    BY <1>8, <2>3, <2>4 DEF Install, SwapStep
<1>9. CASE Restore(w)
  <2>1. ~BindingEnds(w)
    BY <1>9 DEF Restore, BindingEnds, At
  <2>2. CASE disk' = Removed(Renamed(disk, Bak, Arc), {Work(w)})
    BY <1>1, <1>2, <2>1, <2>2 DEF Renamed, Removed, Exists
  <2>3. CASE disk' = Removed(disk, {Work(w)})
    BY <1>1, <1>2, <2>1, <2>3 DEF Removed, Exists
  <2>4. QED
    BY <1>9, <2>2, <2>3 DEF Restore, Leave
<1>10. CASE ArcMove(w)
  <2>1. ~BindingEnds(w)
    BY <1>10 DEF ArcMove, FileStep, BindingEnds, End, Typed, OpsOK, OpRecord, At, Running
  <2>2. disk[File(w)].whole
    <3>1. \E edits : disk[File(w)] = Written(w, edits)
      BY <1>10 DEF ArcMove, MoveInv, MoveOK, Moving
    <3>2. QED
      BY <3>1 DEF Written
  <2>3. QED
    BY <1>1, <1>2, <1>10, <2>1, <2>2 DEF ArcMove, Renamed, Exists
<1>11. CASE ArcUnlink(w)
  <2>1. ~BindingEnds(w)
    BY <1>11 DEF ArcUnlink, FileStep, BindingEnds, End, Typed, OpsOK, OpRecord, At, Running
  <2>2. QED
    BY <1>1, <1>2, <1>11, <2>1 DEF ArcUnlink, Removed, Exists
<1>12. CASE disk'[Arc] = disk[Arc] /\ disk'[Bak] = disk[Bak] /\ ~BindingEnds(w)
  BY <1>2, <1>12 DEF Exists
<1>13. QED
  BY <1>3, <1>4, <1>5, <1>6, <1>7, <1>8, <1>9, <1>10, <1>11, <1>12, UserFiles

\* The binding knows what it has torn.
LEMMA TornInvStep ==
  ASSUME Typed, StageInv, CallInv, MoveInv, SwapInv, TornInv, Next
  PROVE  TornInv'
<1>1. CASE Crash
  <2>1. /\ disk' = disk /\ \A w \in Writer : op'[w].at = op[w].at /\ op'[w].seen = op[w].seen
        /\ \A w \in Writer : Running(w)' => Running(w)
    BY <1>1, CrashEffect DEF Running
  <2>2. QED
    BY <2>1 DEF TornInv, At, Exists
<1>2. ASSUME NEW w \in Writer, NextBy(w)
      PROVE  TornInv'
  <2>1. Frame(w)
    BY <1>2, NextByTyped
  <2>2. SUFFICES ASSUME NEW v \in Writer, NEW p \in {Arc, Bak}, Exists(p)', ~disk'[p].whole, disk'[p].by = v
                 PROVE  op'[v].at \notin {"new", "binding"} /\ (At(v, "inplace")' => disk'[p].has = op'[v].seen)
    BY DEF TornInv, At, Running
  <2>3. Arc \in Paths /\ Bak \in Paths /\ Arc # Bak /\ disk \in [Paths -> Content \cup {Absent}]
    BY PathSets DEF Typed, Disks
  <2>4. ASSUME p = Arc, BindingBegins(w),
               disk' = [disk EXCEPT ![Arc] = [disk[Arc] EXCEPT !.whole = FALSE, !.by = w]]
        PROVE  op'[v].at \notin {"new", "binding"} /\ (At(v, "inplace")' => disk'[p].has = op'[v].seen)
    <3>1. disk[Arc] \in Content /\ Exists(Arc)
      BY <2>4, SeenType DEF BindingBegins
    <3>2. disk'[Arc].by = w /\ disk'[Arc].has = disk[Arc].has
      BY <2>3, <2>4, <3>1 DEF Content
    <3>3. Reads(w, "binding", "inplace")
      BY <2>4, <3>1, SeenType, ReadShape DEF BindingBegins, Stages
    <3>4. QED
      BY <2>2, <2>4, <3>1, <3>2, <3>3 DEF Reads
  <2>5. ASSUME NEW q \in {Arc, Bak}, disk'[p] = disk[q], Exists(q), ~disk[q].whole,
               BindingEnds(w) => disk'[p].by # w
        PROVE  op'[v].at \notin {"new", "binding"} /\ (At(v, "inplace")' => disk'[p].has = op'[v].seen)
    <3>1. op[v].at \notin {"new", "binding"} /\ (At(v, "inplace") => disk[q].has = op[v].seen)
      BY <2>2, <2>5 DEF TornInv
    <3>2. CASE v # w
      BY <2>1, <2>5, <3>1, <3>2 DEF Frame, Typed, OpsOK, At, Running
    <3>3. CASE v = w
      <4>1. ASSUME NEW act \in Acts[w], Start(w, act)
            PROVE  FALSE
        BY <3>1, <3>3, <4>1, StartEffect
      <4>2. CASE Cancel(w)
        BY <2>5, <3>1, <3>3, <4>2, CancelEffect DEF At, Running
      <4>3. CASE Step(w)
        <5>1. Shape(w)
          BY <4>3, StepShape
        <5>2. QED
          BY <2>5, <3>1, <3>3, <5>1 DEF Shape, Goes, Reads, Ends, At, Running
      <4>4. QED
        BY <1>2, <4>1, <4>2, <4>3 DEF NextBy
    <3>4. QED
      BY <3>2, <3>3
  <2>6. QED
    BY <1>2, <2>2, <2>4, <2>5, TornFrom
<1>3. QED
  BY <1>1, <1>2, NextIsBy

\* An operation that is about to replace the archive has not got its edit into the
\* backup: the archive it set aside did not have it.
LEMMA BackupInvStep ==
  ASSUME Typed, StageInv, CallInv, MoveInv, Exclusive, SwapInv, TornInv, BackupInv, SilentInv, Next
  PROVE  BackupInv'
<1>1. CASE Crash
  <2>1. \A w \in Writer : ~(Running(w)' /\ op'[w].at \in {"install", "drop", "restore"})
    BY <1>1, CrashEffect DEF Running
  <2>2. QED
    BY <2>1 DEF BackupInv, Running
<1>2. ASSUME NEW w \in Writer, NextBy(w)
      PROVE  BackupInv'
  <2>1. Frame(w)
    BY <1>2, NextByTyped
  <2>2. Arc \in Paths /\ Bak \in Paths /\ Arc # Bak /\ disk \in [Paths -> Content \cup {Absent}]
    BY PathSets DEF Typed, Disks
  <2>3. SUFFICES ASSUME NEW v \in Writer, Running(v)', op'[v].at \in {"install", "drop", "restore"}
                 PROVE  v \notin disk'[Bak].has
    BY DEF BackupInv, Running
  <2>4. CASE v # w
    <3>1. Running(v) /\ op[v].at \in {"install", "drop", "restore"}
      BY <2>1, <2>3, <2>4 DEF Frame, Typed, OpsOK, Running
    <3>2. v \notin disk[Bak].has
      BY <3>1 DEF BackupInv
    <3>3. disk'[Bak] = disk[Bak] \/ BindingEnds(w)
      BY <1>2, <2>4, <3>1, SwapUndisturbed DEF SwapStages
    <3>4. ASSUME BindingEnds(w), disk'[Bak] # disk[Bak]
          PROVE  v \notin disk'[Bak].has
      <4>1. Exists(Bak) /\ ~disk[Bak].whole /\ disk[Bak].by = w
        BY <2>2, <3>4 DEF BindingEnds, Opened
      <4>2. At(w, "inplace") /\ disk[Bak].has = op[w].seen
        BY <3>4, <4>1 DEF BindingEnds, TornInv
      <4>3. disk'[Bak].has = op[w].seen \cup {w}
        BY <2>2, <3>4, <4>1 DEF BindingEnds, Opened, Written
      <4>4. QED
        BY <2>4, <3>2, <4>2, <4>3
    <3>5. QED
      BY <3>2, <3>3, <3>4
  <2>5. CASE v = w
    <3>1. ASSUME NEW act \in Acts[w], Start(w, act)
          PROVE  FALSE
      BY <2>3, <2>5, <3>1, StartEffect
    <3>2. CASE Cancel(w)
      BY <2>3, <2>5, <3>2, CancelEffect DEF StageInv, StageOK, ConversionStages
    <3>3. ASSUME Step(w)
          PROVE  v \notin disk'[Bak].has
      <4>1. Shape(w)
        BY <3>3, StepShape
      <4>2. /\ op[w].at \in {"backup", "install", "drop", "restore"}
            /\ Running(w)
        BY <2>3, <2>5, <4>1 DEF Shape, Goes, Reads, Ends, At, Running
      <4>3. BackUp(w) \/ Install(w) \/ DropBackup(w) \/ Restore(w) \/ FileStep(w)
        BY <3>3, <4>2 DEF Step, Load, WriteBack, MainFails, CallReturns, NativeReads, NativeApplies,
             NativeAborts, NativeReturns,
             BindingBegins, BindingEnds, BindingBreaks, BindingRefuses, RebuildStarts, Extract, RebuildFails,
             EraseArchive, Mutate, Compressed, Unpack, Pack, At, PublishOutput, DiscardOutput, DropOldBackup, SwapStep
      <4>4. ~FileStep(w)
        BY <4>2 DEF CallInv, CallOK, FileStep, CallStep, RenameOk, RetryOk, RenameFails, UnlinkDestination,
           RetryFails, CleanupCall
      <4>5. CASE BackUp(w)
        <5>1. disk' = Renamed(disk, Arc, Bak) /\ Exists(Arc) /\ At(w, "backup")
          BY <2>3, <2>5, <4>5 DEF BackUp, SwapStep, Leave, End, Running, Typed, OpsOK, OpRecord
        <5>2. Silent(w) /\ Arc \notin Own(w)
          <6>1. Arc # Work(w)
            BY Disjoint
          <6>2. QED
            BY <5>1, <6>1 DEF Silent, Own, At, Running
        <5>3. w \notin disk[Arc].has
          BY <2>2, <5>1, <5>2 DEF SilentInv, SilentOK
        <5>4. QED
          BY <2>2, <2>5, <5>1, <5>3 DEF Renamed
      <4>6. CASE Install(w) \/ DropBackup(w)
        <5>1. op[w].at \in {"install", "drop"}
          BY <4>6 DEF Install, DropBackup, SwapStep, At
        <5>2. disk'[Bak] = disk[Bak]
          BY <2>2, <2>3, <2>5, <4>6, Disjoint, PathSets DEF Install, DropBackup, SwapStep, Renamed, Leave, End, Running,
             Typed, OpsOK, OpRecord
        <5>3. QED
          BY <2>5, <4>2, <5>1, <5>2 DEF BackupInv
      <4>7. CASE Restore(w)
        BY <2>3, <2>5, <4>7 DEF Restore, Leave, End, Running, Typed, OpsOK, OpRecord
      <4>8. QED
        BY <4>3, <4>4, <4>5, <4>6, <4>7
    <3>4. QED
      BY <1>2, <3>1, <3>2, <3>3 DEF NextBy, StageInv, StageOK, ConversionStages
  <2>6. QED
    BY <2>4, <2>5
<1>3. QED
  BY <1>1, <1>2, NextIsBy

\* The edits that a step leaves in a file were in a file of the user or of the
\* operation, or were read by the operation, or are its own.
LEMMA HasFrom ==
  ASSUME Typed, StageInv, MoveInv, NEW w \in Writer, NextBy(w), NEW p \in Paths, Exists(p)'
  PROVE  \/ Exists(p) /\ disk'[p].has = disk[p].has
         \/ disk'[p].has = {}
         \/ op[w].seen # Absent /\ disk'[p].has \in {op[w].seen, op[w].seen \cup {w}}
         \/ \E q \in TempFiles(w) \cup {Work(w), Arc, Bak} : Exists(q) /\ disk'[p].has = disk[q].has
<1>1. /\ disk \in [Paths -> Content \cup {Absent}] /\ disk'[p] # Absent
      /\ Arc \in Paths /\ Bak \in Paths /\ Work(w) \in Paths
  BY PathSets DEF Typed, Disks, Exists
<1>2. op[w].at \notin UnreadStages => op[w].seen # Absent
  BY DEF StageInv, StageOK
<1>3. CASE disk' = disk
  BY <1>1, <1>3 DEF Exists
<1>4. ASSUME NEW act \in Acts[w], Start(w, act)
      PROVE  disk' = disk
  BY <1>4 DEF Start, fileVars
<1>5. CASE Cancel(w)
  BY <1>3, <1>5 DEF Cancel, fileVars
<1>6. CASE Rest1(w)
  BY <1>1, <1>2, <1>6 DEF Rest1, Load, MainFails, NativeReads, NativeApplies, NativeAborts, NativeReturns,
     Fail, fileVars, Exists, Written, At, UnreadStages
<1>7. CASE Rest2(w)
  <2>1. CASE BindingBegins(w)
    <3>1. disk[Arc] \in Content
      BY <2>1, SeenType DEF BindingBegins
    <3>2. [disk[Arc] EXCEPT !.whole = FALSE, !.by = w].has = disk[Arc].has
      BY <3>1 DEF Content
    <3>3. disk' = [disk EXCEPT ![Arc] = [disk[Arc] EXCEPT !.whole = FALSE, !.by = w]]
      BY <1>1, <2>1 DEF BindingBegins
    <3>4. QED
      BY <1>1, <2>1, <3>2, <3>3 DEF Exists, BindingBegins
  <2>2. CASE ~BindingBegins(w)
    BY <1>1, <1>2, <1>7, <2>2 DEF Rest2, BindingEnds, BindingBreaks, BindingRefuses,
         RebuildStarts, Extract, RebuildFails, EraseArchive, Mutate, Compressed, Leave, fileVars,
         Exists, Written, Removed, At, UnreadStages
  <2>3. QED
    BY <2>1, <2>2
<1>8. CASE Rest3(w)
  BY <1>1, <1>2, <1>8 DEF Rest3, DropOldBackup, BackUp, Install, DropBackup, Restore, Unpack, Pack,
       SwapStep, Leave, fileVars, Exists, Removed, Renamed, At, Written, Partial, UnreadStages
<1>9. CASE WriteBack(w)
  BY <1>1, <1>2, <1>9 DEF WriteBack, WriteTemp, Exists, Written, Partial, At, UnreadStages
<1>10. CASE CallReturns(w) \/ PublishOutput(w) \/ DiscardOutput(w)
  BY <1>3, <1>10 DEF CallReturns, PublishOutput, DiscardOutput, Publish, Discard, fileVars
<1>11. CASE FileStep(w)
  <2>1. CASE RenameOk(w) \/ RetryOk(w)
    <3>1. MoveDone(w) /\ call[w].at \in Moving
      BY <2>1 DEF RenameOk, RetryOk, Moving
    <3>2. Next1(w).src \in TempFiles(w) /\ Next1(w).src \in Paths /\ Next1(w).dst \in Paths
      BY <3>1, NextMove
    <3>3. QED
      BY <1>1, <3>1, <3>2 DEF MoveDone, Renamed, Exists
  <2>2. CASE RenameFails(w) \/ RetryFails(w) \/ UnlinkDestination(w) \/ CleanupCall(w)
    BY <1>1, <2>2 DEF RenameFails, RetryFails, UnlinkDestination, CleanupCall, Removed, Exists
  <2>3. QED
    BY <1>11, <2>1, <2>2 DEF FileStep, CallStep
<1>12. QED
  BY <1>3, <1>4, <1>5, <1>6, <1>7, <1>8, <1>9, <1>10, <1>11, StepKinds DEF NextBy, Calling

\* What an operation has read was in the archive.
LEMMA SeenFrom ==
  ASSUME Typed, StageInv, MoveInv, NEW w \in Writer, NextBy(w)
  PROVE  op'[w].seen = op[w].seen \/ op'[w].seen = {} \/ (Exists(Arc) /\ op'[w].seen = disk[Arc].has)
<1>1. ASSUME NEW act \in Acts[w], Start(w, act)
      PROVE  op'[w].seen = op[w].seen
  BY <1>1, StartEffect
<1>2. CASE Cancel(w)
  BY <1>2, CancelEffect
<1>3. CASE Step(w)
  BY <1>3, StepShape DEF Shape, Ends, Goes, Reads
<1>4. QED
  BY <1>1, <1>2, <1>3 DEF NextBy

\* Who is silent after a step was silent before.
LEMMA SilentBefore ==
  ASSUME Typed, StageInv, MoveInv, NEW w \in Writer, NextBy(w), Silent(w)'
  PROVE  Silent(w)
<1>1. ASSUME NEW act \in Acts[w], Start(w, act)
      PROVE  Silent(w)
  BY <1>1, StartEffect DEF Silent
<1>2. CASE Cancel(w)
  BY <1>2, CancelEffect DEF Silent, fileVars
<1>3. CASE Step(w)
  <2>1. Shape(w)
    BY <1>3, StepShape
  <2>2. CASE op' = op
    <3>1. PublishOutput(w) \/ DiscardOutput(w) \/ FileStep(w) \/ ~(op[w].at = "write" /\ call[w].at = "done")
      BY <1>3, <2>2 DEF Step, Load, WriteBack, MainFails, CallReturns, NativeReads, NativeApplies,
           NativeAborts, NativeReturns, BindingBegins, BindingEnds, BindingBreaks, BindingRefuses, RebuildStarts,
           Extract, RebuildFails, EraseArchive, Mutate, Compressed, Unpack, Pack, At, DropOldBackup, BackUp, Install,
           DropBackup, Restore, SwapStep, End, Typed, OpsOK, OpRecord, fileVars, Silent, Running
    <3>2. (PublishOutput(w) \/ DiscardOutput(w) \/ FileStep(w)) => ~(op[w].at = "write" /\ call[w].at = "done")
      BY DEF PublishOutput, DiscardOutput, FileStep, CallStep, RenameOk, RetryOk, RenameFails, UnlinkDestination,
         RetryFails, CleanupCall, At
    <3>3. QED
      BY <2>2, <3>1, <3>2 DEF Silent
  <2>3. QED
    BY <2>1, <2>2 DEF Shape, Ends, Endings, Goes, Reads, At, Running, Silent
<1>4. QED
  BY <1>1, <1>2, <1>3 DEF NextBy

\* The edit of a silent operation is in no file but its own, and nobody has read it.
LEMMA SilentInvStep ==
  ASSUME Typed, StageInv, CallInv, MoveInv, SilentInv, Next
  PROVE  SilentInv'
<1>1. CASE Crash
  <2>1. ASSUME NEW w \in Writer, Silent(w)'
        PROVE  Silent(w) /\ Own(w) = {}
    <3>1. op[w].res = "none" /\ op[w].at = "new"
      BY <1>1, <2>1, CrashEffect DEF Silent, Running, StageInv, StageOK
    <3>2. QED
      BY <3>1 DEF Silent, Own
  <2>2. disk' = disk /\ \A v \in Writer : op'[v].seen = op[v].seen
    BY <1>1, CrashEffect
  <2>3. QED
    BY <2>1, <2>2 DEF SilentInv, SilentOK, Exists
<1>2. ASSUME NEW x \in Writer, NextBy(x)
      PROVE  SilentInv'
  <2>1. Frame(x)
    BY <1>2, NextByTyped
  <2>2. /\ disk \in [Paths -> Content \cup {Absent}]
        /\ Arc \in Paths /\ Bak \in Paths
    BY PathSets DEF Typed, Disks
  <2>3. SUFFICES ASSUME NEW w \in Writer, Silent(w)'
                 PROVE  /\ \A p \in Paths \ Own(w)' : Exists(p)' => w \notin disk'[p].has
                        /\ \A v \in Writer : op'[v].seen # Absent => w \notin op'[v].seen
    BY DEF SilentInv, SilentOK
  <2>4. CASE w # x
    <3>1. op'[w] = op[w] /\ call'[w] = call[w]
      BY <2>1, <2>4 DEF Frame, Typed, OpsOK, CallsOK
    <3>2. Silent(w) /\ Own(w)' = Own(w)
      BY <2>3, <3>1 DEF Silent, Own
    <3>3. /\ \A p \in Paths \ Own(w) : Exists(p) => w \notin disk[p].has
          /\ \A v \in Writer : op[v].seen # Absent => w \notin op[v].seen
      BY <3>2 DEF SilentInv, SilentOK
    <3>4. TempFiles(x) \cup {Work(x), Arc, Bak} \subseteq Paths \ Own(w)
      BY <2>2, <2>4, Disjoint, PathSets DEF Own
    <3>5. \A p \in Paths \ Own(w) : Exists(p)' => w \notin disk'[p].has
      BY <1>2, <2>4, <3>3, <3>4, HasFrom
    <3>6. \A v \in Writer : op'[v].seen # Absent => w \notin op'[v].seen
      <4>1. \A v \in Writer \ {x} : op'[v].seen = op[v].seen
        BY <2>1 DEF Frame, Typed, OpsOK
      <4>2. Arc \in Paths \ Own(w)
        BY <3>4
      <4>3. QED
        BY <1>2, <3>3, <4>1, <4>2, SeenFrom
    <3>7. QED
      BY <3>2, <3>5, <3>6
  <2>5. CASE w = x
    <3>1. Silent(w)
      BY <1>2, <2>3, <2>5, SilentBefore
    <3>2. /\ \A p \in Paths \ Own(w) : Exists(p) => w \notin disk[p].has
          /\ \A v \in Writer : op[v].seen # Absent => w \notin op[v].seen
      BY <3>1 DEF SilentInv, SilentOK
    <3>3. Arc \notin Own(w) /\ Bak \notin Own(w) /\ Arc # Work(w) /\ Bak # Work(w)
      BY Disjoint DEF Own
    <3>4. \A v \in Writer : op'[v].seen # Absent => w \notin op'[v].seen
      <4>1. \A v \in Writer \ {x} : op'[v].seen = op[v].seen
        BY <2>1 DEF Frame, Typed, OpsOK
      <4>2. QED
        BY <1>2, <2>2, <2>5, <3>2, <3>3, <4>1, SeenFrom
    <3>5. ASSUME NEW p \in Paths \ Own(w)', Exists(p)'
          PROVE  w \notin disk'[p].has
      <4>1. op'[w].res = "none" /\ op'[w].at \notin {"exited", "drop", "restore"}
        BY <2>3 DEF Silent
      <4>2. ASSUME disk' = disk, Own(w) \subseteq Own(w)'
            PROVE  w \notin disk'[p].has
        BY <3>2, <3>5, <4>2 DEF Exists
      <4>3. ASSUME NEW act \in Acts[w], Start(w, act)
            PROVE  disk' = disk /\ Own(w) = {}
        BY <4>3, StartEffect DEF fileVars, Own
      <4>4. CASE Cancel(w)
        BY <4>2, <4>4, CancelEffect DEF fileVars, Own
      <4>5. CASE Step(w)
        <5>1. Shape(w)
          BY <4>5, StepShape
        <5>2. CASE Rest1(w)
          <6>1. Own(w) = {} /\ ~NativeApplies(w)
            <7>1. op[w].at \notin {"write"} \cup SwapStages
              BY <5>2 DEF Rest1, Load, MainFails, NativeReads, NativeApplies, NativeAborts, NativeReturns, At, SwapStages
            <7>2. NativeApplies(w) => op'[w].at = "exited"
              BY DEF NativeApplies, GoTo, Typed, OpsOK, OpRecord
            <7>3. QED
              BY <4>1, <7>1, <7>2 DEF Own, SwapStages
          <6>2. QED
            BY <4>2, <5>2, <6>1 DEF Rest1, Load, MainFails, NativeReads, NativeAborts, NativeReturns, Fail, fileVars
        <5>3. CASE Rest2(w)
          <6>1. Own(w) = {}
            BY <5>3 DEF Own, Rest2, BindingBegins, BindingEnds, BindingBreaks, BindingRefuses,
               RebuildStarts, Extract, RebuildFails, EraseArchive, Mutate, Compressed, At
          <6>2. CASE BindingBegins(w)
            <7>1. disk[Arc] \in Content /\ Exists(Arc)
              BY <6>2, SeenType DEF BindingBegins
            <7>2. [disk[Arc] EXCEPT !.whole = FALSE, !.by = w].has = disk[Arc].has
              BY <7>1 DEF Content
            <7>3. disk' = [disk EXCEPT ![Arc] = [disk[Arc] EXCEPT !.whole = FALSE, !.by = w]]
              BY <2>2, <6>2 DEF BindingBegins
            <7>4. QED
              BY <2>2, <3>2, <3>5, <6>1, <7>1, <7>2, <7>3 DEF Exists
          <6>3. CASE Compressed(w)
            <7>1. op'[w].at = "swap"
              BY <6>3 DEF Compressed, GoTo, Typed, OpsOK, OpRecord
            <7>2. Own(w)' = {Work(w)}
              BY <7>1 DEF Own
            <7>3. QED
              BY <2>2, <3>2, <3>5, <6>1, <6>3, <7>2 DEF Compressed, Exists
          <6>4. ~(BindingEnds(w) \/ RebuildFails(w) \/ EraseArchive(w))
            BY <4>1 DEF BindingEnds, RebuildFails, EraseArchive, Leave, End, Typed, OpsOK, OpRecord
          <6>5. QED
            BY <4>2, <5>3, <6>1, <6>2, <6>3, <6>4 DEF Rest2, BindingBreaks, BindingRefuses, RebuildStarts, Extract,
               Mutate, fileVars
        <5>4. CASE Rest3(w)
          <6>1. CASE DropOldBackup(w) \/ BackUp(w)
            <7>1. op[w].at \in {"swap", "backup"} /\ op'[w].at \in {"backup", "install"}
              BY <4>1, <6>1 DEF DropOldBackup, BackUp, SwapStep, At, GoTo, Leave, End, Typed, OpsOK, OpRecord
            <7>2. Own(w) = {Work(w)} /\ Own(w)' = {Work(w)}
              BY <7>1 DEF Own
            <7>3. QED
              BY <2>2, <3>2, <3>3, <3>5, <6>1, <7>2, PathSets DEF DropOldBackup, BackUp, SwapStep, Removed, Renamed,
                 Exists, Leave
          <6>2. ~(Install(w) \/ DropBackup(w) \/ Restore(w))
            BY <4>1 DEF Install, DropBackup, Restore, SwapStep, Leave, GoTo, End, Typed, OpsOK, OpRecord
          <6>3. CASE Unpack(w) \/ Pack(w)
            <7>1. Own(w) = {}
              BY <6>3 DEF Unpack, Pack, At, Own
            <7>2. CASE Unpack(w)
              BY <4>2, <7>1, <7>2 DEF Unpack, fileVars
            <7>3. CASE Pack(w)
              <8>1. w \notin op[w].seen
                BY <3>2, <7>3 DEF Pack, At, StageInv, StageOK, UnreadStages
              <8>2. QED
                BY <2>2, <3>2, <3>5, <7>1, <7>3, <8>1 DEF Pack, Written, Partial, Exists
            <7>4. QED
              BY <6>3, <7>2, <7>3
          <6>4. QED
            BY <5>4, <6>1, <6>2, <6>3 DEF Rest3
        <5>5. CASE WriteBack(w)
          <6>1. op'[w].at = "write" /\ Own(w) = {}
            BY <5>5 DEF WriteBack, GoTo, At, Own, Typed, OpsOK, OpRecord
          <6>2. Own(w)' = TempFiles(w)
            BY <6>1 DEF Own
          <6>3. QED
            BY <2>2, <3>2, <3>5, <5>5, <6>1, <6>2, PathSets DEF WriteBack, WriteTemp, Exists
        <5>6. ~CallReturns(w)
          BY <4>1 DEF CallReturns, End, Typed, OpsOK, OpRecord
        <5>7. CASE PublishOutput(w) \/ DiscardOutput(w)
          BY <4>2, <5>7 DEF PublishOutput, DiscardOutput, Publish, Discard, Own
        <5>8. CASE FileStep(w)
          <6>1. Own(w)' = Own(w)
            BY <5>8 DEF FileStep, Own
          <6>2. CASE RenameOk(w) \/ RetryOk(w)
            <7>1. MoveDone(w) /\ call[w].at \in Moving
              BY <6>2 DEF RenameOk, RetryOk, Moving
            <7>2. /\ Next1(w).src \in Paths /\ Next1(w).dst \in Paths
                  /\ op[w].dst = "arc" => Len(call[w].todo) = 1
              BY <7>1, NextMove
            <7>3. op[w].at # "write"
              <8>1. op[w].at = "write" => op[w].dst = "arc"
                BY DEF StageInv, StageOK, Conversions, ConversionStages
              <8>2. op[w].dst = "arc" => call'[w].at = "done"
                BY <7>1, <7>2 DEF MoveDone, Typed, CallsOK, CallRecord
              <8>3. QED
                BY <2>3, <5>8, <8>1, <8>2 DEF Silent, FileStep
            <7>4. Own(w) = {}
              BY <7>1, <7>3 DEF CallInv, CallOK, Own
            <7>5. QED
              BY <2>2, <3>2, <3>5, <7>1, <7>2, <7>4 DEF MoveDone, Renamed, Exists
          <6>3. CASE RenameFails(w) \/ RetryFails(w) \/ UnlinkDestination(w) \/ CleanupCall(w)
            BY <2>2, <3>2, <3>5, <6>1, <6>3 DEF RenameFails, RetryFails, UnlinkDestination, CleanupCall, Removed, Exists
          <6>4. QED
            BY <5>8, <6>2, <6>3 DEF FileStep, CallStep
        <5>9. QED
          BY <4>5, <5>2, <5>3, <5>4, <5>5, <5>6, <5>7, <5>8, StepKinds DEF Calling
      <4>6. QED
        BY <1>2, <2>5, <4>2, <4>3, <4>4, <4>5 DEF NextBy
    <3>6. QED
      BY <3>4, <3>5
  <2>6. QED
    BY <2>4, <2>5
<1>3. QED
  BY <1>1, <1>2, NextIsBy

\* What is moved to the archive is a whole file that holds the operation's edits.
LEMMA IncomingWhole ==
  ASSUME Typed, StageInv, CallInv, MoveInv, NEW w \in Writer, call[w].at \in Moving, op[w].dst = "arc"
  PROVE  disk[File(w)] # Absent /\ disk[File(w)].whole
<1>1. op[w].seen \in SUBSET Writer
  <2>1. op[w].at \in {"write", "publish"}
    BY DEF CallInv, CallOK
  <2>2. op[w].seen # Absent
    BY <2>1 DEF StageInv, StageOK, UnreadStages
  <2>3. QED
    BY <2>2 DEF Typed, OpsOK, OpRecord
<1>2. PICK edits \in SUBSET Writer : disk[File(w)] = Written(w, edits)
  <2>1. \/ disk[File(w)] = Written(w, op[w].seen \cup {w})
        \/ disk[File(w)] = Written(w, op[w].seen)
    BY DEF MoveInv, MoveOK
  <2>2. QED
    BY <1>1, <2>1
<1>3. disk[File(w)] # Absent
  BY <1>2, Contents
<1>4. QED
  BY <1>2, <1>3 DEF Written

\* Only an operation that has not ended takes a step.
LEMMA StepsRun ==
  ASSUME Typed, StageInv, CallInv, MoveInv, NEW w \in Writer, NextBy(w)
  PROVE  op[w].res = "none"
<1>1. ASSUME NEW act \in Acts[w], Start(w, act)
      PROVE  op[w].res = "none"
  BY <1>1, StartEffect
<1>2. CASE Cancel(w)
  BY <1>2 DEF Cancel, Running
<1>3. CASE Rest1(w) \/ Rest2(w) \/ Rest3(w)
  BY <1>3, RestOfCall DEF Running
<1>4. CASE WriteBack(w) \/ CallReturns(w) \/ PublishOutput(w) \/ DiscardOutput(w)
  BY <1>4 DEF WriteBack, CallReturns, PublishOutput, DiscardOutput, At, Running
<1>5. CASE FileStep(w)
  <2>1. call[w].at \in Moving \cup {"cleanup"}
    BY <1>5 DEF FileStep, CallStep, RenameOk, RetryOk, RenameFails, UnlinkDestination, RetryFails, CleanupCall, Moving
  <2>2. QED
    BY <2>1 DEF CallInv, CallOK, Running
<1>6. QED
  BY <1>1, <1>2, <1>3, <1>4, <1>5, StepKinds DEF NextBy, Calling

\* The only steps that take the archive away.
LEMMA Removals ==
  ASSUME Typed, StageInv, CallInv, MoveInv, SwapInv, NEW w \in Writer, NextBy(w),
         Exists(Arc), ~Exists(Arc)'
  PROVE  \/ EraseArchive(w)
         \/ BackUp(w) /\ Swapping(w)' /\ disk'[Bak] = disk[Arc]
         \/ ArcUnlink(w)
<1>1. /\ Arc \in Paths /\ Bak \in Paths /\ Arc # Bak /\ disk \in [Paths -> Content \cup {Absent}]
      /\ Work(w) \in Paths /\ Work(w) # Arc /\ Work(w) # Bak
      /\ File(w) \in Paths /\ File(w) # Arc /\ File(w) # Bak
  BY PathSets, Disjoint DEF Typed, Disks
<1>2. op[w].seen # Absent => Written(w, op[w].seen \cup {w}) # Absent
  <2>1. op[w].seen # Absent => op[w].seen \cup {w} \in SUBSET Writer
    BY DEF Typed, OpsOK, OpRecord
  <2>2. QED
    BY <2>1, Contents
<1>3. op[w].at \notin UnreadStages => op[w].seen # Absent
  BY DEF StageInv, StageOK
<1>4. disk[Arc] # Absent /\ disk'[Arc] = Absent
  BY DEF Exists
<1>5. ~NativeApplies(w)
  BY <1>1, <1>2, <1>3, <1>4 DEF NativeApplies, At, UnreadStages
<1>6. ~BindingBegins(w)
  <2>1. [disk[Arc] EXCEPT !.whole = FALSE, !.by = w] \in Content
    BY <1>4, SeenType DEF Content, Exists
  <2>2. BindingBegins(w) => disk'[Arc] = [disk[Arc] EXCEPT !.whole = FALSE, !.by = w]
    BY <1>1 DEF BindingBegins
  <2>3. QED
    BY <1>4, <2>1, <2>2, Contents
<1>7. ~BindingEnds(w)
  BY <1>1, <1>2, <1>3, <1>4 DEF BindingEnds, At, UnreadStages
<1>8. ~DropOldBackup(w) /\ ~DropBackup(w)
  BY <1>1, <1>4 DEF DropOldBackup, DropBackup, SwapStep, Leave, Removed
<1>9. ~Install(w)
  BY <1>1, <1>2, <1>3, <1>4 DEF Install, SwapStep, Renamed, SwapInv, SwapOK, At, UnreadStages
<1>10. ~Restore(w)
  BY <1>1, <1>4 DEF Restore, Leave, Renamed, Removed, SwapInv, SwapOK, At, Exists
<1>11. ~ArcMove(w)
  <2>1. ArcMove(w) => disk[File(w)] # Absent
    BY IncomingWhole DEF ArcMove, Moving
  <2>2. QED
    BY <1>1, <1>4, <2>1 DEF ArcMove, Renamed
<1>12. BackUp(w) => Swapping(w)' /\ disk'[Bak] = disk[Arc]
  <2>1. ASSUME BackUp(w)
        PROVE  /\ GoTo(w, "install") /\ At(w, "backup")
               /\ disk' = Renamed(disk, Arc, Bak)
    BY <1>1, <1>4, <2>1 DEF BackUp, SwapStep, Leave, Removed
  <2>2. ASSUME BackUp(w)
        PROVE  Goes(w, "backup", "install")
    BY <2>1, <2>2, GoToShape DEF Stages, SwapStages
  <2>3. ASSUME BackUp(w)
        PROVE  op'[w].act # "none"
    BY <2>2, <2>3 DEF Goes, At, Running
  <2>4. QED
    BY <1>1, <2>1, <2>2, <2>3 DEF Renamed, Goes, Swapping, Running
<1>13. QED
  BY <1>4, <1>5, <1>6, <1>7, <1>8, <1>9, <1>10, <1>11, <1>12, UserFiles

\* While the archive's name is missing, its content is where CopyInv says.
LEMMA CopyInvStep ==
  ASSUME ~Fragile, Typed, StageInv, CallInv, MoveInv, Exclusive, SwapInv, CopyInv, Next
  PROVE  CopyInv'
<1>1. CASE Crash
  <2>1. /\ disk' = disk /\ faults' = faults
        /\ \A v \in Writer : ~Running(v)' /\ op'[v].at = op[v].at /\ op'[v].dst = op[v].dst
        /\ \A v \in Writer : op'[v].res = IF Running(v) THEN "crashed" ELSE op[v].res
    BY <1>1, CrashEffect DEF Running
  <2>2. SUFFICES ASSUME faults <= 1, ~Exists(Arc), ~Erased
                 PROVE  (Exists(Bak) \/ \E u \in Writer : Stranded(u)')
    BY <2>1 DEF CopyInv, NobodySwaps, Erased, Exists, Running, Stranded
  <2>3. ASSUME NEW u \in Writer, Arriving(u)
        PROVE  Stranded(u)'
    BY <2>1, <2>3 DEF Arriving, Stranded, CallInv, CallOK, Moving, Exists
  <2>4. ASSUME NEW u \in Writer, Stranded(u)
        PROVE  Stranded(u)'
    BY <2>1, <2>4 DEF Stranded, Exists, Running
  <2>5. QED
    BY <2>2, <2>3, <2>4 DEF CopyInv
<1>2. ASSUME NEW w \in Writer, NextBy(w), faults' <= 1, ~Exists(Arc)', ~Erased'
      PROVE  \/ \E u \in Writer : Arriving(u)'
             \/ Exists(Bak)' /\ \E u \in Writer : Swapping(u)'
             \/ (Exists(Bak)' \/ \E u \in Writer : Stranded(u)') /\ NobodySwaps'
  <2>1. Frame(w) /\ op[w].res = "none" /\ StageOK(w) /\ CallOK(w) /\ SwapOK(w)
    BY <1>2, NextByTyped, StepsRun DEF StageInv, CallInv, SwapInv
  <2>2. faults \in Nat /\ faults' \in {faults, faults + 1} /\ faults <= 1
    BY <1>2, <2>1, FileAssumption DEF Frame, Typed, RestOK
  <2>3. /\ \A v \in Writer \ {w} : op'[v] = op[v] /\ call'[v] = call[v] /\ disk'[File(v)] = disk[File(v)]
        /\ ~Erased
    <3>1. \A v \in Writer \ {w} : op'[v] = op[v] /\ call'[v] = call[v] /\ disk'[File(v)] = disk[File(v)]
      BY <2>1, PathSets DEF Frame, Typed, OpsOK, CallsOK
    <3>2. ~Erased
      BY <1>2, <2>1, <3>1 DEF Erased
    <3>3. QED
      BY <3>1, <3>2
  <2>4. /\ Arc \in Paths /\ Bak \in Paths /\ Arc # Bak /\ disk \in [Paths -> Content \cup {Absent}]
        /\ Work(w) \in Paths /\ Work(w) # Arc /\ Work(w) # Bak
        /\ File(w) \in Paths /\ File(w) # Arc /\ File(w) # Bak
    BY PathSets, Disjoint DEF Typed, Disks
  <2>5. ~EraseArchive(w)
    <3>1. EraseArchive(w) => op'[w].at = "mutate" /\ op'[w].res = "ok"
      BY DEF EraseArchive, Leave, End, At, Typed, OpsOK, OpRecord
    <3>2. QED
      BY <1>2, <3>1 DEF Erased
  <2>6. CASE Exists(Arc)
    <3>1. CASE BackUp(w) /\ Swapping(w)' /\ disk'[Bak] = disk[Arc]
      BY <2>6, <3>1 DEF Exists
    <3>2. CASE ArcUnlink(w)
      <4>1. disk[File(w)] # Absent /\ disk[File(w)].whole
        BY <3>2, IncomingWhole DEF ArcUnlink, Moving
      <4>2. Arriving(w)'
        BY <2>4, <3>2, <4>1 DEF ArcUnlink, Arriving, Removed, Exists, FileStep
      <4>3. QED
        BY <4>2
    <3>3. QED
      BY <1>2, <2>5, <2>6, <3>1, <3>2, Removals
  <2>7. CASE ~Exists(Arc) /\ \E u \in Writer : Arriving(u)
    <3>1. PICK u \in Writer : Arriving(u)
      BY <2>7
    <3>2. CASE u # w
      BY <2>3, <3>1, <3>2 DEF Arriving, Exists
    <3>3. CASE u = w
      <4>1. call[w].at = "retry" /\ op[w].dst = "arc" /\ disk[File(w)] # Absent
        BY <3>1, <3>3 DEF Arriving, Exists
      <4>2. ~\E act \in Acts[w] : Start(w, act)
        BY <2>1, <4>1, StartEffect DEF CallOK
      <4>3. CASE Cancel(w)
        BY <3>1, <3>3, <4>3, CancelEffect DEF Arriving, fileVars, Exists
      <4>4. ~(Rest1(w) \/ Rest2(w) \/ Rest3(w))
        BY <2>1, <4>1, RestOfCall DEF CallOK
      <4>5. ~(WriteBack(w) \/ CallReturns(w) \/ PublishOutput(w) \/ DiscardOutput(w))
        BY <4>1 DEF WriteBack, WriteTemp, CallReturns, PublishOutput, Publish, DiscardOutput, Discard
      <4>6. ~FileStep(w)
        <5>1. /\ call[w].at \in Moving /\ Next1(w).dst = Arc /\ Next1(w).src = File(w) /\ faults >= 1
          BY <2>1, <4>1, NextMove DEF Moving, CallOK
        <5>2. ~RetryOk(w)
          <6>1. RetryOk(w) => disk'[Arc] = disk[File(w)]
            BY <2>4, <5>1 DEF RetryOk, MoveDone, Renamed
          <6>2. QED
            BY <1>2, <4>1, <6>1 DEF Exists
        <5>3. ~RetryFails(w)
          BY <1>2, <2>2, <2>7, <5>1 DEF RetryFails, Fault
        <5>4. QED
          BY <4>1, <5>2, <5>3 DEF FileStep, CallStep, RenameOk, RenameFails, UnlinkDestination, CleanupCall
      <4>7. QED
        BY <1>2, <4>2, <4>3, <4>4, <4>5, <4>6, StepKinds DEF NextBy, Calling
    <3>4. QED
      BY <3>2, <3>3
  <2>8. CASE ~Exists(Arc) /\ Exists(Bak) /\ \E u \in Writer : Swapping(u)
    <3>1. PICK u \in Writer : Swapping(u)
      BY <2>8
    <3>2. CASE u # w
      <4>1. Swapping(u)'
        BY <2>3, <3>1, <3>2 DEF Swapping, Running
      <4>2. Exists(Bak)'
        BY <1>2, <2>8, <3>1, <3>2, SwapUndisturbed DEF Swapping, SwapStages
      <4>3. QED
        BY <4>1, <4>2
    <3>3. CASE u = w
      <4>1. Running(w) /\ op[w].at \in {"install", "restore"}
        BY <3>1, <3>3 DEF Swapping
      <4>2. ~Cancel(w) /\ ~\E act \in Acts[w] : Start(w, act)
        BY <2>1, <4>1, StartEffect, CancelEffect DEF StageOK, ConversionStages
      <4>3. Install(w) \/ Restore(w)
        <5>1. call[w].at = "idle"
          BY <2>1, <4>1 DEF CallOK
        <5>2. ~Calling(w)
          BY <4>1, <5>1 DEF Calling, WriteBack, CallReturns, PublishOutput, DiscardOutput, FileStep, CallStep, At,
             RenameOk, RetryOk, RenameFails, UnlinkDestination, RetryFails, CleanupCall
        <5>3. ~Rest1(w) /\ ~Rest2(w)
          BY <4>1 DEF Rest1, Load, MainFails, NativeReads, NativeApplies, NativeAborts, NativeReturns,
             Rest2, BindingBegins, BindingEnds, BindingBreaks, BindingRefuses, RebuildStarts,
             Extract, RebuildFails, EraseArchive, Mutate, Compressed, At
        <5>4. ~(DropOldBackup(w) \/ BackUp(w) \/ DropBackup(w) \/ Unpack(w) \/ Pack(w))
          BY <4>1 DEF DropOldBackup, BackUp, DropBackup, Unpack, Pack, SwapStep, At
        <5>5. QED
          BY <1>2, <4>2, <5>2, <5>3, <5>4, StepKinds DEF NextBy, Rest3
      <4>4. CASE Install(w)
        <5>1. disk[Work(w)] # Absent
          <6>1. op[w].seen \cup {w} \in SUBSET Writer
            BY <2>1, <4>1 DEF StageOK, UnreadStages, Typed, OpsOK, OpRecord
          <6>2. QED
            BY <2>1, <4>4, <6>1, Contents DEF SwapOK, Install, SwapStep, At
        <5>2. disk' = disk /\ GoTo(w, "restore") /\ At(w, "install")
          BY <1>2, <2>4, <4>4, <5>1 DEF Install, SwapStep, Renamed, Exists
        <5>3. Goes(w, "install", "restore")
          BY <5>2, GoToShape DEF Stages, SwapStages
        <5>4. QED
          BY <2>8, <5>2, <5>3 DEF Goes, Swapping, Exists, At, Running
      <4>5. CASE Restore(w)
        <5>1. faults >= 1
          BY <2>1, <4>5 DEF Restore, SwapOK
        <5>2. disk'[Arc] = disk[Bak] \/ faults' = faults + 1
          BY <2>4, <4>5 DEF Restore, Leave, Renamed, Removed, Fault
        <5>3. QED
          BY <1>2, <2>2, <2>8, <5>1, <5>2 DEF Exists
      <4>6. QED
        BY <4>3, <4>4, <4>5
    <3>4. QED
      BY <3>2, <3>3
  <2>9. CASE ~Exists(Arc) /\ (Exists(Bak) \/ \E u \in Writer : Stranded(u)) /\ NobodySwaps
    <3>1. NobodySwaps'
      <4>1. \A v \in Writer \ {w} : Running(v)' => op'[v].at \notin {"compress"} \cup SwapStages
        BY <2>3, <2>9 DEF NobodySwaps, Running
      <4>2. ASSUME Running(w)', op'[w].at \in {"compress"} \cup SwapStages
            PROVE  FALSE
        <5>1. ASSUME NEW act \in Acts[w], Start(w, act)
              PROVE  FALSE
          BY <4>2, <5>1, StartEffect DEF SwapStages
        <5>2. CASE Cancel(w)
          BY <2>9, <4>2, <5>2, CancelEffect DEF NobodySwaps, Running, Cancel
        <5>3. CASE Step(w)
          <6>1. Shape(w)
            BY <5>3, StepShape
          <6>2. Running(w) => op[w].at \notin {"compress"} \cup SwapStages
            BY <2>9 DEF NobodySwaps
          <6>3. Goes(w, "mutate", "compress")
            BY <4>2, <6>1, <6>2 DEF Shape, Ends, Goes, Reads, At, Running, SwapStages
          <6>4. ~Mutate(w)
            BY <2>9 DEF Mutate
          <6>5. ~Calling(w) /\ ~Rest1(w) /\ ~Rest3(w)
            <7>1. At(w, "mutate") /\ call[w].at = "idle"
              BY <2>1, <6>3 DEF Goes, CallOK, At
            <7>2. ~Calling(w)
              BY <7>1 DEF Calling, WriteBack, CallReturns, PublishOutput, DiscardOutput, FileStep, CallStep, At,
                 RenameOk, RetryOk, RenameFails, UnlinkDestination, RetryFails, CleanupCall
            <7>3. ~Rest1(w) /\ ~Rest3(w)
              BY <7>1 DEF Rest1, Load, MainFails, NativeReads, NativeApplies, NativeAborts, NativeReturns, At,
                 Rest3, DropOldBackup, BackUp, Install, DropBackup, Restore, Unpack, Pack, SwapStep
            <7>4. QED
              BY <7>2, <7>3
          <6>6. RebuildFails(w)
            BY <2>5, <5>3, <6>3, <6>4, <6>5, StepKinds DEF Rest2, Goes, At, BindingBegins, BindingEnds, BindingBreaks,
               BindingRefuses, RebuildStarts, Extract, Compressed
          <6>7. QED
            BY <6>3, <6>6, EndShape DEF RebuildFails, Leave, Goes, Ends, Endings
        <5>4. QED
          BY <1>2, <5>1, <5>2, <5>3 DEF NextBy
      <4>3. QED
        BY <4>1, <4>2 DEF NobodySwaps, Running
    <3>2. CASE \E u \in Writer : Stranded(u)
      <4>1. PICK u \in Writer : Stranded(u)
        BY <3>2
      <4>2. u # w
        BY <2>1, <4>1 DEF Stranded
      <4>3. Stranded(u)'
        BY <2>3, <4>1, <4>2 DEF Stranded, Exists
      <4>4. QED
        BY <3>1, <4>3
    <3>3. CASE Exists(Bak)
      <4>1. op[w].at \notin SwapStages \/ ~Running(w)
        BY <2>9 DEF NobodySwaps
      <4>2. ~(DropOldBackup(w) \/ BackUp(w) \/ Install(w) \/ DropBackup(w) \/ Restore(w))
        BY <4>1 DEF DropOldBackup, BackUp, Install, DropBackup, Restore, SwapStep, At, SwapStages
      <4>3. CASE disk'[Bak] = disk[Bak]
        BY <3>1, <3>3, <4>3 DEF Exists
      <4>4. CASE NativeApplies(w)
        BY <2>4, <3>1, <3>3, <4>4 DEF NativeApplies, Exists
      <4>5. ~BindingBegins(w)
        BY <2>9 DEF BindingBegins
      <4>6. CASE BindingEnds(w)
        <5>1. Written(w, op[w].seen \cup {w}) # Absent
          <6>1. op[w].seen \cup {w} \in SUBSET Writer
            BY <2>1, <4>6 DEF BindingEnds, At, StageOK, UnreadStages, Typed, OpsOK, OpRecord
          <6>2. QED
            BY <6>1, Contents
        <5>2. QED
          BY <2>4, <3>1, <3>3, <4>6, <5>1 DEF BindingEnds, Exists
      <4>7. CASE ArcMove(w) \/ ArcUnlink(w)
        BY <2>4, <3>1, <3>3, <4>7 DEF ArcMove, ArcUnlink, Renamed, Removed, Exists
      <4>8. QED
        BY <1>2, <2>5, <4>2, <4>3, <4>4, <4>5, <4>6, <4>7, UserFiles
    <3>4. QED
      BY <2>9, <3>2, <3>3
  <2>10. QED
    BY <2>2, <2>3, <2>6, <2>7, <2>8, <2>9 DEF CopyInv
<1>3. QED
  BY <1>1, <1>2, NextIsBy DEF CopyInv

-----------------------------------------------------------------------------
(* The theorems                                                            *)

\* The initial state satisfies every part of the invariant.
LEMMA Initial ==
  ASSUME Init
  PROVE  IInv /\ CopyInv
<1>1. \A w \in Writer : op[w] = NoOp /\ call[w] = Idle /\ ~Running(w)
  BY DEF Init, NoOp, Running
<1>2. \A w \in Writer : /\ op[w].act = "none" /\ op[w].at = "new" /\ op[w].seen = Absent
                        /\ op[w].dst = "arc" /\ op[w].res = "none" /\ call[w].at = "idle"
  BY <1>1 DEF NoOp, Idle
<1>3. Arc \in Paths /\ disk = [p \in Paths |-> IF p = Arc THEN Original ELSE Absent] /\ Original \in Content
  BY PathSets, Contents DEF Init
<1>4. Typed
  <2>1. NoOp \in OpRecord /\ NoOp.act = "none"
    BY EditAssumption DEF NoOp, OpRecord, Stages, Results, SwapStages
  <2>2. OpsOK
    BY <1>2, <2>1 DEF Init, OpsOK
  <2>3. Idle \in CallRecord /\ Idle.at = "idle"
    BY DEF Idle, CallRecord, CallStages
  <2>4. CallsOK
    BY <2>3 DEF Init, CallsOK, Moving
  <2>5. disk \in Disks
    BY <1>3 DEF Disks
  <2>6. RestOK
    BY EditAssumption, FileAssumption DEF Init, RestOK
  <2>7. QED
    BY <2>2, <2>4, <2>5, <2>6 DEF Typed
<1>5. StageInv
  BY <1>2 DEF StageInv, StageOK, Conversions, ConversionStages, WorkerStages, NativeStages, RarStages, UnreadStages, SwapStages
<1>6. CallInv /\ MoveInv /\ OutputInv
  BY <1>1, <1>2 DEF CallInv, CallOK, MoveInv, MoveOK, OutputInv, OutputOK, Moving, At
<1>7. \A p \in Paths : Exists(p) <=> p = Arc
  BY <1>3, Contents DEF Exists
<1>8. TempsWhole
  <2>1. \A w \in Writer : \A p \in TempFiles(w) : p \in Paths /\ ~Exists(p)
    BY <1>7, PathSets, Disjoint
  <2>2. QED
    BY <2>1 DEF TempsWhole, TempsOK
<1>9. disk[Arc].whole /\ disk[Arc].has = {}
  BY <1>3 DEF Original
<1>10. OnlyBindingTears /\ TornInv
  BY <1>7, <1>9, PathSets DEF OnlyBindingTears, TornInv
<1>11. Exclusive /\ SwapInv /\ BackupInv
  BY <1>1 DEF Exclusive, Busy, SwapInv, SwapOK, BackupInv, At
<1>12. SilentInv
  <2>1. \A p \in Paths : Exists(p) => disk[p].has = {}
    BY <1>7, <1>9
  <2>2. QED
    BY <1>2, <2>1 DEF SilentInv, SilentOK
<1>13. CopyInv
  BY <1>3, <1>7 DEF CopyInv
<1>14. QED
  BY <1>4, <1>5, <1>6, <1>8, <1>10, <1>11, <1>12, <1>13 DEF IInv

\* Every step keeps the invariant.
LEMMA Kept ==
  ASSUME IInv, Next
  PROVE  IInv'
<1>1. /\ Typed /\ StageInv /\ CallInv /\ MoveInv /\ OutputInv /\ TempsWhole /\ OnlyBindingTears
      /\ Exclusive /\ SwapInv /\ TornInv /\ BackupInv /\ SilentInv
  BY DEF IInv
<1>2. Typed'
  BY <1>1, NextIsBy, NextByTyped, CrashEffect
<1>3. StageInv' /\ CallInv' /\ MoveInv' /\ OutputInv' /\ TempsWhole'
  BY <1>1, StageStep, CallInvStep, MoveInvStep
<1>4. OnlyBindingTears' /\ Exclusive' /\ SwapInv' /\ TornInv' /\ BackupInv' /\ SilentInv'
  BY <1>1, TearsStep, ExclusiveStep, SwapInvStep, TornInvStep, BackupInvStep, SilentInvStep
<1>5. QED
  BY <1>2, <1>3, <1>4 DEF IInv

\* What depends on the variables alone is kept by a stuttering step.
LEMMA Stutters ==
  ASSUME IInv, UNCHANGED vars
  PROVE  IInv'
<1>1. /\ disk' = disk /\ call' = call /\ faults' = faults /\ kind' = kind /\ system' = system
      /\ op' = op /\ folders' = folders /\ crashes' = crashes
  BY DEF vars, fileVars
<1>2. Typed'
  BY <1>1 DEF IInv, Typed, OpsOK, CallsOK, RestOK
<1>3. StageInv' /\ CallInv'
  BY <1>1 DEF IInv, StageInv, StageOK, Engine, CallInv, CallOK, At, Running
<1>4. MoveInv' /\ OutputInv' /\ TempsWhole' /\ OnlyBindingTears'
  BY <1>1 DEF IInv, MoveInv, MoveOK, OutputInv, OutputOK, TempsWhole, TempsOK, OnlyBindingTears, At, Running, Exists
<1>5. Exclusive' /\ SwapInv' /\ TornInv' /\ BackupInv'
  BY <1>1 DEF IInv, Exclusive, Busy, SwapInv, SwapOK, TornInv, BackupInv, At, Running, Exists
<1>6. SilentInv'
  BY <1>1 DEF IInv, SilentInv, SilentOK, Silent, Own, Exists
<1>7. QED
  BY <1>2, <1>3, <1>4, <1>5, <1>6 DEF IInv

\* The invariant the theorems below rest on: types, where each pipeline and each
\* write stands, what the temporary, the output and the backup files hold, which
\* RAR edit is alone, and what may be torn or left behind. It holds at first and
\* every step keeps it, a crash included, with any number of operations,
\* faults and crashes.
THEOREM Inductive == Spec => []IInv
<1>1. Init => IInv
  BY Initial
<1>2. IInv /\ [Next]_vars => IInv'
  BY Kept, Stutters
<1>3. QED
  BY <1>1, <1>2, PTL DEF Spec

\* The files hold contents, and every operation is at a place of its pipeline, for any
\* number of operations, volumes, failures and crashes.
THEOREM TypeCorrect == Spec => []TypeOK
<1>1. IInv => TypeOK
  BY TypedIsTypeOK DEF IInv
<1>2. QED
  BY <1>1, Inductive, PTL

\* Only the binding, which edits the archive in place, can be found in the middle of
\* its work under a name the user knows, whatever fails and wherever the host dies.
THEOREM BindingTears == Spec => []OnlyBindingTears
<1>1. IInv => OnlyBindingTears
  BY DEF IInv
<1>2. QED
  BY <1>1, Inductive, PTL

\* Where unlinked names go at once, no crash and no single failed file operation takes
\* the archive away from any number of operations on it.
THEOREM ArchiveKept ==
  ASSUME ~Fragile
  PROVE  Spec => []ArchiveOrCopy
<1>1. Init => CopyInv
  BY Initial
<1>2. IInv /\ CopyInv /\ [Next]_vars => CopyInv'
  <2>1. ASSUME IInv, CopyInv, Next
        PROVE  CopyInv'
    BY <2>1, CopyInvStep DEF IInv
  <2>2. ASSUME CopyInv, UNCHANGED vars
        PROVE  CopyInv'
    BY <2>2 DEF CopyInv, Arriving, Swapping, Stranded, NobodySwaps, Erased, Running, Exists, vars, fileVars
  <2>3. QED
    BY <2>1, <2>2
<1>3. IInv /\ CopyInv => ArchiveOrCopy
  <2>1. SUFFICES ASSUME IInv, CopyInv, faults <= 1, ~Exists(Arc), ~Erased
                 PROVE  \E p \in {Bak} \cup {File(w) : w \in Writer} :
                          Exists(p) /\ (disk[p].whole \/ kind \in RarKinds)
    BY DEF ArchiveOrCopy
  <2>2. CASE \E u \in Writer : Arriving(u) \/ Stranded(u)
    BY <2>2 DEF Arriving, Stranded
  <2>3. CASE Exists(Bak)
    <3>1. \A w \in Writer : Bak \notin TempFiles(w)
      BY Disjoint
    <3>2. disk[Bak].whole \/ kind \in RarKinds
      BY <2>1, <2>3, <3>1, PathSets DEF IInv, OnlyBindingTears
    <3>3. QED
      BY <2>3, <3>2
  <2>4. QED
    BY <2>1, <2>2, <2>3 DEF CopyInv
<1>4. QED
  BY <1>1, <1>2, <1>3, Inductive, PTL DEF Spec

\* An operation that fails has been silent, or has just put the backup back.
LEMMA FailsSilently ==
  ASSUME IInv, NEW w \in Writer, NextBy(w), op'[w].res = "failed", Engine(op[w].act) # "system7z"
  PROVE  Restore(w) \/ Silent(w)
<1>1. /\ Typed /\ StageInv /\ CallInv /\ MoveInv /\ op[w].res = "none"
      /\ op[w] \in OpRecord /\ op \in [Writer -> OpRecord]
  BY StepsRun DEF IInv, Typed, OpsOK
<1>2. Step(w)
  BY <1>1, StartEffect, CancelEffect DEF NextBy
<1>3. op[w].at # "exited"
  BY <1>1 DEF StageInv, StageOK, NativeStages
<1>4. ASSUME op[w].at \in {"drop", "restore"}
      PROVE  Restore(w)
  <2>1. call[w].at = "idle"
    BY <1>1, <1>4 DEF CallInv, CallOK
  <2>2. ~Calling(w)
    BY <1>4, <2>1 DEF Calling, WriteBack, CallReturns, PublishOutput, DiscardOutput, FileStep, CallStep, At,
       RenameOk, RetryOk, RenameFails, UnlinkDestination, RetryFails, CleanupCall
  <2>3. ~Rest1(w) /\ ~Rest2(w)
    BY <1>4 DEF Rest1, Load, MainFails, NativeReads, NativeApplies, NativeAborts, NativeReturns,
       Rest2, BindingBegins, BindingEnds, BindingBreaks, BindingRefuses, RebuildStarts,
       Extract, RebuildFails, EraseArchive, Mutate, Compressed, At
  <2>4. ~(DropOldBackup(w) \/ BackUp(w) \/ Install(w) \/ Unpack(w) \/ Pack(w))
    BY <1>4 DEF DropOldBackup, BackUp, Install, Unpack, Pack, SwapStep, At
  <2>5. ~DropBackup(w)
    BY <1>1 DEF DropBackup, Leave, End, GoTo, OpRecord
  <2>6. QED
    BY <1>2, <2>2, <2>3, <2>4, <2>5, StepKinds DEF Rest3
<1>5. ASSUME op[w].at = "write", call[w].at = "done"
      PROVE  FALSE
  <2>1. ~(Rest1(w) \/ Rest2(w) \/ Rest3(w))
    BY <1>1, <1>5, RestOfCall
  <2>2. CallReturns(w)
    BY <1>2, <1>5, <2>1, StepKinds DEF Calling, WriteBack, PublishOutput, DiscardOutput, FileStep, CallStep, At,
       RenameOk, RetryOk, RenameFails, UnlinkDestination, RetryFails, CleanupCall
  <2>3. QED
    BY <1>1, <1>5, <2>2 DEF CallReturns, End, OpRecord
<1>6. QED
  BY <1>1, <1>3, <1>4, <1>5 DEF Silent

\* A step that ends in failure puts the backup back or leaves the archive as it was.
LEMMA FailsInPlace ==
  ASSUME IInv, NEW w \in Writer, NextBy(w), op[w].res = "none", op'[w].res = "failed", ~Restore(w)
  PROVE  disk'[Arc] = disk[Arc]
<1>1. /\ Typed /\ StageInv /\ MoveInv /\ op[w] \in OpRecord /\ op \in [Writer -> OpRecord]
      /\ Arc \in Paths /\ Bak \in Paths /\ Arc # Bak /\ disk \in [Paths -> Content \cup {Absent}]
      /\ Work(w) # Arc
  BY PathSets, Disjoint DEF IInv, Typed, OpsOK, Disks
<1>2. ~NativeApplies(w) /\ ~BindingEnds(w) /\ ~EraseArchive(w) /\ ~Install(w)
  BY <1>1 DEF NativeApplies, BindingEnds, EraseArchive, Install, SwapStep, Leave, End, GoTo, OpRecord
<1>3. ~BindingBegins(w)
  <2>1. BindingBegins(w) => op'[w] = [op[w] EXCEPT !.seen = disk[Arc].has, !.at = "inplace"]
    BY <1>1 DEF BindingBegins
  <2>2. QED
    BY <1>1, <2>1 DEF OpRecord
<1>4. ~ArcMove(w) /\ ~ArcUnlink(w)
  BY DEF ArcMove, ArcUnlink, FileStep
<1>5. DropOldBackup(w) \/ DropBackup(w) => disk'[Arc] = disk[Arc]
  BY <1>1 DEF DropOldBackup, DropBackup, SwapStep, Leave, Removed
<1>6. BackUp(w) => disk'[Arc] = disk[Arc]
  BY <1>1 DEF BackUp, SwapStep, Leave, Removed, GoTo, OpRecord
<1>7. QED
  BY <1>1, <1>2, <1>3, <1>4, <1>5, <1>6, UserFiles

\* When one file operation fails, the operation that reports it leaves an archive
\* without its edit, for any number of operations beside it.
THEOREM NoEditLeft == Spec => FailedLeavesNoEdit
<1> DEFINE Fails(w) ==
             /\ op[w].res = "none" /\ op'[w].res = "failed"
             /\ Engine(op[w].act) # "system7z"
             /\ faults' <= 1 /\ Exists(Arc)'
           A == \A w \in Writer : Fails(w) => w \notin disk'[Arc].has
<1>1. IInv /\ Next => A
  <2>1. SUFFICES ASSUME IInv, Next, NEW w \in Writer, Fails(w)
                 PROVE  w \notin disk'[Arc].has
    OBVIOUS
  <2>2. Typed /\ StageInv /\ MoveInv
    BY <2>1 DEF IInv
  <2>3. ~Crash
    <3>1. Crash => op'[w].res \in {"crashed", op[w].res}
      BY <2>2, CrashEffect
    <3>2. QED
      BY <2>1, <3>1
  <2>4. PICK x \in Writer : NextBy(x)
    BY <2>1, <2>3, NextIsBy
  <2>5. x = w /\ Frame(w)
    <3>1. Frame(x)
      BY <2>2, <2>4, NextByTyped
    <3>2. QED
      BY <2>1, <2>2, <3>1 DEF Frame, Typed, OpsOK
  <2>6. /\ Arc \in Paths /\ Bak \in Paths /\ Arc # Bak /\ disk \in [Paths -> Content \cup {Absent}]
        /\ Work(w) # Arc /\ Arc \notin Own(w)
    BY <2>2, PathSets, Disjoint DEF Typed, Disks, Own
  <2>7. CASE Restore(w)
    <3>1. At(w, "restore") /\ faults >= 1 /\ w \notin disk[Bak].has
      BY <2>1, <2>7 DEF Restore, IInv, SwapInv, SwapOK, BackupInv, At
    <3>2. ~Fault
      BY <2>1, <2>2, <3>1, FileAssumption DEF Fault, Typed, RestOK
    <3>3. disk' = Removed(Renamed(disk, Bak, Arc), {Work(w)})
      BY <2>7, <3>2 DEF Restore, Leave
    <3>4. QED
      BY <2>6, <3>1, <3>3 DEF Removed, Renamed
  <2>8. CASE ~Restore(w)
    <3>1. Silent(w) /\ disk'[Arc] = disk[Arc]
      BY <2>1, <2>4, <2>5, <2>8, FailsSilently, FailsInPlace
    <3>2. QED
      BY <2>1, <2>6, <3>1 DEF IInv, SilentInv, SilentOK, Exists
  <2>9. QED
    BY <2>7, <2>8
<1>2. IInv /\ [Next]_vars => [A]_vars
  BY <1>1
<1>3. [][A]_vars => FailedLeavesNoEdit
  BY PTL DEF FailedLeavesNoEdit
<1>4. QED
  BY <1>2, <1>3, Inductive, PTL DEF Spec

-----------------------------------------------------------------------------
(* What the refinement needs to know beside the invariant                  *)

\* Mishaps leave their traces in the counters.
MishapOK(w) ==
  /\ op[w].res = "crashed" => crashes >= 1
  /\ op[w].at = "restore" => faults >= 1
  /\ At(w, "install") => ~Exists(Arc)
  /\ op[w].at = "install" => op[w].res \in {"none", "crashed"}
Stuck(w) == call[w].at \in {"unlink", "retry"}
MishapInv ==
  /\ \A w \in Writer : MishapOK(w)
  /\ \A v, w \in Writer : Stuck(v) /\ Stuck(w) /\ v # w => faults >= 2

\* After one mishap at most, a backup belongs to a swap that is under way or that a
\* crash has cut; one cut before the installation has left the archive missing.
Cut(w, stages) == op[w].res = "crashed" /\ op[w].at \in stages
BackedUp(w) ==
  \/ Running(w) /\ op[w].at \in {"install", "drop", "restore"}
  \/ Cut(w, {"install", "drop"})
BackupFrom == faults + crashes <= 1 /\ Exists(Bak) => \E w \in Writer : BackedUp(w)
CutInv ==
  faults + crashes <= 1 /\ (\E w \in Writer : Cut(w, {"install"})) =>
    /\ ~Exists(Arc)
    /\ \A v \in Writer : Running(v) => op[v].at \in {"binding", "rebuild", "unpack"}

\* The arithmetic of faults and crashes, which the larger steps cite as facts.
LEMMA Sums ==
  ASSUME NEW a \in Nat, NEW b \in Nat, NEW c \in Nat, NEW d \in Nat
  PROVE  /\ c = a + 1 /\ d = b => a + b <= c + d
         /\ c = a /\ d = b + 1 => a + b <= c + d
         /\ c = a /\ d = b => a + b <= c + d
         /\ a + b <= c + d /\ c + d <= 1 => a + b <= 1
         /\ a >= 1 /\ c = a + 1 => ~(c + d <= 1)
         /\ a >= 2 => a + b > 1
         /\ a >= 1 /\ b >= 1 => a + b > 1
         /\ a + b > 1 => a + b > 0
         /\ ~(a + b <= 1) => a + b > 1
         /\ a >= 1 => a + b > 0
OBVIOUS

\* Faults and crashes are numbers that only grow, and only a crash adds to crashes.
LEMMA Counters ==
  ASSUME Typed, StageInv, CallInv, MoveInv, Next
  PROVE  /\ faults \in Nat /\ crashes \in Nat /\ faults' \in Nat /\ crashes' \in Nat
         /\ faults + crashes <= faults' + crashes'
         /\ \/ Crash /\ faults' = faults /\ crashes' = crashes + 1
            \/ ~Crash /\ crashes' = crashes /\ faults' \in {faults, faults + 1}
<1>1. faults \in Nat /\ crashes \in Nat
  BY FileAssumption, EditAssumption DEF Typed, RestOK
<1>2. CASE Crash
  <2>1. faults' = faults /\ crashes' = crashes + 1
    BY <1>2 DEF Crash
  <2>2. faults' \in Nat /\ crashes' \in Nat
    BY <1>1, <2>1
  <2>3. faults + crashes <= faults' + crashes'
    BY <1>1, <2>1, <2>2, Sums
  <2>4. QED
    BY <1>1, <1>2, <2>1, <2>2, <2>3
<1>3. CASE ~Crash
  <2>1. PICK w \in Writer : NextBy(w)
    BY <1>3, NextIsBy
  <2>2. crashes' = crashes /\ faults' \in {faults, faults + 1}
    BY <2>1, NextByTyped DEF Frame
  <2>3. faults' \in Nat /\ crashes' \in Nat
    BY <1>1, <2>2
  <2>4. faults + crashes <= faults' + crashes'
    <3>1. CASE faults' = faults
      BY <1>1, <2>2, <2>3, <3>1, Sums
    <3>2. CASE faults' = faults + 1
      BY <1>1, <2>2, <2>3, <3>2, Sums
    <3>3. QED
      BY <2>2, <3>1, <3>2
  <2>5. QED
    BY <1>1, <1>3, <2>2, <2>3, <2>4
<1>4. QED
  BY <1>2, <1>3

\* Every step keeps the bookkeeping of mishaps.
LEMMA MishapStep ==
  ASSUME IInv, MishapInv, Next
  PROVE  MishapInv'
<1>1. /\ Typed /\ StageInv /\ CallInv /\ MoveInv /\ SwapInv /\ Exclusive
      /\ faults \in Nat /\ crashes \in Nat
  BY Counters DEF IInv
<1>2. CASE Crash
  <2>1. /\ faults' = faults /\ crashes' = crashes + 1 /\ disk' = disk
        /\ \A w \in Writer : op'[w].at = op[w].at /\ ~Running(w)' /\ call'[w].at = "idle"
        /\ \A w \in Writer : op'[w].res = IF Running(w) THEN "crashed" ELSE op[w].res
    BY <1>1, <1>2, CrashEffect, Counters DEF Running
  <2>2. QED
    BY <1>1, <2>1 DEF MishapInv, MishapOK, Stuck, At, Running
<1>3. ASSUME NEW w \in Writer, NextBy(w)
      PROVE  MishapInv'
  <2>1. /\ Frame(w) /\ op[w].res = "none" /\ MishapOK(w) /\ StageOK(w) /\ CallOK(w) /\ SwapOK(w)
        /\ op[w] \in OpRecord /\ call[w] \in CallRecord
    BY <1>1, <1>3, NextByTyped, StepsRun DEF StageInv, CallInv, SwapInv, MishapInv, Typed, OpsOK, CallsOK
  <2>2. crashes' = crashes /\ faults' \in {faults, faults + 1}
    BY <2>1 DEF Frame
  <2>3. \A v \in Writer \ {w} : op'[v] = op[v] /\ call'[v] = call[v]
    BY <1>1, <2>1 DEF Frame, Typed, OpsOK, CallsOK
  <2>4. /\ Arc \in Paths /\ Bak \in Paths /\ Arc # Bak /\ disk \in [Paths -> Content \cup {Absent}]
    BY <1>1, PathSets DEF Typed, Disks
  <2>5. ASSUME NEW v \in Writer, v # w
        PROVE  MishapOK(v)'
    <3>1. MishapOK(v) /\ op'[v] = op[v]
      BY <2>3, <2>5 DEF MishapInv
    <3>2. ASSUME At(v, "install"), Exists(Arc)'
          PROVE  FALSE
      <4>1. Busy(v) /\ ~Busy(w) /\ ~HostFree /\ kind \in RarKinds /\ ~Exists(Arc)
        BY <1>1, <2>5, <3>1, <3>2 DEF Busy, SwapStages, Exclusive, HostFree, At, MishapOK, StageInv, StageOK, RarStages
      <4>2. ~NativeApplies(w) /\ ~BindingBegins(w)
        BY <2>1, <4>1 DEF NativeApplies, BindingBegins, At, StageOK, NativeStages
      <4>3. ~BindingEnds(w)
        BY <2>4, <3>2, <4>1 DEF BindingEnds, Opened, Exists
      <4>4. ~(EraseArchive(w) \/ DropOldBackup(w) \/ BackUp(w) \/ Install(w) \/ DropBackup(w) \/ Restore(w))
        BY <4>1 DEF EraseArchive, DropOldBackup, BackUp, Install, DropBackup, Restore, SwapStep, At, Busy, SwapStages
      <4>5. ~(ArcMove(w) \/ ArcUnlink(w))
        BY <2>1, <4>1 DEF ArcMove, ArcUnlink, CallOK, StageOK, WorkerStages, Moving, Busy
      <4>6. QED
        BY <1>1, <1>3, <3>2, <4>1, <4>2, <4>3, <4>4, <4>5, UserFiles DEF Exists
    <3>3. QED
      BY <1>1, <2>2, <3>1, <3>2 DEF MishapOK, At, Running
  <2>6. MishapOK(w)' /\ (Stuck(w)' => Stuck(w) \/ faults' = faults + 1)
    <3>1. ASSUME NEW act \in Acts[w], Start(w, act)
          PROVE  MishapOK(w)' /\ (Stuck(w)' => Stuck(w))
      BY <1>1, <3>1, StartEffect DEF MishapOK, Stuck, fileVars, At
    <3>2. CASE Cancel(w)
      BY <1>1, <2>1, <2>2, <3>2, CancelEffect DEF MishapOK, Stuck, fileVars, At, Running, Exists
    <3>3. ASSUME Step(w)
          PROVE  MishapOK(w)' /\ (Stuck(w)' => Stuck(w) \/ faults' = faults + 1)
      <4>1. Shape(w)
        BY <1>1, <3>3, StepShape
      <4>2. op'[w].res # "crashed"
        BY <2>1, <4>1 DEF Shape, Ends, Goes, Reads, Endings
      <4>3. op'[w].at = "restore" => faults' >= 1
        <5>1. CASE op'[w].at = op[w].at
          BY <1>1, <2>1, <2>2, <5>1 DEF MishapOK
        <5>2. CASE op'[w].at # op[w].at /\ op'[w].at = "restore"
          <6>1. op[w].at \in {"install", "drop"} /\ Running(w)
            BY <4>1, <5>2 DEF Shape, Goes, Reads, Ends, At
          <6>2. call[w].at = "idle"
            BY <2>1, <6>1 DEF CallOK
          <6>3. Install(w) \/ DropBackup(w)
            BY <3>3, <6>1, <6>2 DEF Step, Load, WriteBack, MainFails, CallReturns, NativeReads, NativeApplies,
             NativeAborts, NativeReturns, BindingBegins, BindingEnds, BindingBreaks, BindingRefuses, RebuildStarts,
             Extract, RebuildFails, EraseArchive, Mutate, Compressed, Unpack, Pack, At, DropOldBackup, BackUp,
             Restore, SwapStep, PublishOutput, DiscardOutput, FileStep, CallStep,
             RenameOk, RetryOk, RenameFails, UnlinkDestination, RetryFails, CleanupCall
          <6>4. faults' = faults + 1
            BY <1>1, <2>1, <5>2, <6>3 DEF Install, DropBackup, SwapStep, Fault, GoTo, Leave, End, Typed, OpsOK, OpRecord
          <6>5. QED
            BY <1>1, <6>4
        <5>3. QED
          BY <5>1, <5>2
      <4>4. ASSUME op'[w].at = "install"
            PROVE  op'[w].res = "none" /\ ~Exists(Arc)'
        <5>1. op[w].at \in {"backup", "install"} /\ Running(w)
          BY <4>1, <4>4, <2>1, <3>3 DEF Shape, Goes, Reads, Ends, At, Running, StageOK
        <5>2. call[w].at = "idle"
          BY <2>1, <5>1 DEF CallOK
        <5>3. BackUp(w) \/ Install(w)
          BY <3>3, <5>1, <5>2 DEF Step, Load, WriteBack, MainFails, CallReturns, NativeReads, NativeApplies,
             NativeAborts, NativeReturns, BindingBegins, BindingEnds, BindingBreaks, BindingRefuses, RebuildStarts,
             Extract, RebuildFails, EraseArchive, Mutate, Compressed, Unpack, Pack, At, DropOldBackup, DropBackup,
             Restore, SwapStep, PublishOutput, DiscardOutput, FileStep, CallStep,
             RenameOk, RetryOk, RenameFails, UnlinkDestination, RetryFails, CleanupCall
        <5>4. ~Install(w)
          BY <1>1, <2>1, <4>4 DEF Install, SwapStep, GoTo, Typed, OpsOK, OpRecord
        <5>5. disk' = Renamed(disk, Arc, Bak) /\ op'[w].res = "none"
          BY <1>1, <2>1, <4>4, <5>1, <5>3, <5>4 DEF BackUp, SwapStep, GoTo, Leave, End, Typed, OpsOK, OpRecord, At
        <5>6. QED
          BY <2>4, <5>5 DEF Renamed, Exists
      <4>5. Stuck(w)' => Stuck(w) \/ faults' = faults + 1
        <5>1. CASE Rest1(w) \/ Rest2(w) \/ Rest3(w)
          BY <1>1, <5>1, RestOfCall DEF Stuck
        <5>2. CASE WriteBack(w) \/ CallReturns(w) \/ PublishOutput(w) \/ DiscardOutput(w)
          BY <1>1, <2>1, <5>2 DEF WriteBack, WriteTemp, CallReturns, PublishOutput, Publish, DiscardOutput, Discard,
             Stuck, fileVars, Typed, CallsOK, CallRecord
        <5>3. CASE FileStep(w)
          <6>1. CASE RenameOk(w) \/ RetryOk(w)
            BY <1>1, <2>1, <6>1 DEF RenameOk, RetryOk, MoveDone, Stuck, Typed, CallsOK, CallRecord
          <6>2. CASE RenameFails(w) \/ UnlinkDestination(w) \/ RetryFails(w) \/ CleanupCall(w)
            BY <1>1, <2>1, <6>2 DEF RenameFails, UnlinkDestination, RetryFails, CleanupCall, Fault, Stuck,
               Typed, CallsOK, CallRecord
          <6>3. QED
            BY <5>3, <6>1, <6>2 DEF FileStep, CallStep
        <5>4. QED
          BY <3>3, <5>1, <5>2, <5>3, StepKinds DEF Calling
      <4>6. QED
        BY <4>2, <4>3, <4>4, <4>5 DEF MishapOK, At, Running
    <3>4. QED
      BY <1>3, <3>1, <3>2, <3>3 DEF NextBy
  <2>7. ASSUME NEW u \in Writer, NEW v \in Writer, Stuck(u)', Stuck(v)', u # v
        PROVE  faults' >= 2
    <3>1. \A x \in Writer : Stuck(x) => faults >= 1
      BY <1>1 DEF CallInv, CallOK, Stuck
    <3>2. \A x \in Writer \ {w} : Stuck(x)' => Stuck(x)
      BY <2>3 DEF Stuck
    <3>3. QED
      BY <1>1, <2>2, <2>6, <2>7, <3>1, <3>2 DEF MishapInv
  <2>8. QED
    BY <2>5, <2>6, <2>7 DEF MishapInv
<1>4. QED
  BY <1>2, <1>3, NextIsBy

\* The operation that swaps does nothing else.
LEMMA SwapOnly ==
  ASSUME IInv, NEW w \in Writer, NextBy(w), Running(w), op[w].at \in SwapStages
  PROVE  DropOldBackup(w) \/ BackUp(w) \/ Install(w) \/ DropBackup(w) \/ Restore(w)
<1>1. Typed /\ StageOK(w) /\ CallOK(w)
  BY DEF IInv, StageInv, CallInv
<1>2. call[w].at = "idle"
  BY <1>1 DEF CallOK, SwapStages
<1>3. ~Cancel(w) /\ ~\E act \in Acts[w] : Start(w, act)
  BY <1>1, StartEffect, CancelEffect DEF StageOK, ConversionStages, SwapStages, Running, IInv
<1>4. ~Calling(w)
  BY <1>2 DEF Calling, WriteBack, CallReturns, PublishOutput, DiscardOutput, FileStep, CallStep, At, SwapStages,
     RenameOk, RetryOk, RenameFails, UnlinkDestination, RetryFails, CleanupCall
<1>5. ~Rest1(w) /\ ~Rest2(w)
  BY DEF Rest1, Load, MainFails, NativeReads, NativeApplies, NativeAborts, NativeReturns, SwapStages,
     Rest2, BindingBegins, BindingEnds, BindingBreaks, BindingRefuses, RebuildStarts,
     Extract, RebuildFails, EraseArchive, Mutate, Compressed, At
<1>6. ~Unpack(w) /\ ~Pack(w)
  BY DEF Unpack, Pack, At, SwapStages
<1>7. QED
  BY <1>3, <1>4, <1>5, <1>6, StepKinds DEF NextBy, Rest3

\* After one mishap at most, a backup has a swap that made it.
LEMMA BackupFromStep ==
  ASSUME IInv, MishapInv, BackupFrom, Next
  PROVE  BackupFrom'
<1>1. /\ Typed /\ StageInv /\ CallInv /\ MoveInv /\ SwapInv
      /\ faults \in Nat /\ crashes \in Nat /\ faults' \in Nat /\ crashes' \in Nat
      /\ faults + crashes <= faults' + crashes'
      /\ \/ Crash /\ faults' = faults /\ crashes' = crashes + 1
         \/ ~Crash /\ crashes' = crashes /\ faults' \in {faults, faults + 1}
  BY Counters DEF IInv
<1>2. SUFFICES ASSUME faults' + crashes' <= 1, Exists(Bak)'
               PROVE  \E w \in Writer : BackedUp(w)'
  BY DEF BackupFrom
<1>3. faults + crashes <= 1
  BY <1>1, <1>2, Sums
<1>4. CASE Crash
  <2>1. PICK u \in Writer : BackedUp(u)
    BY <1>1, <1>2, <1>3, <1>4, CrashEffect DEF BackupFrom, Exists
  <2>2. ~(Running(u) /\ op[u].at = "restore")
    BY <1>1, <1>2, <1>4 DEF MishapInv, MishapOK
  <2>3. BackedUp(u)'
    BY <1>1, <1>4, <2>1, <2>2, CrashEffect DEF BackedUp, Cut, Running
  <2>4. QED
    BY <2>3
<1>5. ASSUME NEW w \in Writer, NextBy(w)
      PROVE  \E u \in Writer : BackedUp(u)'
  <2>1. /\ Frame(w) /\ op[w].res = "none" /\ op[w] \in OpRecord /\ op \in [Writer -> OpRecord]
        /\ \A v \in Writer \ {w} : op'[v] = op[v]
    BY <1>1, <1>5, NextByTyped, StepsRun DEF Frame, Typed, OpsOK
  <2>2. /\ Arc \in Paths /\ Bak \in Paths /\ Arc # Bak /\ disk \in [Paths -> Content \cup {Absent}]
        /\ Work(w) # Bak
    BY <1>1, PathSets, Disjoint DEF Typed, Disks
  <2>3. ASSUME BackUp(w)
        PROVE  BackedUp(w)' \/ disk'[Bak] = disk[Bak]
    <3>1. CASE GoTo(w, "install")
      <4>1. Goes(w, "backup", "install")
        BY <1>1, <2>3, <3>1, GoToShape DEF BackUp, SwapStep, Stages, SwapStages
      <4>2. QED
        BY <4>1 DEF BackedUp, Goes, At, Running
    <3>2. CASE Leave(w, "failed", disk)
      BY <2>2, <3>2 DEF Leave, Removed
    <3>3. QED
      BY <2>3, <3>1, <3>2 DEF BackUp, SwapStep
  <2>4. ASSUME ~Exists(Bak)
        PROVE  BackUp(w)
    <3>1. disk[Bak] = Absent /\ disk'[Bak] # Absent
      BY <1>2, <2>4 DEF Exists
    <3>2. ~NativeApplies(w) /\ ~BindingEnds(w) /\ ~EraseArchive(w)
      BY <2>2, <2>4, <3>1 DEF NativeApplies, BindingEnds, Opened, EraseArchive, Leave, Removed
    <3>3. ~BindingBegins(w)
      BY <2>2, <3>1 DEF BindingBegins
    <3>4. ~DropOldBackup(w) /\ ~Install(w) /\ ~DropBackup(w)
      BY <2>2, <3>1 DEF DropOldBackup, Install, DropBackup, SwapStep, Leave, Removed, Renamed
    <3>5. ~Restore(w) /\ ~ArcMove(w) /\ ~ArcUnlink(w)
      BY <2>2, <3>1, Disjoint, PathSets DEF Restore, Leave, Removed, Renamed, ArcMove, ArcUnlink
    <3>6. QED
      BY <1>1, <1>5, <3>1, <3>2, <3>3, <3>4, <3>5, UserFiles
  <2>5. CASE Exists(Bak)
    <3>1. PICK u \in Writer : BackedUp(u)
      BY <1>3, <2>5 DEF BackupFrom
    <3>2. CASE u # w
      BY <2>1, <3>1, <3>2 DEF BackedUp, Cut, Running
    <3>3. CASE u = w
      <4>1. Running(w) /\ op[w].at \in {"install", "drop", "restore"}
        BY <2>1, <3>1, <3>3 DEF BackedUp, Cut
      <4>2. Install(w) \/ DropBackup(w) \/ Restore(w)
        BY <1>5, <4>1, SwapOnly DEF SwapStages, DropOldBackup, BackUp, SwapStep, At
      <4>3. CASE Install(w)
        BY <2>1, <4>1, <4>3 DEF Install, SwapStep, GoTo, BackedUp, Running, OpRecord
      <4>4. CASE DropBackup(w)
        <5>1. GoTo(w, "restore")
          BY <1>2, <2>2, <4>4 DEF DropBackup, Leave, Removed, Exists
        <5>2. QED
          BY <2>1, <4>1, <5>1 DEF GoTo, BackedUp, Running, OpRecord
      <4>5. CASE Restore(w)
        <5>1. faults >= 1
          BY <4>5 DEF Restore, At, MishapInv, MishapOK
        <5>2. ~Fault
          <6>1. ASSUME faults' = faults + 1
                PROVE  FALSE
            BY <1>1, <1>2, <5>1, <6>1, Sums
          <6>2. QED
            BY <6>1 DEF Fault
        <5>3. disk' = Removed(Renamed(disk, Bak, Arc), {Work(w)})
          BY <4>5, <5>2 DEF Restore, Leave
        <5>4. QED
          BY <1>2, <2>2, <5>3 DEF Removed, Renamed, Exists
      <4>6. QED
        BY <4>2, <4>3, <4>4, <4>5
    <3>4. QED
      BY <3>2, <3>3
  <2>6. QED
    BY <1>2, <2>3, <2>4, <2>5 DEF Exists
<1>6. QED
  BY <1>4, <1>5, NextIsBy

\* Who runs after a crash that cut a swap comes to no step that makes an archive.
LEMMA CutStep ==
  ASSUME IInv, MishapInv, CutInv, Next
  PROVE  CutInv'
<1>1. /\ Typed /\ StageInv /\ CallInv /\ MoveInv /\ SwapInv
      /\ faults \in Nat /\ crashes \in Nat /\ faults' \in Nat /\ crashes' \in Nat
      /\ faults + crashes <= faults' + crashes'
      /\ \/ Crash /\ faults' = faults /\ crashes' = crashes + 1
         \/ ~Crash /\ crashes' = crashes /\ faults' \in {faults, faults + 1}
  BY Counters DEF IInv
<1>2. SUFFICES ASSUME faults' + crashes' <= 1, NEW u \in Writer, Cut(u, {"install"})'
               PROVE  /\ ~Exists(Arc)'
                      /\ \A v \in Writer : Running(v)' => op'[v].at \in {"binding", "rebuild", "unpack"}
  BY DEF CutInv, Running
<1>3. faults + crashes <= 1
  BY <1>1, <1>2, Sums
<1>4. CASE Crash
  <2>1. op[u].at = "install" /\ (Running(u) \/ op[u].res = "crashed") /\ crashes' >= 1
    BY <1>1, <1>2, <1>4, CrashEffect DEF Cut
  <2>2. op[u].res # "crashed"
    BY <1>1, <1>2, <1>4 DEF MishapInv, MishapOK
  <2>3. ~Exists(Arc)
    BY <2>1, <2>2 DEF MishapInv, MishapOK, At
  <2>4. QED
    BY <1>1, <1>4, <2>3, CrashEffect DEF Exists, Running
<1>5. ASSUME NEW w \in Writer, NextBy(w)
      PROVE  /\ ~Exists(Arc)'
             /\ \A v \in Writer : Running(v)' => op'[v].at \in {"binding", "rebuild", "unpack"}
  <2>1. /\ Frame(w) /\ op[w].res = "none" /\ StageOK(w) /\ op[w] \in OpRecord
        /\ \A v \in Writer \ {w} : op'[v] = op[v]
    BY <1>1, <1>5, NextByTyped, StepsRun DEF Frame, Typed, OpsOK, StageInv
  <2>2. op'[w].res # "crashed"
    <3>1. ASSUME NEW act \in Acts[w], Start(w, act)
          PROVE  op'[w].res # "crashed"
      BY <1>1, <3>1, StartEffect
    <3>2. CASE Cancel(w)
      BY <1>1, <2>1, <3>2, CancelEffect
    <3>3. CASE Step(w)
      BY <1>1, <2>1, <3>3, StepShape DEF Shape, Ends, Goes, Reads, Endings
    <3>4. QED
      BY <1>5, <3>1, <3>2, <3>3 DEF NextBy
  <2>3. u # w /\ Cut(u, {"install"})
    BY <1>2, <2>1, <2>2 DEF Cut
  <2>4. /\ ~Exists(Arc) /\ kind \in RarKinds
        /\ \A v \in Writer : Running(v) => op[v].at \in {"binding", "rebuild", "unpack"}
    BY <1>1, <1>3, <2>3 DEF CutInv, Cut, StageInv, StageOK, RarStages, SwapStages
  <2>5. ASSUME Running(w)'
        PROVE  op'[w].at \in {"binding", "rebuild", "unpack"}
    <3>1. ASSUME NEW act \in Acts[w], Start(w, act)
          PROVE  op'[w].at \in {"binding", "rebuild", "unpack"}
      BY <1>1, <2>4, <3>1, StartEffect DEF FirstStage, Engine
    <3>2. CASE Cancel(w)
      BY <1>1, <2>4, <3>2, CancelEffect DEF Cancel
    <3>3. CASE Step(w)
      <4>1. Shape(w)
        BY <1>1, <3>3, StepShape
      <4>2. CASE Running(w)
        <5>1. op[w].at \in {"binding", "rebuild", "unpack"}
          BY <2>4, <4>2
        <5>2. CASE Goes(w, "rebuild", "extract") \/ Reads(w, "unpack", "pack") \/ Reads(w, "binding", "inplace")
          <6>1. call[w].at = "idle"
            BY <1>1, <5>1 DEF CallInv, CallOK
          <6>2. ~Calling(w)
            BY <5>1, <6>1 DEF Calling, WriteBack, CallReturns, PublishOutput, DiscardOutput, FileStep, CallStep, At,
               RenameOk, RetryOk, RenameFails, UnlinkDestination, RetryFails, CleanupCall
          <6>3. ~Rest1(w)
            BY <5>1 DEF Rest1, Load, MainFails, NativeReads, NativeApplies, NativeAborts, NativeReturns, At
          <6>4. BindingRefuses(w) \/ RebuildStarts(w) \/ Unpack(w)
            BY <2>4, <3>3, <5>1, <6>2, <6>3, StepKinds DEF Rest2, Rest3, BindingBegins, BindingEnds, BindingBreaks,
               Extract, RebuildFails, EraseArchive, Mutate, Compressed, Pack, DropOldBackup, BackUp, Install,
               DropBackup, Restore, SwapStep, At
          <6>5. \E res \in Endings : End(w, res)
            BY <2>4, <6>4 DEF BindingRefuses, RebuildStarts, Unpack, Endings
          <6>6. Ends(w)
            BY <1>1, <4>2, <6>5, EndShape
          <6>7. QED
            BY <2>5, <6>6 DEF Ends, Endings, Running
        <5>3. CASE op' = op
          BY <5>1, <5>3
        <5>4. QED
          BY <2>5, <4>1, <5>1, <5>2, <5>3 DEF Shape, Ends, Endings, Goes, Reads, At, Running
      <4>3. CASE ~Running(w)
        BY <2>5, <4>1, <4>3 DEF Shape, Ends, Goes, Reads, At, Running
      <4>4. QED
        BY <4>2, <4>3
    <3>4. QED
      BY <1>5, <3>1, <3>2, <3>3 DEF NextBy
  <2>6. ~Exists(Arc)'
    <3>1. Running(w) => op[w].at \in {"binding", "rebuild", "unpack"}
      BY <2>4
    <3>2. ~BindingBegins(w)
      BY <2>4 DEF BindingBegins
    <3>3. ~(NativeApplies(w) \/ BindingEnds(w) \/ EraseArchive(w) \/ DropOldBackup(w) \/ BackUp(w) \/ Install(w)
            \/ DropBackup(w) \/ Restore(w))
      BY <3>1 DEF NativeApplies, BindingEnds, EraseArchive, DropOldBackup, BackUp, Install, DropBackup, Restore,
         SwapStep, At
    <3>4. ~(ArcMove(w) \/ ArcUnlink(w))
      BY <1>1, <3>1 DEF ArcMove, ArcUnlink, CallInv, CallOK, Moving
    <3>5. QED
      BY <1>1, <1>5, <2>4, <3>2, <3>3, <3>4, UserFiles DEF Exists
  <2>7. QED
    BY <2>1, <2>4, <2>5, <2>6 DEF Running
<1>6. QED
  BY <1>4, <1>5, NextIsBy

RInv == IInv /\ MishapInv /\ BackupFrom /\ CutInv

\* What the refinement needs holds at first,
LEMMA TracesInitial == Init => RInv
<1>1. SUFFICES ASSUME Init PROVE RInv
  OBVIOUS
<1>2. IInv
  BY <1>1, Initial
<1>3. /\ \A w \in Writer : op[w] = NoOp /\ call[w].at = "idle" /\ ~Running(w)
      /\ disk[Bak] = Absent
  <2>1. /\ disk = [p \in Paths |-> IF p = Arc THEN Original ELSE Absent]
        /\ op = [w \in Writer |-> NoOp] /\ call = [w \in Writer |-> Idle]
    BY <1>1 DEF Init
  <2>2. NoOp.act = "none" /\ Idle.at = "idle"
    BY DEF NoOp, Idle
  <2>3. QED
    BY <2>1, <2>2, PathSets DEF Running
<1>4. \A w \in Writer : op[w].res = "none" /\ op[w].at = "new"
  BY <1>3 DEF NoOp
<1>5. QED
  BY <1>2, <1>3, <1>4 DEF RInv, MishapInv, MishapOK, Stuck, At, BackupFrom, Exists, CutInv, Cut

\* and every step keeps it.
LEMMA TracesKept == RInv /\ [Next]_vars => RInv'
<1>1. ASSUME RInv, Next PROVE RInv'
  BY <1>1, Kept, MishapStep, BackupFromStep, CutStep DEF RInv
<1>2. ASSUME RInv, UNCHANGED vars PROVE RInv'
  <2>1. IInv'
    BY <1>2, Stutters DEF RInv
  <2>2. MishapInv' /\ BackupFrom' /\ CutInv'
    BY <1>2 DEF RInv, vars, fileVars, MishapInv, MishapOK, Stuck, At, Running, BackupFrom, BackedUp, Exists,
       CutInv, Cut
  <2>3. QED
    BY <2>1, <2>2 DEF RInv
<1>3. QED
  BY <1>1, <1>2

-----------------------------------------------------------------------------
(* The edits that Held finds                                               *)

\* A replacement of the archive that failed once and is about to be tried again, and
\* what it brings.
Awaited(u) == call[u].at = "retry" /\ op[u].dst = "arc"
Brings(u) == IF op[u].at = "write" THEN op[u].seen \cup {u} ELSE op[u].seen
AwaitedFacts ==
  /\ Incoming = {u \in Writer : Awaited(u)}
  /\ \A u \in Writer : Awaited(u) =>
       /\ Running(u) /\ op[u].seen # Absent /\ Brings(u) \in SUBSET Writer
       /\ Next1(u).src = File(u) /\ disk[File(u)].has = Brings(u) /\ disk[File(u)] # Absent
HeldFacts ==
  /\ Held \in {Absent} \cup SUBSET Writer
  /\ Exists(Arc) => Held = disk[Arc].has
  /\ \A u \in Writer :
       ~Exists(Arc) /\ Awaited(u) /\ (\A v \in Writer : Awaited(v) => v = u) => Held = Brings(u)
  /\ ~Exists(Arc) /\ (\A u \in Writer : ~Awaited(u)) =>
       Held = IF Exists(Bak) /\ SetAside THEN disk[Bak].has ELSE Absent

\* The inductive invariant gives the facts on awaited files,
LEMMA AwaitedIs == IInv => AwaitedFacts
<1>1. SUFFICES ASSUME IInv PROVE AwaitedFacts
  OBVIOUS
<1>2. Typed /\ StageInv /\ CallInv /\ MoveInv
  BY <1>1 DEF IInv
<1>3. ASSUME NEW u \in Writer, call[u].at = "retry"
      PROVE  (Next1(u).dst = Arc <=> op[u].dst = "arc") /\ (op[u].dst = "arc" => Next1(u).src = File(u))
  BY <1>2, <1>3, NextMove DEF Moving
<1>4. ASSUME NEW u \in Writer, Awaited(u)
      PROVE  /\ Running(u) /\ op[u].seen # Absent /\ Brings(u) \in SUBSET Writer
             /\ disk[File(u)].has = Brings(u) /\ disk[File(u)] # Absent
  <2>1. Running(u) /\ op[u].at \in {"write", "publish"} /\ op[u] \in OpRecord
    BY <1>2, <1>4 DEF Awaited, CallInv, CallOK, Moving, Typed, OpsOK
  <2>2. op[u].seen \in SUBSET Writer
    BY <1>2, <2>1 DEF StageInv, StageOK, UnreadStages, OpRecord
  <2>3. disk[File(u)] = Written(u, Brings(u))
    BY <1>2, <1>4 DEF Awaited, MoveInv, MoveOK, Moving, Brings
  <2>4. Brings(u) \in SUBSET Writer
    BY <2>2 DEF Brings
  <2>5. QED
    BY <1>2, <2>1, <2>2, <2>3, <2>4, Contents DEF Written, StageInv, StageOK, UnreadStages
<1>5. QED
  BY <1>3, <1>4 DEF AwaitedFacts, Incoming, Awaited

\* and those on what the abstract store holds.
LEMMA HeldIs == IInv => HeldFacts
<1>1. SUFFICES ASSUME IInv PROVE HeldFacts
  OBVIOUS
<1>2. AwaitedFacts /\ Typed
  BY <1>1, AwaitedIs DEF IInv
<1>3. \A p \in Paths : Exists(p) => disk[p].has \in SUBSET Writer
  BY <1>2 DEF Typed, Disks, Content, Exists
<1>4. CASE Exists(Arc)
  BY <1>3, <1>4, PathSets DEF HeldFacts, Held
<1>5. CASE ~Exists(Arc) /\ Incoming # {}
  <2>1. PICK c \in Incoming : c = CHOOSE w \in Incoming : TRUE
    BY <1>5
  <2>2. Held = disk[File(c)].has /\ Held = Brings(c) /\ Brings(c) \in SUBSET Writer /\ Awaited(c) /\ c \in Writer
    BY <1>2, <1>5, <2>1 DEF Held, AwaitedFacts
  <2>3. QED
    BY <1>5, <2>2 DEF HeldFacts
<1>6. CASE ~Exists(Arc) /\ Incoming = {}
  <2>1. Held = IF Exists(Bak) /\ SetAside THEN disk[Bak].has ELSE Absent
    BY <1>6 DEF Held
  <2>2. \A u \in Writer : ~Awaited(u)
    BY <1>2, <1>6 DEF AwaitedFacts
  <2>3. QED
    BY <1>3, <1>6, <2>1, <2>2, PathSets DEF HeldFacts
<1>7. QED
  BY <1>4, <1>5, <1>6

-----------------------------------------------------------------------------
(* Every step is one of ArchiveStore                                       *)

ReadsArchive(w) ==
  \/ Reads(w, "load", "main") \/ Reads(w, "native", "child") \/ Reads(w, "binding", "inplace")
  \/ Reads(w, "extract", "mutate") \/ Reads(w, "unpack", "pack")
BaseSet(w, value) == Based' = [Based EXCEPT ![w] = value]

\* What one step does to the bases.
LEMMA BasedBy ==
  ASSUME IInv, NEW w \in Writer, NextBy(w)
  PROVE  /\ Based[w] = op[w].seen
         /\ \/ Based' = Based
            \/ Ends(w) /\ BaseSet(w, Absent)
            \/ ReadsArchive(w) /\ BaseSet(w, op'[w].seen)
<1>1. Typed /\ StageInv /\ CallInv /\ MoveInv
  BY DEF IInv
<1>2. /\ op[w].res = "none" /\ (op[w].act = "none" => op[w].seen = Absent)
      /\ \A v \in Writer \ {w} : op'[v] = op[v]
  BY <1>1, StepsRun, NextByTyped DEF Frame, Typed, OpsOK, StageInv, StageOK
<1>3. Based[w] = op[w].seen
  BY <1>2 DEF Based, Running
<1>4. Based' = [Based EXCEPT ![w] = IF Running(w)' THEN op'[w].seen ELSE Absent]
  <2>1. \A v \in Writer \ {w} : Running(v)' = Running(v) /\ op'[v].seen = op[v].seen
    BY <1>2 DEF Running
  <2>2. Based' = [v \in Writer |-> IF Running(v)' THEN op'[v].seen ELSE Absent]
    BY DEF Based
  <2>3. QED
    BY <2>1, <2>2 DEF Based
<1>5. CASE Running(w)' /\ op'[w].seen = op[w].seen
  <2>1. Based' = [Based EXCEPT ![w] = Based[w]]
    BY <1>3, <1>4, <1>5
  <2>2. QED
    BY <1>3, <2>1 DEF Based
<1>6. CASE ~Running(w)' /\ op[w].seen = Absent
  <2>1. Based' = [Based EXCEPT ![w] = Based[w]]
    BY <1>3, <1>4, <1>6
  <2>2. QED
    BY <1>3, <2>1 DEF Based
<1>7. ASSUME NEW act \in Acts[w], Start(w, act)
      PROVE  Running(w)' /\ op'[w].seen = op[w].seen
  BY <1>1, <1>7, StartEffect DEF Running, Mutations, Conversions
<1>8. ASSUME Cancel(w)
      PROVE  Running(w)' /\ op'[w].seen = op[w].seen
  BY <1>1, <1>8, CancelEffect DEF Running, Cancel
<1>9. ASSUME Step(w)
      PROVE  \/ Running(w)' /\ op'[w].seen = op[w].seen
             \/ ~Running(w)' /\ op[w].seen = Absent
             \/ Ends(w) /\ ~Running(w)'
             \/ ReadsArchive(w) /\ Running(w)'
  <2>1. Shape(w)
    BY <1>1, <1>9, StepShape
  <2>2. CASE op' = op
    BY <1>2, <2>2 DEF Running
  <2>3. CASE Ends(w)
    BY <2>3 DEF Ends, Endings, Running
  <2>4. CASE ReadsArchive(w)
    BY <2>4 DEF ReadsArchive, Reads, At, Running
  <2>5. QED
    BY <2>1, <2>2, <2>3, <2>4 DEF Shape, ReadsArchive, Goes, At, Running
<1>10. QED
  BY <1>3, <1>4, <1>5, <1>6, <1>7, <1>8, <1>9 DEF NextBy, BaseSet

\* What leaves the archive, or the file that stands in for it, as it is.
LEMMA HeldSame ==
  ASSUME IInv, IInv', NEW w \in Writer, Frame(w), disk'[Arc] = disk[Arc],
         \/ Exists(Arc)
         \/ /\ Awaited(w)' <=> Awaited(w)
            /\ Awaited(w) => disk'[File(w)] = disk[File(w)]
            /\ \/ \E u \in Writer : Awaited(u)
               \/ /\ disk'[Bak] = disk[Bak]
                  /\ op'[w].at \in {"install", "restore"} <=> op[w].at \in {"install", "restore"}
  PROVE  Held' = Held
<1>1. AwaitedFacts /\ AwaitedFacts' /\ HeldFacts /\ HeldFacts'
  BY AwaitedIs, HeldIs, PTL
<1>2. Typed /\ \A v \in Writer \ {w} : op'[v] = op[v] /\ call'[v] = call[v]
  BY DEF IInv, Frame, Typed, OpsOK, CallsOK
<1>3. CASE Exists(Arc)
  BY <1>1, <1>3 DEF HeldFacts, Exists
<1>4. CASE ~Exists(Arc)
  <2>1. ~Exists(Arc)' /\ (Awaited(w)' <=> Awaited(w)) /\ (Awaited(w) => disk'[File(w)] = disk[File(w)])
    BY <1>4 DEF Exists
  <2>2. \A u \in Writer : Awaited(u)' <=> Awaited(u)
    BY <1>2, <2>1 DEF Awaited
  <2>3. Incoming' = Incoming
    BY <1>1, <2>2 DEF AwaitedFacts
  <2>4. CASE Incoming # {}
    <3>1. PICK c \in Incoming : c = CHOOSE u \in Incoming : TRUE
      BY <2>4
    <3>2. c = CHOOSE u \in Incoming' : TRUE
      BY <2>3, <3>1
    <3>3. c \in Writer /\ Awaited(c) /\ Awaited(c)'
      BY <1>1, <2>2, <3>1 DEF AwaitedFacts
    <3>4. Next1(c).src = File(c) /\ Next1(c)'.src = File(c)
      BY <1>1, <3>3 DEF AwaitedFacts
    <3>5. disk'[File(c)] = disk[File(c)]
      BY <2>1, <3>3, PathSets DEF Frame
    <3>6. Held = disk[File(c)].has
      BY <1>4, <2>4, <3>1, <3>4 DEF Held
    <3>7. Held' = disk'[File(c)].has
      BY <2>1, <2>3, <2>4, <3>2, <3>4 DEF Held
    <3>8. QED
      BY <3>5, <3>6, <3>7
  <2>5. CASE Incoming = {}
    <3>1. \A u \in Writer : ~Awaited(u) /\ ~Awaited(u)'
      BY <1>1, <2>2, <2>5 DEF AwaitedFacts
    <3>2. disk'[Bak] = disk[Bak] /\ (op'[w].at \in {"install", "restore"} <=> op[w].at \in {"install", "restore"})
      BY <1>4, <3>1
    <3>3. SetAside' <=> SetAside
      BY <1>2, <3>2 DEF SetAside
    <3>4. QED
      BY <1>1, <1>4, <2>1, <3>1, <3>2, <3>3 DEF HeldFacts, Exists
  <2>6. QED
    BY <2>4, <2>5
<1>5. QED
  BY <1>3, <1>4

Mapped(w) ==
  \/ Held' = Held /\ Based' = Based
  \/ Store!Read(w) \/ Store!End(w) \/ Store!Commit(w) \/ Store!Rewrite(w)
  \/ Store!Undo(w) \/ Store!Erase(w) \/ Store!Lose(w)

\* A step that leaves the edits is a read, an end, or nothing.
LEMMA HeldMapped ==
  ASSUME RInv, NEW w \in Writer, NextBy(w), Held' = Held
  PROVE  Mapped(w)
<1>1. IInv /\ HeldFacts /\ Typed /\ StageInv /\ CallInv /\ AwaitedFacts
  BY HeldIs, AwaitedIs DEF RInv, IInv
<1>2. CASE Based' = Based
  BY <1>2 DEF Mapped
<1>3. CASE BaseSet(w, Absent)
  BY <1>3 DEF Mapped, BaseSet, Store!End, Store!Ended
<1>4. CASE ReadsArchive(w) /\ BaseSet(w, op'[w].seen)
  <2>1. CASE Exists(Arc)
    <3>1. op'[w].seen = Held /\ Held # Absent
      BY <1>1, <1>4, <2>1, SeenType, EditAssumption DEF ReadsArchive, Reads, HeldFacts
    <3>2. QED
      BY <1>4, <3>1 DEF Mapped, Store!Read, BaseSet
  <2>2. CASE ~Exists(Arc)
    <3>1. op'[w].seen = {} /\ At(w, "native")
      BY <1>4, <2>2 DEF ReadsArchive, Reads
    <3>2. CASE Held = Absent
      BY <1>4, <3>1, <3>2 DEF Mapped, Store!Read, BaseSet
    <3>3. CASE Held # Absent
      <4>1. ~SetAside
        BY <1>1, <3>1 DEF SetAside, StageInv, StageOK, NativeStages, RarStages, SwapStages, At
      <4>2. PICK u \in Writer : Awaited(u)
        BY <1>1, <2>2, <3>3, <4>1 DEF HeldFacts
      <4>3. faults >= 1 /\ faults \in Nat /\ crashes \in Nat
        BY <1>1, <4>2, FileAssumption, EditAssumption DEF Awaited, CallInv, CallOK, Typed, RestOK
      <4>4. faults + crashes > 0
        BY <4>3
      <4>5. QED
        BY <1>4, <3>1, <4>4 DEF Mapped, Store!Read, BaseSet
    <3>4. QED
      BY <3>2, <3>3
  <2>3. QED
    BY <2>1, <2>2
<1>5. QED
  BY <1>1, <1>2, <1>3, <1>4, BasedBy

TooMany == faults' + crashes' > IF Fragile THEN 0 ELSE 1

\* After too many mishaps a step of an operation that has read may do anything.
LEMMA LoseMapped ==
  ASSUME IInv', NEW w \in Writer, Based[w] # Absent, TooMany, Based' = Based \/ BaseSet(w, Absent)
  PROVE  Mapped(w)
<1>1. Held' \in {Absent} \cup SUBSET Writer
  <2>1. HeldFacts'
    BY HeldIs, PTL
  <2>2. QED
    BY <2>1 DEF HeldFacts
<1>2. Store!TooMuch
  BY <1>1 DEF TooMany, Store!TooMuch, Store!OneOf
<1>3. QED
  BY <1>2 DEF Mapped, BaseSet, Store!Lose, Store!Active, Store!EndedOrNot, Store!Ended

\* With no swap under way, a backup found after one mishap is nobody's.
LEMMA NothingAside ==
  ASSUME RInv, NEW w \in Writer, Running(w), op[w].at \in {"mutate", "swap"}, Exists(Bak),
         faults + crashes <= 1,
         \A v \in Writer : v # w /\ Running(v) => op[v].at \notin {"install", "drop", "restore"}
  PROVE  ~SetAside
<1>1. StageInv /\ faults \in Nat /\ crashes \in Nat
  BY FileAssumption, EditAssumption DEF RInv, IInv, Typed, RestOK
<1>2. PICK u \in Writer : BackedUp(u)
  BY DEF RInv, BackupFrom
<1>3. op[u].res = "crashed" /\ crashes >= 1
  BY <1>2 DEF BackedUp, Cut, RInv, MishapInv, MishapOK
<1>4. ASSUME NEW x \in Writer, op[x].at \in {"install", "restore"}
      PROVE  FALSE
  <2>1. op[x].act # "none" /\ ~Running(x)
    BY <1>1, <1>4 DEF StageInv, StageOK
  <2>2. CASE op[x].at = "install"
    <3>1. op[x].res = "crashed"
      BY <2>1, <2>2 DEF RInv, MishapInv, MishapOK, Running
    <3>2. QED
      BY <2>2, <3>1 DEF RInv, CutInv, Cut
  <2>3. CASE op[x].at = "restore"
    <3>1. faults >= 1
      BY <2>3 DEF RInv, MishapInv, MishapOK
    <3>2. QED
      BY <1>1, <1>3, <3>1
  <2>4. QED
    BY <1>4, <2>2, <2>3
<1>5. QED
  BY <1>4 DEF SetAside

\* The destination was unlinked, or was missing: what the replacement brings is what
\* the archive holds from now on.
LEMMA ArriveMapped ==
  ASSUME RInv, RInv', NEW w \in Writer, NextBy(w), op' = op, Awaited(w)', ~Exists(Arc)'
  PROVE  Mapped(w)
<1>1. IInv /\ IInv' /\ HeldFacts' /\ Typed' /\ StageInv /\ CallInv' /\ AwaitedFacts'
  BY HeldIs, AwaitedIs, PTL DEF RInv, IInv
<1>2. Based[w] = op[w].seen /\ Based' = Based
  BY <1>1, BasedBy DEF Based, Running
<1>3. op[w].seen # Absent /\ op[w].at \in {"write", "publish"}
  BY <1>1 DEF AwaitedFacts, Awaited, CallInv, CallOK, Moving
<1>4. CASE \A v \in Writer : Awaited(v)' => v = w
  <2>1. Held' = Brings(w)
    BY <1>1, <1>4 DEF HeldFacts, Brings
  <2>2. QED
    BY <1>2, <1>3, <2>1 DEF Mapped, Brings, Store!Commit, Store!Rewrite, Store!Active, Store!EndedOrNot
<1>5. CASE \E v \in Writer : Awaited(v)' /\ v # w
  <2>1. faults' >= 2 /\ faults' \in Nat /\ crashes' \in Nat
    BY <1>1, <1>5, FileAssumption, EditAssumption DEF RInv, MishapInv, Awaited, Stuck, Typed, RestOK
  <2>2. faults' + crashes' > 1 /\ faults' + crashes' > 0
    BY <2>1, Sums
  <2>3. TooMany
    BY <2>2 DEF TooMany
  <2>4. QED
    BY <1>1, <1>2, <1>3, <2>3, LoseMapped
<1>6. QED
  BY <1>4, <1>5

\* A replacement that fails for good while the archive is missing.
LEMMA AbandonMapped ==
  ASSUME RInv, RInv', NEW w \in Writer, NextBy(w), RetryFails(w), op' = op, Awaited(w), ~Exists(Arc)
  PROVE  Mapped(w)
<1>1. IInv /\ IInv' /\ Typed /\ Typed' /\ StageInv /\ CallInv /\ MoveInv /\ AwaitedFacts
  BY AwaitedIs DEF RInv, IInv
<1>2. Based[w] = op[w].seen /\ Based' = Based /\ op[w].seen # Absent
  BY <1>1, BasedBy DEF Based, Running, AwaitedFacts
<1>3. /\ faults >= 1 /\ faults \in Nat /\ faults' \in Nat /\ crashes' \in Nat
  BY <1>1, FileAssumption, EditAssumption DEF Awaited, CallInv, CallOK, Typed, RestOK
<1>4. Next1(w).dst = Arc
  BY <1>1, NextMove DEF Awaited, Moving
<1>5. CASE faults' = faults + 1
  <2>1. faults' >= 2
    BY <1>3, <1>5
  <2>2. faults' + crashes' > 1 /\ faults' + crashes' > 0
    BY <1>3, <2>1, Sums
  <2>3. QED
    BY <1>1, <1>2, <2>2, LoseMapped DEF TooMany
<1>6. CASE Fragile /\ faults' = faults
  <2>1. faults' + crashes' > 0
    BY <1>3, <1>6, Sums
  <2>2. QED
    BY <1>1, <1>2, <1>6, <2>1, LoseMapped DEF TooMany
<1>7. QED
  BY <1>4, <1>5, <1>6 DEF RetryFails, Fault

\* A step that moves neither the archive nor its backup maps to a step of the store
\* or to none.
LEMMA SettledMapped ==
  ASSUME RInv, RInv', NEW w \in Writer, NextBy(w), disk'[Arc] = disk[Arc], disk'[Bak] = disk[Bak]
  PROVE  Mapped(w)
<1>1. IInv /\ IInv' /\ Typed /\ StageInv /\ CallInv /\ MoveInv /\ SwapInv /\ AwaitedFacts
  BY AwaitedIs DEF RInv, IInv
<1>2. Frame(w) /\ op[w].res = "none" /\ StageOK(w) /\ CallOK(w) /\ SwapOK(w)
  BY <1>1, NextByTyped, StepsRun DEF StageInv, CallInv, SwapInv
<1>3. SUFFICES ASSUME Held' # Held PROVE Mapped(w)
  BY HeldMapped
<1>4. /\ ~Exists(Arc) /\ ~Exists(Arc)'
      /\ ~(/\ Awaited(w)' <=> Awaited(w)
           /\ Awaited(w) => disk'[File(w)] = disk[File(w)]
           /\ op'[w].at \in {"install", "restore"} <=> op[w].at \in {"install", "restore"})
  BY <1>1, <1>2, <1>3, HeldSame DEF Exists
<1>5. ASSUME NEW act \in Acts[w], Start(w, act)
      PROVE  FALSE
  <2>1. call[w].at = "idle" /\ call' = call
    BY <1>1, <1>2, <1>5, StartEffect DEF CallOK, fileVars
  <2>2. QED
    BY <1>1, <1>4, <1>5, <2>1, StartEffect DEF Awaited
<1>6. ASSUME Cancel(w)
      PROVE  FALSE
  BY <1>1, <1>4, <1>6, CancelEffect DEF Awaited, fileVars
<1>7. ASSUME Step(w), Rest1(w) \/ Rest2(w) \/ Rest3(w)
      PROVE  FALSE
  <2>1. call' = call /\ call[w].at = "idle"
    BY <1>1, <1>2, <1>7, RestOfCall DEF CallOK
  <2>2. ~(op'[w].at \in {"install", "restore"} <=> op[w].at \in {"install", "restore"})
    BY <1>4, <2>1 DEF Awaited
  <2>3. Goes(w, "backup", "install") \/ Goes(w, "install", "drop") \/ Goes(w, "drop", "restore")
    <3>1. Shape(w)
      BY <1>1, <1>7, StepShape
    <3>2. ~(op' = op) /\ ~Ends(w)
      BY <2>2 DEF Ends
    <3>3. QED
      BY <2>2, <3>1, <3>2 DEF Shape, Reads, Goes, At
  <2>4. CASE Goes(w, "backup", "install")
    <3>1. BackUp(w)
      BY <1>1, <2>4, SwapOnly DEF Goes, At, SwapStages, DropOldBackup, Install, DropBackup, Restore, SwapStep
    <3>2. Exists(Arc)
      BY <1>2, <2>4, <3>1, EndShape DEF BackUp, SwapStep, Leave, Goes, End, At, Running, Typed, OpsOK, OpRecord, RInv, IInv
    <3>3. QED
      BY <1>4, <3>2
  <2>5. CASE Goes(w, "install", "drop")
    <3>1. SwapOK(w)' /\ At(w, "drop")'
      BY <1>2, <2>5 DEF RInv, IInv, SwapInv, Goes, At, Running, StageOK
    <3>2. QED
      BY <1>4, <3>1 DEF SwapOK
  <2>6. CASE Goes(w, "drop", "restore")
    BY <1>2, <1>4, <2>6 DEF Goes, SwapOK
  <2>7. QED
    BY <2>3, <2>4, <2>5, <2>6
<1>8. ASSUME Calling(w)
      PROVE  Mapped(w)
  <2>1. CASE WriteBack(w) \/ CallReturns(w) \/ PublishOutput(w) \/ DiscardOutput(w)
    <3>1. ~Awaited(w) /\ ~Awaited(w)'
      BY <1>1, <2>1 DEF WriteBack, WriteTemp, CallReturns, PublishOutput, Publish, DiscardOutput, Discard, Awaited,
         fileVars, Typed, CallsOK, CallRecord
    <3>2. op'[w].at \notin {"install", "restore"} /\ op[w].at \notin {"install", "restore"}
      <4>1. op[w].at \in {"main", "write", "publish", "discard"}
        BY <2>1 DEF WriteBack, CallReturns, PublishOutput, DiscardOutput, At
      <4>2. op'[w].at \in {op[w].at, "write"}
        BY <1>1, <2>1 DEF WriteBack, GoTo, CallReturns, End, PublishOutput, DiscardOutput, Typed, OpsOK, OpRecord
      <4>3. QED
        BY <4>1, <4>2
    <3>3. QED
      BY <1>4, <3>1, <3>2
  <2>2. CASE FileStep(w)
    <3>1. op' = op
      BY <2>2 DEF FileStep
    <3>2. CASE RenameOk(w) \/ RenameFails(w) \/ CleanupCall(w)
      <4>1. ~Awaited(w) /\ ~Awaited(w)'
        BY <1>1, <3>2 DEF RenameOk, MoveDone, RenameFails, CleanupCall, Awaited, Typed, CallsOK, CallRecord
      <4>2. QED
        BY <1>4, <3>1, <4>1
    <3>3. CASE UnlinkDestination(w)
      <4>1. ~Awaited(w)
        BY <3>3 DEF UnlinkDestination, Awaited
      <4>2. Awaited(w)'
        BY <1>4, <3>1, <4>1
      <4>3. QED
        BY <1>4, <3>1, <4>2, ArriveMapped
    <3>4. CASE RetryOk(w)
      <4>1. call'[w].at \in {"done", "rename"} /\ disk' = Renamed(disk, Next1(w).src, Next1(w).dst)
        BY <1>1, <3>4 DEF RetryOk, MoveDone, Typed, CallsOK, CallRecord
      <4>2. Awaited(w)
        BY <1>4, <3>1, <4>1 DEF Awaited
      <4>3. Next1(w).dst = Arc /\ Next1(w).src = File(w) /\ disk[File(w)] # Absent
        BY <1>1, <4>2, NextMove DEF AwaitedFacts, Awaited, Moving
      <4>4. disk'[Arc] = disk[File(w)]
        BY <1>1, <4>1, <4>3, PathSets, Disjoint DEF Renamed, Typed, Disks
      <4>5. QED
        BY <1>4, <4>3, <4>4 DEF Exists
    <3>5. CASE RetryFails(w)
      <4>1. ~Awaited(w)'
        BY <1>1, <3>5 DEF RetryFails, Awaited, Typed, CallsOK, CallRecord
      <4>2. Awaited(w)
        BY <1>4, <3>1, <4>1
      <4>3. QED
        BY <1>4, <3>1, <3>5, <4>2, AbandonMapped
    <3>6. QED
      BY <2>2, <3>2, <3>3, <3>4, <3>5 DEF FileStep, CallStep
  <2>3. QED
    BY <1>8, <2>1, <2>2 DEF Calling
<1>9. QED
  BY <1>5, <1>6, <1>7, <1>8, StepKinds DEF NextBy

\* A swap, and a step that needs the extension host to itself, finds no replacement
\* in the middle of its retry.
LEMMA NoneAwaited ==
  ASSUME IInv, NEW w \in Writer, Running(w), op[w].at \in RarStages, op[w].at \in SwapStages \/ HostFree
  PROVE  \A v \in Writer : ~Awaited(v)
<1>1. StageInv /\ CallInv /\ Exclusive
  BY DEF IInv
<1>2. SUFFICES ASSUME NEW v \in Writer, Awaited(v) PROVE FALSE
  OBVIOUS
<1>3. Running(v) /\ op[v].at \in {"write", "publish"}
  BY <1>1, <1>2 DEF Awaited, CallInv, CallOK, Moving
<1>4. op[v].at = "publish"
  BY <1>1, <1>3 DEF StageInv, StageOK, WorkerStages
<1>5. CASE op[w].at \in SwapStages
  <2>1. Busy(v) /\ Busy(w) /\ v # w
    BY <1>2, <1>3, <1>4, <1>5 DEF Busy, Awaited, SwapStages
  <2>2. QED
    BY <1>1, <2>1 DEF Exclusive
<1>6. CASE HostFree
  BY <1>2, <1>3, <1>4, <1>6 DEF HostFree, Awaited
<1>7. QED
  BY <1>5, <1>6

\* A step of the RAR pipeline before its swap starts no wait for a file.
LEMMA StillNoneAwaited ==
  ASSUME IInv, NEW w \in Writer, NextBy(w), Running(w), op[w].at \in RarStages, call' = call,
         \A v \in Writer : ~Awaited(v)
  PROVE  \A v \in Writer : ~Awaited(v)'
<1>1. Typed /\ StageInv /\ CallInv /\ MoveInv
  BY DEF IInv
<1>2. call[w].at = "idle"
  BY <1>1 DEF CallInv, CallOK, RarStages, SwapStages
<1>3. \A v \in Writer \ {w} : op'[v] = op[v]
  BY <1>1, NextByTyped DEF Frame, Typed, OpsOK
<1>4. QED
  BY <1>2, <1>3 DEF Awaited

\* The steps of the swap.
LEMMA SwapMapped ==
  ASSUME RInv, RInv', NEW w \in Writer, NextBy(w),
         DropOldBackup(w) \/ BackUp(w) \/ Install(w) \/ DropBackup(w) \/ Restore(w)
  PROVE  Mapped(w)
<1>1. /\ IInv /\ IInv' /\ Typed /\ Typed' /\ StageInv /\ CallInv /\ MoveInv /\ SwapInv /\ BackupInv /\ Exclusive
      /\ HeldFacts /\ HeldFacts'
  BY HeldIs, PTL DEF RInv, IInv
<1>2. /\ Frame(w) /\ StageOK(w) /\ SwapOK(w) /\ Running(w) /\ op[w].at \in SwapStages
      /\ op[w] \in OpRecord
  BY <1>1, NextByTyped DEF StageInv, SwapInv, DropOldBackup, BackUp, Install, DropBackup, Restore, SwapStep,
     At, SwapStages, Typed, OpsOK
<1>3. call' = call
  BY <1>1, RestOfCall DEF Rest3
<1>4. /\ \A v \in Writer : ~Awaited(v)
      /\ \A v \in Writer : ~Awaited(v)'
  BY <1>1, <1>2, <1>3, NoneAwaited, StillNoneAwaited DEF RarStages
<1>5. /\ Arc \in Paths /\ Bak \in Paths /\ Arc # Bak /\ Work(w) \in Paths /\ Work(w) # Arc /\ Work(w) # Bak
      /\ disk \in [Paths -> Content \cup {Absent}]
  BY <1>1, PathSets, Disjoint DEF Typed, Disks
<1>6. /\ op[w].seen # Absent /\ op[w].seen \in SUBSET Writer /\ Based[w] = op[w].seen
  BY <1>1, <1>2, BasedBy DEF StageOK, UnreadStages, SwapStages, OpRecord
<1>7. SUFFICES ASSUME ~(disk'[Arc] = disk[Arc] /\ disk'[Bak] = disk[Bak])
               PROVE  Mapped(w)
  BY SettledMapped
<1>8. ASSUME Leave(w, "failed", disk)
      PROVE  FALSE
  BY <1>5, <1>7, <1>8 DEF Leave, Removed
<1>9. ASSUME NEW s, NEW t \in Stages, At(w, s), GoTo(w, t)
      PROVE  Goes(w, s, t) /\ Based' = Based
  <2>1. Goes(w, s, t)
    BY <1>1, <1>9, GoToShape
  <2>2. Based' = [v \in Writer |-> IF Running(v)' THEN op'[v].seen ELSE Absent]
    BY DEF Based
  <2>3. \A v \in Writer : Running(v)' = Running(v) /\ op'[v].seen = op[v].seen
    BY <1>1, <1>2, <2>1 DEF Goes, Frame, Typed, OpsOK, At, Running, StageOK
  <2>4. QED
    BY <2>1, <2>2, <2>3 DEF Based
<1>10. CASE DropOldBackup(w)
  <2>1. At(w, "swap") /\ GoTo(w, "backup") /\ disk' = Removed(disk, {Bak}) /\ UNCHANGED faults
    BY <1>7, <1>8, <1>10 DEF DropOldBackup, SwapStep
  <2>2. Goes(w, "swap", "backup") /\ Based' = Based
    BY <1>9, <2>1 DEF Stages, SwapStages
  <2>3. disk'[Arc] = disk[Arc] /\ disk'[Bak] = Absent
    BY <1>5, <2>1 DEF Removed
  <2>4. CASE Exists(Arc) \/ ~Exists(Bak) \/ ~SetAside
    <3>1. Held' = Held
      <4>1. CASE Exists(Arc)
        BY <1>1, <1>2, <2>3, <4>1, HeldSame
      <4>2. CASE ~Exists(Arc)
        BY <1>1, <1>4, <2>3, <2>4, <4>2 DEF HeldFacts, Exists
      <4>3. QED
        BY <4>1, <4>2
    <3>2. QED
      BY <3>1, HeldMapped
  <2>5. CASE Exists(Bak) /\ SetAside
    <3>1. \A v \in Writer : v # w /\ Running(v) => op[v].at \notin {"install", "drop", "restore"}
      BY <1>1, <1>2 DEF Exclusive, Busy, SwapStages
    <3>2. ~(faults + crashes <= 1)
      BY <1>2, <2>1, <2>5, <3>1, NothingAside DEF At
    <3>3. faults \in Nat /\ crashes \in Nat /\ faults' = faults /\ crashes' = crashes
      BY <1>1, <1>2, <2>1, FileAssumption, EditAssumption DEF Typed, RestOK, Frame
    <3>4. faults' + crashes' > 1 /\ faults' + crashes' > 0
      BY <3>2, <3>3, Sums
    <3>5. QED
      BY <1>1, <1>6, <2>2, <3>4, LoseMapped DEF TooMany
  <2>6. QED
    BY <2>4, <2>5
<1>11. CASE BackUp(w)
  <2>1. At(w, "backup") /\ GoTo(w, "install") /\ Exists(Arc) /\ disk' = Renamed(disk, Arc, Bak)
    BY <1>7, <1>8, <1>11 DEF BackUp, SwapStep
  <2>2. Goes(w, "backup", "install")
    BY <1>9, <2>1 DEF Stages, SwapStages
  <2>3. disk'[Arc] = Absent /\ disk'[Bak] = disk[Arc] /\ SetAside'
    BY <1>5, <2>1, <2>2 DEF Renamed, SetAside, Goes
  <2>4. Held' = Held
    BY <1>1, <1>4, <2>1, <2>3 DEF HeldFacts, Exists
  <2>5. QED
    BY <2>4, HeldMapped
<1>12. CASE Install(w)
  <2>1. At(w, "install") /\ GoTo(w, "drop") /\ disk' = Renamed(disk, Work(w), Arc)
    BY <1>7, <1>12 DEF Install, SwapStep
  <2>2. Based' = Based
    BY <1>9, <2>1 DEF Stages, SwapStages
  <2>3. disk'[Arc] = Written(w, op[w].seen \cup {w})
    BY <1>2, <1>5, <2>1 DEF Renamed, SwapOK, At
  <2>4. disk'[Arc] # Absent /\ disk'[Arc].has = op[w].seen \cup {w}
    BY <1>6, <2>3, Contents DEF Written
  <2>5. Held' = op[w].seen \cup {w}
    BY <1>1, <2>4 DEF HeldFacts, Exists
  <2>6. QED
    BY <1>6, <2>2, <2>5 DEF Mapped, Store!Commit, Store!Active, Store!EndedOrNot
<1>13. CASE DropBackup(w)
  <2>1. At(w, "drop") /\ disk' = Removed(Removed(disk, {Bak}), {Work(w)})
    BY <1>7, <1>13 DEF DropBackup, Leave
  <2>2. Exists(Arc) /\ disk'[Arc] = disk[Arc]
    BY <1>2, <1>5, <2>1 DEF SwapOK, Removed
  <2>3. Held' = Held
    BY <1>1, <1>2, <2>2, HeldSame
  <2>4. QED
    BY <2>3, HeldMapped
<1>14. CASE Restore(w)
  <2>1. At(w, "restore") /\ End(w, "failed") /\ disk' = Removed(Renamed(disk, Bak, Arc), {Work(w)})
    BY <1>7, <1>8, <1>14 DEF Restore, Leave
  <2>2. Exists(Bak) /\ disk'[Arc] = disk[Bak] /\ w \notin disk[Bak].has
    BY <1>1, <1>2, <1>5, <2>1 DEF SwapOK, BackupInv, Renamed, Removed, At
  <2>3. Held' = disk[Bak].has /\ Held' \in SUBSET (Writer \ {w})
    <3>1. Held' = disk[Bak].has /\ disk[Bak] \in Content
      BY <1>1, <1>5, <2>2 DEF HeldFacts, Exists
    <3>2. QED
      BY <2>2, <3>1 DEF Content
  <2>4. Ends(w)
    BY <1>1, <2>1, EndShape DEF At, Endings
  <2>5. BaseSet(w, Absent)
    <3>1. ~ReadsArchive(w)
      BY <1>2 DEF ReadsArchive, Reads, At, SwapStages
    <3>2. ~(Based' = Based)
      BY <1>6, <2>4 DEF Based, Ends, Endings, Running
    <3>3. QED
      BY <1>1, <3>1, <3>2, BasedBy
  <2>6. QED
    BY <1>6, <2>3, <2>5 DEF Mapped, Store!Undo, Store!Active, Store!Ended, Store!OneOf, BaseSet
<1>15. QED
  BY <1>10, <1>11, <1>12, <1>13, <1>14

\* The deletion of the last member.
LEMMA EraseMapped ==
  ASSUME RInv, RInv', NEW w \in Writer, NextBy(w), EraseArchive(w)
  PROVE  Mapped(w)
<1>1. /\ IInv /\ IInv' /\ Typed /\ Typed' /\ StageInv /\ CallInv /\ MoveInv /\ HeldFacts'
  BY HeldIs, PTL DEF RInv, IInv
<1>2. /\ Frame(w) /\ StageOK(w) /\ Running(w) /\ op[w].at = "mutate" /\ HostFree /\ op[w] \in OpRecord
      /\ End(w, "ok") /\ disk' = Removed(Removed(disk, {Arc}), {Work(w)}) /\ UNCHANGED faults
  BY <1>1, NextByTyped DEF StageInv, EraseArchive, Leave, At, Typed, OpsOK
<1>3. call' = call
  BY <1>1, RestOfCall DEF Rest2
<1>4. \A v \in Writer : ~Awaited(v)'
  BY <1>1, <1>2, <1>3, NoneAwaited, StillNoneAwaited DEF RarStages
<1>5. disk'[Arc] = Absent /\ disk'[Bak] = disk[Bak]
  BY <1>1, <1>2, PathSets, Disjoint DEF Removed, Typed, Disks
<1>6. Ends(w) /\ (SetAside' <=> SetAside)
  <2>1. Ends(w)
    BY <1>1, <1>2, EndShape DEF Endings
  <2>2. \A v \in Writer : op'[v].at = op[v].at
    BY <1>1, <1>2, <2>1 DEF Ends, Frame, Typed, OpsOK
  <2>3. QED
    BY <2>1, <2>2 DEF SetAside
<1>7. op[w].seen # Absent /\ Based[w] = op[w].seen /\ BaseSet(w, Absent)
  <2>1. op[w].seen # Absent /\ Based[w] = op[w].seen
    BY <1>1, <1>2, BasedBy DEF StageOK, UnreadStages
  <2>2. ~ReadsArchive(w)
    BY <1>2 DEF ReadsArchive, Reads, At
  <2>3. ~(Based' = Based)
    BY <1>6, <2>1 DEF Based, Ends, Endings, Running
  <2>4. QED
    BY <1>1, <2>1, <2>2, <2>3, BasedBy
<1>8. CASE ~Exists(Bak) \/ ~SetAside
  <2>1. Held' = Absent
    BY <1>1, <1>4, <1>5, <1>6, <1>8 DEF HeldFacts, Exists
  <2>2. QED
    BY <1>7, <2>1 DEF Mapped, BaseSet, Store!Erase, Store!Active, Store!Ended
<1>9. CASE Exists(Bak) /\ SetAside
  <2>1. \A v \in Writer : v # w /\ Running(v) => op[v].at \notin {"install", "drop", "restore"}
    BY <1>2 DEF HostFree, SwapStages
  <2>2. ~(faults + crashes <= 1)
    BY <1>2, <1>9, <2>1, NothingAside
  <2>3. faults \in Nat /\ crashes \in Nat /\ faults' = faults /\ crashes' = crashes
    BY <1>1, <1>2, FileAssumption, EditAssumption DEF Typed, RestOK, Frame
  <2>4. faults' + crashes' > 1 /\ faults' + crashes' > 0
    BY <2>2, <2>3, Sums
  <2>5. QED
    BY <1>1, <1>7, <2>4, LoseMapped DEF TooMany
<1>10. QED
  BY <1>8, <1>9

\* A native 7-Zip that renames its copy over the archive.
LEMMA NativeMapped ==
  ASSUME RInv, RInv', NEW w \in Writer, NextBy(w), NativeApplies(w)
  PROVE  Mapped(w)
<1>1. IInv /\ Typed /\ StageInv /\ CallInv /\ MoveInv /\ HeldFacts'
  BY HeldIs, PTL DEF RInv, IInv
<1>2. At(w, "child") /\ op[w].seen # Absent /\ op[w].seen \in SUBSET Writer /\ Based[w] = op[w].seen
  BY <1>1, BasedBy DEF NativeApplies, At, StageInv, StageOK, UnreadStages, Typed, OpsOK, OpRecord
<1>3. Goes(w, "child", "exited")
  BY <1>1, <1>2, GoToShape DEF NativeApplies, Stages
<1>4. Based' = Based
  BY <1>1, <1>3, BasedBy DEF Goes, Ends, Endings, ReadsArchive, Reads, At
<1>5. disk'[Arc] = Written(w, op[w].seen \cup {w})
  BY <1>1, PathSets DEF NativeApplies, Typed, Disks
<1>6. disk'[Arc] # Absent /\ disk'[Arc].has = op[w].seen \cup {w}
  BY <1>2, <1>5, Contents DEF Written
<1>7. Held' = op[w].seen \cup {w}
  BY <1>1, <1>6 DEF HeldFacts, Exists
<1>8. QED
  BY <1>2, <1>4, <1>7 DEF Mapped, Store!Commit, Store!Active, Store!EndedOrNot

\* The binding opens the archive, and closes the file it has opened.
LEMMA BindingMapped ==
  ASSUME RInv, RInv', NEW w \in Writer, NextBy(w), BindingBegins(w) \/ BindingEnds(w)
  PROVE  Mapped(w)
<1>1. /\ IInv /\ IInv' /\ Typed /\ StageInv /\ CallInv /\ MoveInv /\ HeldFacts /\ HeldFacts'
  BY HeldIs, PTL DEF RInv, IInv
<1>2. /\ Arc \in Paths /\ Bak \in Paths /\ Arc # Bak /\ disk \in [Paths -> Content \cup {Absent}]
      /\ Frame(w)
  BY <1>1, PathSets, NextByTyped DEF Typed, Disks
<1>3. CASE BindingBegins(w)
  <2>1. /\ Exists(Arc)
        /\ disk' = [disk EXCEPT ![Arc] = [disk[Arc] EXCEPT !.whole = FALSE, !.by = w]]
    BY <1>2, <1>3 DEF BindingBegins
  <2>2. disk[Arc] \in Content
    BY <1>2, <2>1 DEF Exists
  <2>3. disk'[Arc] = [disk[Arc] EXCEPT !.whole = FALSE, !.by = w]
    BY <1>2, <2>1
  <2>4. disk'[Arc] \in Content /\ disk'[Arc].has = disk[Arc].has
    BY <2>2, <2>3 DEF Content
  <2>5. Held' = Held
    BY <1>1, <2>1, <2>4, Contents DEF HeldFacts, Exists
  <2>6. QED
    BY <2>5, HeldMapped
<1>4. CASE BindingEnds(w)
  <2>1. /\ At(w, "inplace") /\ End(w, "ok") /\ call' = call
        /\ disk' = [p \in Paths |-> IF p \in Opened(w) THEN Written(w, op[w].seen \cup {w}) ELSE disk[p]]
    BY <1>4 DEF BindingEnds
  <2>2. Ends(w)
    BY <1>1, <2>1, EndShape DEF At, Endings
  <2>3. op[w].seen # Absent /\ op[w].seen \in SUBSET Writer /\ Based[w] = op[w].seen
    BY <1>1, <2>1, BasedBy DEF At, StageInv, StageOK, UnreadStages, Typed, OpsOK, OpRecord
  <2>4. BaseSet(w, Absent)
    <3>1. ~ReadsArchive(w)
      BY <2>1 DEF ReadsArchive, Reads, At
    <3>2. ~(Based' = Based)
      BY <2>2, <2>3 DEF Based, Ends, Endings, Running
    <3>3. QED
      BY <1>1, <3>1, <3>2, BasedBy
  <2>5. /\ Written(w, op[w].seen \cup {w}) # Absent
        /\ Written(w, op[w].seen \cup {w}).has = op[w].seen \cup {w}
    BY <2>3, Contents DEF Written
  <2>6. ASSUME Held' = op[w].seen \cup {w}
        PROVE  Mapped(w)
    BY <2>3, <2>4, <2>6 DEF Mapped, BaseSet, Store!Commit, Store!Active, Store!EndedOrNot, Store!Ended
  <2>7. CASE Arc \in Opened(w)
    <3>1. disk'[Arc] = Written(w, op[w].seen \cup {w})
      BY <1>2, <2>1, <2>7
    <3>2. Held' = op[w].seen \cup {w}
      BY <1>1, <2>5, <3>1 DEF HeldFacts, Exists
    <3>3. QED
      BY <2>6, <3>2
  <2>8. CASE Arc \notin Opened(w)
    <3>1. disk'[Arc] = disk[Arc]
      BY <1>2, <2>1, <2>8
    <3>2. CASE Bak \notin Opened(w)
      <4>1. disk'[Bak] = disk[Bak]
        BY <1>2, <2>1, <3>2
      <4>2. QED
        BY <3>1, <4>1, SettledMapped
    <3>3. CASE Bak \in Opened(w)
      <4>1. disk'[Bak] = Written(w, op[w].seen \cup {w}) /\ Exists(Bak) /\ Exists(Bak)'
        BY <1>2, <2>1, <2>5, <3>3 DEF Opened, Exists
      <4>2. call[w].at = "idle" /\ ~Awaited(w) /\ ~Awaited(w)'
        BY <1>1, <2>1 DEF CallInv, CallOK, Awaited, At
      <4>3. op'[w].at = op[w].at /\ op[w].at \notin {"install", "restore"}
        BY <2>1, <2>2 DEF Ends, At
      <4>4. CASE Exists(Arc) \/ \E u \in Writer : Awaited(u)
        <5>1. Held' = Held
          BY <1>1, <1>2, <3>1, <4>2, <4>4, HeldSame
        <5>2. QED
          BY <5>1, HeldMapped
      <4>5. CASE ~Exists(Arc) /\ \A u \in Writer : ~Awaited(u)
        <5>1. \A u \in Writer : ~Awaited(u)'
          BY <1>1, <2>1, <4>5, StillNoneAwaited DEF At, RarStages
        <5>2. SetAside' <=> SetAside
          BY <1>1, <1>2, <4>3 DEF SetAside, Frame, Typed, OpsOK
        <5>3. CASE SetAside
          <6>1. Held' = op[w].seen \cup {w}
            BY <1>1, <2>5, <3>1, <4>1, <4>5, <5>1, <5>2, <5>3 DEF HeldFacts, Exists
          <6>2. QED
            BY <2>6, <6>1
        <5>4. CASE ~SetAside
          <6>1. Held' = Held
            BY <1>1, <3>1, <4>5, <5>1, <5>2, <5>4 DEF HeldFacts, Exists
          <6>2. QED
            BY <6>1, HeldMapped
        <5>5. QED
          BY <5>3, <5>4
      <4>6. QED
        BY <4>4, <4>5
    <3>4. QED
      BY <3>2, <3>3
  <2>9. QED
    BY <2>7, <2>8
<1>5. QED
  BY <1>3, <1>4

\* The renames of atomicWriteFile and of the conversion onto the archive itself.
LEMMA MoveMapped ==
  ASSUME RInv, RInv', NEW w \in Writer, NextBy(w), ArcMove(w) \/ ArcUnlink(w)
  PROVE  Mapped(w)
<1>1. /\ IInv /\ IInv' /\ Typed /\ StageInv /\ CallInv /\ MoveInv /\ HeldFacts'
  BY HeldIs, PTL DEF RInv, IInv
<1>2. Arc \in Paths /\ File(w) \in Paths /\ File(w) # Arc /\ disk \in [Paths -> Content \cup {Absent}]
  BY <1>1, PathSets, Disjoint DEF Typed, Disks
<1>3. op' = op /\ op[w].dst = "arc"
  BY DEF ArcMove, ArcUnlink, FileStep
<1>4. CASE ArcMove(w)
  <2>1. call[w].at \in Moving /\ disk' = Renamed(disk, File(w), Arc)
    BY <1>4 DEF ArcMove, Moving
  <2>2. op[w].at \in {"write", "publish"} /\ disk[File(w)] = Written(w, Brings(w))
    BY <1>1, <1>3, <2>1 DEF CallInv, CallOK, MoveInv, MoveOK, Brings
  <2>3. op[w].seen # Absent /\ op[w].seen \in SUBSET Writer /\ Based[w] = op[w].seen /\ Based' = Based
    BY <1>1, <1>3, <2>2, BasedBy DEF StageInv, StageOK, UnreadStages, Typed, OpsOK, OpRecord, Based, Running
  <2>4. Brings(w) \in SUBSET Writer
    BY <2>3 DEF Brings
  <2>5. disk'[Arc] = Written(w, Brings(w))
    BY <1>2, <2>1, <2>2 DEF Renamed
  <2>6. disk'[Arc] # Absent /\ disk'[Arc].has = Brings(w)
    BY <2>4, <2>5, Contents DEF Written
  <2>7. Held' = Brings(w)
    BY <1>1, <2>6 DEF HeldFacts, Exists
  <2>8. QED
    BY <2>2, <2>3, <2>7 DEF Mapped, Brings, Store!Commit, Store!Rewrite, Store!Active, Store!EndedOrNot
<1>5. CASE ArcUnlink(w)
  <2>1. disk'[Arc] = Absent /\ Awaited(w)'
    BY <1>2, <1>3, <1>5 DEF ArcUnlink, Removed, Awaited
  <2>2. QED
    BY <1>3, <2>1, ArriveMapped DEF Exists
<1>6. QED
  BY <1>4, <1>5

\* Every step of an operation maps to a step of the store or to none.
LEMMA NextMapped ==
  ASSUME RInv, RInv', NEW w \in Writer, NextBy(w)
  PROVE  Mapped(w)
<1>1. Typed /\ StageInv /\ MoveInv
  BY DEF RInv, IInv
<1>2. QED
  BY <1>1, UserFiles, SettledMapped, SwapMapped, EraseMapped, NativeMapped, BindingMapped, MoveMapped

\* A crash takes the files whose replacement was about to be tried again.
LEMMA CrashMapped ==
  ASSUME RInv, RInv', Crash
  PROVE  Store!Stop
<1>1. /\ IInv /\ IInv' /\ Typed /\ Typed' /\ CallInv /\ HeldFacts /\ HeldFacts'
      /\ AwaitedFacts /\ AwaitedFacts'
  BY HeldIs, AwaitedIs, PTL DEF RInv, IInv
<1>2. /\ disk' = disk /\ faults' = faults /\ crashes' = crashes + 1
      /\ \A w \in Writer : op'[w].at = op[w].at /\ ~Running(w)' /\ ~Awaited(w)'
  BY <1>1, CrashEffect DEF Crash, Running, Awaited
<1>3. Based' = [w \in Writer |-> Absent]
  BY <1>2 DEF Based
<1>4. SetAside' <=> SetAside
  BY <1>2 DEF SetAside
<1>5. CASE Exists(Arc) \/ \A u \in Writer : ~Awaited(u)
  <2>1. Held' = Held
    BY <1>1, <1>2, <1>4, <1>5 DEF HeldFacts, Exists
  <2>2. QED
    BY <1>3, <2>1 DEF Store!Stop
<1>6. CASE \E u \in Writer : Awaited(u)
  <2>1. faults >= 1 /\ faults \in Nat /\ crashes \in Nat
    BY <1>1, <1>6, FileAssumption, EditAssumption DEF Awaited, CallInv, CallOK, Typed, RestOK
  <2>2. crashes' >= 1 /\ crashes' \in Nat /\ faults' >= 1 /\ faults' \in Nat
    BY <1>2, <2>1
  <2>3. faults' + crashes' > 1 /\ faults' + crashes' > 0
    BY <2>2, Sums
  <2>4. Held' \in {Absent} \cup SUBSET Writer
    BY <1>1 DEF HeldFacts
  <2>5. QED
    BY <1>3, <2>3, <2>4 DEF Store!Stop, Store!TooMuch, Store!OneOf
<1>7. QED
  BY <1>5, <1>6

\* A step adds at most one to the mishaps.
LEMMA MishapsCounted ==
  ASSUME RInv, Next
  PROVE  (faults + crashes)' \in {faults + crashes, faults + crashes + 1}
<1>1. /\ faults \in Nat /\ crashes \in Nat
      /\ \/ faults' = faults /\ crashes' = crashes + 1
         \/ crashes' = crashes /\ faults' \in {faults, faults + 1}
  BY Counters DEF RInv, IInv
<1>2. ASSUME NEW a \in Nat, NEW b \in Nat
      PROVE  a + (b + 1) = a + b + 1 /\ (a + 1) + b = a + b + 1
  OBVIOUS
<1>3. CASE faults' = faults /\ crashes' = crashes + 1
  BY <1>1, <1>2, <1>3
<1>4. CASE crashes' = crashes /\ faults' = faults
  BY <1>4
<1>5. CASE crashes' = crashes /\ faults' = faults + 1
  BY <1>1, <1>2, <1>5
<1>6. QED
  BY <1>1, <1>3, <1>4, <1>5

\* The initial states map to the one of the store,
LEMMA StoreInitial == Init => Store!Init
<1>1. SUFFICES ASSUME Init PROVE Store!Init
  OBVIOUS
<1>2. HeldFacts
  BY <1>1, TracesInitial, HeldIs DEF RInv
<1>3. /\ disk = [p \in Paths |-> IF p = Arc THEN Original ELSE Absent]
      /\ op = [w \in Writer |-> NoOp] /\ faults = 0 /\ crashes = 0
  BY <1>1 DEF Init
<1>4. disk[Arc] = Original /\ disk[Arc] # Absent /\ disk[Arc].has = {}
  BY <1>3, PathSets, Contents DEF Original
<1>5. Held = {}
  BY <1>2, <1>4 DEF HeldFacts, Exists
<1>6. \A w \in Writer : ~Running(w)
  BY <1>3 DEF Running, NoOp
<1>7. Based = [w \in Writer |-> Absent]
  BY <1>6 DEF Based
<1>8. faults + crashes = 0
  BY <1>3
<1>9. QED
  BY <1>5, <1>7, <1>8 DEF Store!Init

\* and every step maps to one of its steps or to a stutter.
LEMMA StoreStep == RInv /\ RInv' /\ [Next]_vars => [Store!Next]_(Store!vars)
<1>1. ASSUME RInv, RInv', Next PROVE Store!Next
  <2>1. (faults + crashes)' \in {faults + crashes, faults + crashes + 1}
    BY <1>1, MishapsCounted
  <2>2. CASE Crash
    BY <1>1, <2>1, <2>2, CrashMapped DEF Store!Next
  <2>3. ASSUME NEW w \in Writer, NextBy(w)
        PROVE  Store!Next
    <3>1. Mapped(w)
      BY <1>1, <2>3, NextMapped
    <3>2. QED
      BY <2>1, <3>1 DEF Mapped, Store!Next
  <2>4. QED
    BY <1>1, <2>2, <2>3, NextIsBy
<1>2. ASSUME IInv, IInv', UNCHANGED vars PROVE UNCHANGED Store!vars
  <2>1. /\ disk' = disk /\ op' = op /\ call' = call /\ faults' = faults /\ crashes' = crashes
    BY <1>2 DEF vars, fileVars
  <2>2. Based' = Based
    BY <2>1 DEF Based, Running
  <2>3. Held' = Held
    BY <2>1 DEF Held, Incoming, SetAside, Exists, Next1
  <2>4. QED
    BY <2>1, <2>2, <2>3 DEF Store!vars
<1>3. QED
  BY <1>1, <1>2 DEF RInv

\* ArchiveEdit implements ArchiveStore: whatever number of operations run on the
\* archive, in whatever order their steps fall, the archive changes only as a whole,
\* to what an operation has read plus its own edit, goes back only when a rebuild that
\* failed restores what it had set aside, and goes only with its last member or after
\* more mishaps than the file calls of the platform tolerate.
THEOREM ImplementsStore == Spec => ImplementsArchiveStore
<1>1. Init => RInv /\ Store!Init
  BY TracesInitial, StoreInitial
<1>2. RInv /\ [Next]_vars => RInv'
  BY TracesKept
<1>3. RInv /\ RInv' /\ [Next]_vars => [Store!Next]_(Store!vars)
  BY StoreStep
<1>4. QED
  BY <1>1, <1>2, <1>3, PTL DEF Spec, ImplementsArchiveStore, Store!Spec

-----------------------------------------------------------------------------
(* What is left on the disk: the inductive invariant                       *)

\* What the names of the files under one stem are told apart by.
Single == <<"file", 0>>
Tags == {Single} \cup ({"num", "part"} \X (1 .. MaxVolumes))
Named(s, t) == <<s, t[1], t[2]>>

Gone(w) == \A p \in TempFiles(w) : ~Exists(p)
Output(w) == Written(w, op[w].seen)

\* The ways in which what an operation wrote may be laid out in files, and a stem
\* that has exactly the files of one.
Row(k, n) == {<<k, i>> : i \in 1 .. n}
Layouts(w) ==
  (IF op[w].wrote = 1 THEN {{Single}} ELSE {}) \cup
  (IF op[w].act = "split" /\ op[w].wrote \in 1 .. MaxVolumes
   THEN {Row(k, op[w].wrote) : k \in {"num", "part"}} ELSE {})
Has(s, T, c) == \A t \in Tags : IF t \in T THEN disk[Named(s, t)] = c ELSE ~Exists(Named(s, t))

\* A split that shares its folder with no other.
Alone(w) ==
  op[w].act = "split" /\ \A v \in Writer \ {w} : op[v].act = "split" => op[v].dst # op[w].dst

\* The rebuilt archive is in the work directory from its compression to its swap.
WorkOK(w) ==
  Exists(Work(w)) =>
    op[w].res = "crashed" \/ (Running(w) /\ op[w].at \in {"swap", "backup", "install", "restore"})

\* Temporary files are there from when an operation writes them ...
FreshOK(w) == op[w].at \notin {"write", "publish", "discard"} => Gone(w)

\* ... until atomicWriteFile has renamed its one, or removed it,
WrittenOK(w) ==
  op[w].at = "write" =>
    /\ call[w].at = "cleanup" => faults >= 1
    /\ \A p \in TempFiles(w) : Exists(p) =>
         /\ p = File(w)
         /\ \/ op[w].res = "crashed"
            \/ Running(w) /\ call[w].at \in Moving \cup {"cleanup"}
            \/ faults >= 2

\* until withAtomicOutput has removed all of them,
DiscardedOK(w) ==
  /\ op[w].at \in {"publish", "discard"} /\ call[w].at # "idle" => call[w].all
  /\ op[w].at = "discard" /\ (op[w].res \in Endings \/ call[w].at = "failed") => Gone(w) \/ faults >= 1

\* or until each file of the output, written in one layout,
PackedOK(w) ==
  At(w, "publish") /\ call[w].at = "idle" => \E T \in Layouts(w) : Has(w, T, Output(w))

\* has had its turn in the list of renames; meanwhile every other one is where it
\* is to be,
Due(w, t) == \E i \in 1 .. Len(call[w].todo) : call[w].todo[i].src = Named(w, t)
MovesOf(w, T) ==
  /\ \A i \in 1 .. Len(call[w].todo) : \E t \in T :
       call[w].todo[i] = [src |-> Named(w, t), dst |-> Named(op[w].dst, t)]
  /\ \A i, j \in 1 .. Len(call[w].todo) : call[w].todo[i].src = call[w].todo[j].src => i = j
StillThere(w) ==
  \A t \in Tags : IF Due(w, t) THEN disk[Named(w, t)] = Output(w) ELSE ~Exists(Named(w, t))
Arrived(w, T) ==
  \A t \in Tags :
    IF t \in T THEN Due(w, t) \/ disk[Named(op[w].dst, t)] = Output(w)
               ELSE ~Exists(Named(op[w].dst, t))
PublishingOK(w) ==
  At(w, "publish") /\ call[w].at \in Moving =>
    \E T \in Layouts(w) : MovesOf(w, T) /\ StillThere(w) /\ (Alone(w) => Arrived(w, T))

\* and in the end all are.
PublishedOK(w) ==
  op[w].at = "publish" =>
    /\ (Running(w) /\ call[w].at = "done") \/ op[w].res = "ok" => Gone(w)
    /\ (Running(w) /\ call[w].at \in {"cleanup", "failed"}) \/ op[w].res \in {"failed", "cancelled"}
         => faults >= 1
CompleteOK(w) ==
  op[w].act = "split" /\ ((At(w, "publish") /\ call[w].at = "done") \/ op[w].res = "ok") =>
    /\ op[w].at = "publish"
    /\ Alone(w) => \E T \in Layouts(w) : Has(op[w].dst, T, Output(w))

TempsLeft(w) ==
  /\ FreshOK(w) /\ WrittenOK(w) /\ DiscardedOK(w)
  /\ PackedOK(w) /\ PublishingOK(w) /\ PublishedOK(w) /\ CompleteOK(w)

WorkInv == \A w \in Writer : WorkOK(w)
LeftInv == \A w \in Writer : TempsLeft(w)

\* Only a split that has come to its renames has files in a folder.
UsedInv ==
  \A d \in {"dir", "dir1"} : \A t \in Tags : Exists(Named(d, t)) =>
    \E w \in Writer : /\ op[w].act = "split" /\ op[w].dst = d /\ op[w].at = "publish"
                      /\ call[w].at # "idle" \/ op[w].res # "none"

FInv == IInv /\ WorkInv /\ LeftInv /\ UsedInv

-----------------------------------------------------------------------------
(* Names                                                                   *)

\* The files of a stem are its tags, one for each.
LEMMA NamedFiles ==
  /\ \A s : TempFiles(s) = {Named(s, t) : t \in Tags}
  /\ \A s, r : \A t, u \in Tags : Named(s, t) = Named(r, u) => s = r /\ t = u
  /\ \A s : Named(s, Single) = File(s)
  /\ \A s : \A k \in {"num", "part"}, n \in 1 .. MaxVolumes :
       <<k, n>> \in Tags /\ Named(s, <<k, n>>) = Volume(s, k, n)
<1>1. \A s : Named(s, Single) = File(s)
  BY DEF Named, Single, File
<1>2. \A s : \A k \in {"num", "part"}, n \in 1 .. MaxVolumes :
       <<k, n>> \in Tags /\ Named(s, <<k, n>>) = Volume(s, k, n)
  BY DEF Named, Tags, Volume
<1>3. ASSUME NEW s
      PROVE  TempFiles(s) = {Named(s, t) : t \in Tags}
  <2>1. ASSUME NEW p \in TempFiles(s)
        PROVE  \E t \in Tags : p = Named(s, t)
    <3>1. CASE p = File(s)
      BY <1>1, <3>1 DEF Tags
    <3>2. CASE p \in VolumesOf(s)
      <4>1. PICK k \in {"num", "part"}, n \in 1 .. MaxVolumes : p = Volume(s, k, n)
        BY <3>2 DEF VolumesOf
      <4>2. <<k, n>> \in Tags /\ Named(s, <<k, n>>) = Volume(s, k, n)
        BY <1>2
      <4>3. QED
        BY <4>1, <4>2
    <3>3. QED
      BY <3>1, <3>2 DEF TempFiles
  <2>2. ASSUME NEW t \in Tags
        PROVE  Named(s, t) \in TempFiles(s)
    <3>1. CASE t = Single
      BY <1>1, <3>1 DEF TempFiles
    <3>2. CASE t \in {"num", "part"} \X (1 .. MaxVolumes)
      BY <3>2 DEF TempFiles, VolumesOf, Volume, Named
    <3>3. QED
      BY <3>1, <3>2 DEF Tags
  <2>3. QED
    BY <2>1, <2>2
<1>4. ASSUME NEW s, NEW r, NEW t \in Tags, NEW u \in Tags, Named(s, t) = Named(r, u)
      PROVE  s = r /\ t = u
  <2>1. \A x \in Tags : x = <<x[1], x[2]>>
    BY DEF Tags, Single
  <2>2. s = r /\ t[1] = u[1] /\ t[2] = u[2]
    BY <1>4 DEF Named
  <2>3. QED
    BY <2>1, <2>2
<1>5. QED
  BY <1>1, <1>2, <1>3, <1>4

\* A layout is a set of tags.
LEMMA LayoutTags ==
  ASSUME NEW w \in Writer, NEW T \in Layouts(w)
  PROVE  T \subseteq Tags
<1>1. MaxVolumes \in Nat
  BY FileAssumption
<1>2. CASE T = {Single}
  BY <1>2 DEF Tags
<1>3. ASSUME NEW k \in {"num", "part"}, T = Row(k, op[w].wrote), op[w].wrote \in 1 .. MaxVolumes
      PROVE  T \subseteq Tags
  BY <1>1, <1>3 DEF Tags, Row
<1>4. QED
  BY <1>2, <1>3 DEF Layouts

\* A list of the members of a set, each once.
Lists(s, T) ==
  /\ Len(s) \in Nat
  /\ \A i \in 1 .. Len(s) : s[i] \in T
  /\ \A i, j \in 1 .. Len(s) : s[i] = s[j] => i = j
  /\ \A t \in T : \E i \in 1 .. Len(s) : s[i] = t

\* What the directory listing finds of n volumes: each once.
LEMMA FoundVolumes ==
  ASSUME NEW w \in Writer, NEW k \in {"num", "part"}, NEW n \in 1 .. MaxVolumes, NEW T,
         T = Row(k, n), NEW c, c # Absent, Has(w, T, c), NEW list \in Listings(w),
         NEW found, found = Numbered(w) \o list
  PROVE  found # <<>> /\ Lists(found, T)
<1> USE DEF Row
<1> DEFINE run == {m \in 1 .. MaxVolumes : \A i \in 1 .. m : Exists(Volume(w, "num", i))}
           there == {m \in 1 .. MaxVolumes : Exists(Volume(w, "part", m))}
           parts == {<<"part", m>> : m \in there}
<1>1. MaxVolumes \in Nat /\ n \in Nat /\ 1 <= n /\ n <= MaxVolumes
  BY FileAssumption
<1>2. \A j \in {"num", "part"}, m \in 1 .. MaxVolumes : Exists(Volume(w, j, m)) <=> j = k /\ m <= n
  <2>1. ASSUME NEW j \in {"num", "part"}, NEW m \in 1 .. MaxVolumes
        PROVE  Exists(Volume(w, j, m)) <=> j = k /\ m <= n
    <3>1. <<j, m>> \in Tags /\ Named(w, <<j, m>>) = Volume(w, j, m)
      BY NamedFiles
    <3>2. <<j, m>> \in T <=> j = k /\ m <= n
      BY <1>1
    <3>3. QED
      BY <3>1, <3>2 DEF Has, Exists
  <2>2. QED
    BY <2>1
<1>3. Numbered(w) = [i \in 1 .. Cardinality(run) |-> <<"num", i>>]
  BY DEF Numbered
<1>4. /\ list \in [1 .. Cardinality(parts) -> parts]
      /\ \A p \in parts : \E i \in DOMAIN list : list[i] = p
  BY DEF Listings
<1>5. Cardinality(1 .. n) = n /\ IsFiniteSet(1 .. n)
  BY <1>1, FS_Interval
<1>6. CASE k = "num"
  <2>1. run = 1 .. n
    BY <1>1, <1>2, <1>6
  <2>2. Numbered(w) = [i \in 1 .. n |-> <<"num", i>>]
    BY <1>3, <1>5, <2>1
  <2>3. parts = {}
    BY <1>2, <1>6
  <2>4. Cardinality(parts) = 0
    BY <2>3, FS_EmptySet
  <2>5. list = <<>>
    BY <1>4, <2>4, <2>3
  <2>6. Numbered(w) \in Seq(T)
    BY <1>1, <1>6, <2>2, IsASeq
  <2>7. found = Numbered(w)
    BY <2>5, <2>6, ConcatEmptySeq
  <2>8. Len(found) = n
    BY <1>1, <2>2, <2>6, <2>7, LenProperties
  <2>9. \A i \in 1 .. n : found[i] = <<k, i>>
    BY <1>6, <2>2, <2>7
  <2>10. found # <<>>
    BY <1>1, <2>8, EmptySeq
  <2>11. \A i \in 1 .. n : found[i] \in T
    BY <2>9
  <2>12. ASSUME NEW i \in 1 .. n, NEW j \in 1 .. n, found[i] = found[j]
         PROVE  i = j
    <3>1. <<k, i>> = <<k, j>>
      BY <2>9, <2>12
    <3>2. QED
      BY <3>1
  <2>13. \A t \in T : \E i \in 1 .. n : found[i] = t
    BY <2>9
  <2>14. QED
    BY <1>1, <2>8, <2>10, <2>11, <2>12, <2>13 DEF Lists
<1>7. CASE k = "part"
  <2>1. run = {}
    BY <1>1, <1>2, <1>7
  <2>2. Cardinality(run) = 0
    BY <2>1, FS_EmptySet
  <2>3. Numbered(w) = <<>>
    <3>1. \A f \in [1 .. 0 -> {}] : f = <<>>
      OBVIOUS
    <3>2. Numbered(w) = [i \in 1 .. 0 |-> <<"num", i>>]
      BY <1>3, <2>2
    <3>3. [i \in 1 .. 0 |-> <<"num", i>>] \in [1 .. 0 -> {}]
      OBVIOUS
    <3>4. QED
      BY <3>1, <3>2, <3>3
  <2>4. there = 1 .. n
    BY <1>1, <1>2, <1>7
  <2>5. parts = T
    BY <1>7, <2>4
  <2>6. [i \in 1 .. n |-> <<k, i>>] \in Bijection(1 .. n, T)
    <3>1. [i \in 1 .. n |-> <<k, i>>] \in [1 .. n -> T]
      OBVIOUS
    <3>2. \A i, j \in 1 .. n : <<k, i>> = <<k, j>> => i = j
      OBVIOUS
    <3>3. [i \in 1 .. n |-> <<k, i>>] \in Injection(1 .. n, T)
      BY <3>1, <3>2 DEF Injection, IsInjective
    <3>4. [i \in 1 .. n |-> <<k, i>>] \in Surjection(1 .. n, T)
      BY <3>1 DEF Surjection
    <3>5. QED
      BY <3>3, <3>4 DEF Bijection
  <2>7. IsFiniteSet(T) /\ Cardinality(T) = n
    BY <1>5, <2>6, FS_Bijection DEF ExistsBijection
  <2>8. list \in Surjection(1 .. n, T)
    BY <1>4, <2>5, <2>7 DEF Surjection
  <2>9. list \in Injection(1 .. n, T)
    BY <1>5, <2>7, <2>8, FS_SurjSameCardinalityImpliesInj
  <2>10. list \in [1 .. n -> T]
    BY <2>8 DEF Surjection
  <2>11. list \in Seq(T)
    BY <1>1, <2>10, SeqDef
  <2>12. found = list
    BY <2>3, <2>11, ConcatEmptySeq
  <2>13. Len(found) = n
    BY <1>1, <2>10, <2>11, <2>12, LenProperties
  <2>14. /\ \A i \in 1 .. n : found[i] \in T
         /\ \A i, j \in 1 .. n : found[i] = found[j] => i = j
         /\ \A t \in T : \E i \in 1 .. n : found[i] = t
    <3>1. \A i \in 1 .. n : list[i] \in T
      BY <2>10
    <3>2. \A i, j \in 1 .. n : list[i] = list[j] => i = j
      BY <2>9, <2>10 DEF Injection, IsInjective
    <3>3. \A t \in T : \E i \in 1 .. n : list[i] = t
      BY <2>8 DEF Surjection
    <3>4. QED
      BY <2>12, <3>1, <3>2, <3>3
  <2>15. found # <<>>
    BY <1>1, <2>13, EmptySeq
  <2>16. QED
    BY <1>1, <2>13, <2>14, <2>15 DEF Lists
<1>8. QED
  BY <1>6, <1>7

\* Nothing is found where the engine did not split.
LEMMA FoundNothing ==
  ASSUME NEW w \in Writer, NEW c, Has(w, {Single}, c), NEW list \in Listings(w)
  PROVE  Numbered(w) \o list = <<>>
<1> DEFINE run == {m \in 1 .. MaxVolumes : \A i \in 1 .. m : Exists(Volume(w, "num", i))}
           parts == {<<"part", m>> : m \in {j \in 1 .. MaxVolumes : Exists(Volume(w, "part", j))}}
<1>1. \A k \in {"num", "part"}, m \in 1 .. MaxVolumes : ~Exists(Volume(w, k, m))
  <2>1. ASSUME NEW k \in {"num", "part"}, NEW m \in 1 .. MaxVolumes
        PROVE  ~Exists(Volume(w, k, m))
    <3>1. <<k, m>> \in Tags /\ Named(w, <<k, m>>) = Volume(w, k, m) /\ <<k, m>> # Single
      BY NamedFiles DEF Single
    <3>2. QED
      BY <3>1 DEF Has
  <2>2. QED
    BY <2>1
<1>2. run = {} /\ parts = {}
  <2>1. MaxVolumes \in Nat
    BY FileAssumption
  <2>2. QED
    BY <1>1, <2>1
<1>3. Cardinality(run) = 0 /\ Cardinality(parts) = 0
  BY <1>2, FS_EmptySet
<1>4. Numbered(w) = <<>>
  <2>1. Numbered(w) \in [1 .. 0 -> {}]
    BY <1>3 DEF Numbered
  <2>2. \A f \in [1 .. 0 -> {}] : f = <<>>
    OBVIOUS
  <2>3. QED
    BY <2>1, <2>2
<1>5. list \in [1 .. Cardinality(parts) -> parts]
  BY DEF Listings
<1>6. list = <<>>
  BY <1>2, <1>3, <1>5
<1>7. QED
  BY <1>4, <1>6

-----------------------------------------------------------------------------
(* Packing and publishing                                                  *)

\* What is packed is a content.
LEMMA OutputIs ==
  ASSUME Typed, StageInv, NEW w \in Writer, op[w].at \in {"pack", "publish"}
  PROVE  Output(w) \in Content /\ Output(w) # Absent
<1>1. op[w].seen # Absent
  BY DEF StageInv, StageOK, UnreadStages
<1>2. op[w].seen \in SUBSET Writer
  BY <1>1 DEF Typed, OpsOK, OpRecord
<1>3. QED
  BY <1>2, Contents DEF Output

\* The names of a stem are paths.
LEMMA NamedPaths ==
  /\ \A w \in Writer : \A t \in Tags : Named(w, t) \in TempFiles(w) /\ Named(w, t) \in Paths
  /\ \A s \in SetStem : \A t \in Tags : Named(s, t) \in Paths
  /\ \A w \in Writer : \A s \in Stem : \A t, u \in Tags : Named(w, t) # Named(s, u)
<1>1. \A w \in Writer : \A t \in Tags : Named(w, t) \in TempFiles(w) /\ Named(w, t) \in Paths
  BY NamedFiles, PathSets
<1>2. ASSUME NEW s \in SetStem, NEW t \in Tags
      PROVE  Named(s, t) \in Paths
  <2>1. Named(s, t) \in TempFiles(s)
    BY NamedFiles
  <2>2. s \in Stem
    BY FileAssumption
  <2>3. QED
    BY <2>1, <2>2, PathSets DEF TempFiles
<1>3. \A w \in Writer : \A s \in Stem : \A t, u \in Tags : Named(w, t) # Named(s, u)
  BY NamedFiles, FileAssumption
<1>4. QED
  BY <1>1, <1>2, <1>3

\* A successful compression leaves its output in one layout, where there was nothing.
LEMMA PackLayout ==
  ASSUME Typed, StageInv, NEW w \in Writer, Pack(w), Gone(w), op'[w].at = "publish"
  PROVE  PackedOK(w)'
<1>1. op[w] \in OpRecord /\ disk \in [Paths -> Content \cup {Absent}] /\ At(w, "pack")
  BY DEF Typed, OpsOK, Disks, Pack
<1>2. PICK out \in Outputs(w) :
        /\ disk' = [p \in Paths |-> IF p \in out THEN Output(w) ELSE disk[p]]
        /\ op' = [op EXCEPT ![w].at = "publish", ![w].wrote = Cardinality(out)]
  <2>1. ~GoTo(w, "discard")
    BY <1>1 DEF GoTo, Typed, OpsOK, OpRecord
  <2>2. QED
    BY <2>1 DEF Pack, Output
<1>3. op'[w] = [op[w] EXCEPT !.at = "publish", !.wrote = Cardinality(out)]
  BY <1>2 DEF Typed, OpsOK
<1>4. op'[w].wrote = Cardinality(out) /\ op'[w].act = op[w].act /\ op'[w].seen = op[w].seen
  BY <1>1, <1>3 DEF OpRecord
<1>5. Output(w)' = Output(w)
  BY <1>4 DEF Output
<1>6. ASSUME NEW T \in SUBSET Tags, out = {Named(w, t) : t \in T}
      PROVE  Has(w, T, Output(w))'
  <2>1. ASSUME NEW t \in Tags
        PROVE  IF t \in T THEN disk'[Named(w, t)] = Output(w) ELSE disk'[Named(w, t)] = Absent
    <3>1. Named(w, t) \in Paths /\ Named(w, t) \in TempFiles(w)
      BY NamedPaths
    <3>2. Named(w, t) \in out <=> t \in T
      BY <1>6, NamedFiles
    <3>3. QED
      BY <1>2, <3>1, <3>2 DEF Gone, Exists
  <2>2. QED
    BY <1>5, <2>1 DEF Has, Exists
<1>7. CASE out = {File(w)}
  <2>1. Cardinality(out) = 1
    BY <1>7, FS_Singleton
  <2>2. {Single} \in SUBSET Tags /\ out = {Named(w, t) : t \in {Single}}
    BY <1>7, NamedFiles DEF Tags
  <2>3. {Single} \in Layouts(w)'
    BY <1>4, <2>1 DEF Layouts
  <2>4. QED
    BY <1>6, <2>2, <2>3 DEF PackedOK
<1>8. ASSUME NEW k \in {"num", "part"}, NEW n \in 1 .. MaxVolumes, out = {Volume(w, k, i) : i \in 1 .. n},
             op[w].act = "split"
      PROVE  PackedOK(w)'
  <2> DEFINE T == Row(k, n)
  <2>1. MaxVolumes \in Nat /\ n \in Nat /\ n <= MaxVolumes /\ 1 <= n
    BY FileAssumption
  <2>2. [i \in 1 .. n |-> Volume(w, k, i)] \in Bijection(1 .. n, out)
    <3>1. [i \in 1 .. n |-> Volume(w, k, i)] \in [1 .. n -> out]
      BY <1>8
    <3>2. \A i, j \in 1 .. n : Volume(w, k, i) = Volume(w, k, j) => i = j
      BY DEF Volume
    <3>3. [i \in 1 .. n |-> Volume(w, k, i)] \in Injection(1 .. n, out)
      BY <3>1, <3>2 DEF Injection, IsInjective
    <3>4. [i \in 1 .. n |-> Volume(w, k, i)] \in Surjection(1 .. n, out)
      BY <1>8, <3>1 DEF Surjection
    <3>5. QED
      BY <3>3, <3>4 DEF Bijection
  <2>3. Cardinality(out) = n
    BY <2>1, <2>2, FS_Interval, FS_Bijection DEF ExistsBijection
  <2>4. T \in SUBSET Tags
    BY <2>1 DEF Tags, Row
  <2>5. out = {Named(w, t) : t \in T}
    <3>1. \A i \in 1 .. n : Volume(w, k, i) = Named(w, <<k, i>>)
      BY DEF Volume, Named
    <3>2. QED
      BY <1>8, <3>1 DEF Row
  <2>6. T \in Layouts(w)'
    BY <1>4, <1>8, <2>1, <2>3 DEF Layouts
  <2> HIDE DEF T
  <2>7. QED
    BY <1>6, <2>4, <2>5, <2>6 DEF PackedOK
<1>9. QED
  BY <1>2, <1>7, <1>8 DEF Outputs

\* The renames of the files of a layout.
MoveList(w, dst, T, todo) ==
  /\ \A i \in 1 .. Len(todo) : \E t \in T :
       todo[i] = [src |-> Named(w, t), dst |-> Named(dst, t)]
  /\ \A i, j \in 1 .. Len(todo) : todo[i].src = todo[j].src => i = j
  /\ \A t \in T : \E i \in 1 .. Len(todo) : todo[i].src = Named(w, t)

\* MoveAll makes them of a list of the layout's tags.
LEMMA MoveAllIs ==
  ASSUME NEW w, NEW dst, NEW T, T \subseteq Tags, NEW found, Lists(found, T),
         NEW todo, todo = MoveAll(w, dst, found)
  PROVE  MoveList(w, dst, T, todo)
<1> USE DEF Lists
<1>1. todo = [i \in 1 .. Len(found) |-> [src |-> Named(w, found[i]), dst |-> Named(dst, found[i])]]
  BY DEF MoveAll, Named, Volume
<1>2. Len(todo) = Len(found)
  BY <1>1
<1>3. \A i \in 1 .. Len(found) :
        /\ todo[i] = [src |-> Named(w, found[i]), dst |-> Named(dst, found[i])]
        /\ todo[i].src = Named(w, found[i])
  BY <1>1
<1>4. \A i, j \in 1 .. Len(found) : todo[i].src = todo[j].src => i = j
  <2>1. \A i \in 1 .. Len(found) : found[i] \in Tags
    OBVIOUS
  <2>2. ASSUME NEW i \in 1 .. Len(found), NEW j \in 1 .. Len(found), todo[i].src = todo[j].src
        PROVE  i = j
    <3>1. Named(w, found[i]) = Named(w, found[j])
      BY <1>3, <2>2
    <3>2. found[i] = found[j]
      BY <2>1, <3>1, NamedFiles
    <3>3. QED
      BY <3>2
  <2>3. QED
    BY <2>2
<1>5. \A i \in 1 .. Len(found) : \E t \in T :
        todo[i] = [src |-> Named(w, t), dst |-> Named(dst, t)]
  <2>1. ASSUME NEW i \in 1 .. Len(found)
        PROVE  \E t \in T : todo[i] = [src |-> Named(w, t), dst |-> Named(dst, t)]
    <3>1. found[i] \in T
      OBVIOUS
    <3>2. QED
      BY <1>3, <3>1
  <2>2. QED
    BY <2>1
<1>6. \A t \in T : \E i \in 1 .. Len(found) : todo[i].src = Named(w, t)
  <2>1. ASSUME NEW t \in T
        PROVE  \E i \in 1 .. Len(found) : todo[i].src = Named(w, t)
    <3>1. PICK i \in 1 .. Len(found) : found[i] = t
      OBVIOUS
    <3>2. QED
      BY <1>3, <3>1
  <2>2. QED
    BY <2>1
<1>7. QED
  BY <1>2, <1>4, <1>5, <1>6 DEF MoveList

\* The renames of a publication are those of its layout, one for each file of it.
LEMMA PublishMoves ==
  ASSUME Typed, StageInv, NEW w \in Writer, PublishOutput(w), NEW T \in Layouts(w),
         Has(w, T, Output(w))
  PROVE  /\ call'[w].at = "rename" /\ call'[w].all /\ op' = op /\ disk' = disk /\ faults' = faults
         /\ MovesOf(w, T)'
         /\ \A t \in Tags : Due(w, t)' <=> t \in T
<1> DEFINE dst == op[w].dst
           volumes == op[w].act = "split"
<1>1. op' = op /\ disk' = disk /\ faults' = faults /\ At(w, "publish")
  BY DEF PublishOutput, Publish
<1>2. PICK list \in Listings(w) : call' = [call EXCEPT ![w] =
        [at |-> "rename", todo |-> Moves(w, dst, volumes, list), all |-> TRUE]]
  BY DEF PublishOutput, Publish
<1>3. call'[w].at = "rename" /\ call'[w].all /\ call'[w].todo = Moves(w, dst, volumes, list)
  BY <1>2 DEF Typed, CallsOK
<1>4. Output(w) # Absent
  BY <1>1, OutputIs DEF At
<1>5. T \subseteq Tags
  BY LayoutTags
<1> DEFINE todo == call'[w].todo
<1>6. SUFFICES MoveList(w, dst, T, todo)
  <2>1. ASSUME NEW t \in Tags, NEW i \in 1 .. Len(todo), todo[i].src = Named(w, t),
               MoveList(w, dst, T, todo)
        PROVE  t \in T
    <3>1. PICK u \in T : todo[i] = [src |-> Named(w, u), dst |-> Named(dst, u)]
      BY <2>1 DEF MoveList
    <3>2. Named(w, t) = Named(w, u) /\ u \in Tags
      BY <1>5, <2>1, <3>1
    <3>3. QED
      BY <3>2, NamedFiles
  <2>2. QED
    BY <1>1, <1>3, <2>1 DEF MovesOf, Due, MoveList
<1>7. CASE T = {Single}
  <2>1. Numbered(w) \o list = <<>>
    BY <1>7, FoundNothing
  <2>2. todo = <<[src |-> File(w), dst |-> File(dst)]>>
    BY <1>3, <2>1 DEF Moves
  <2>3. Named(w, Single) = File(w) /\ Named(dst, Single) = File(dst)
    BY NamedFiles
  <2>4. Len(todo) = 1 /\ todo[1] = [src |-> Named(w, Single), dst |-> Named(dst, Single)]
    BY <2>2, <2>3
  <2> HIDE DEF todo
  <2>5. QED
    BY <1>7, <2>4 DEF MoveList
<1>8. ASSUME NEW k \in {"num", "part"}, T = Row(k, op[w].wrote), op[w].wrote \in 1 .. MaxVolumes,
             volumes
      PROVE  MoveList(w, dst, T, todo)
  <2>1. PICK found : found = Numbered(w) \o list
    OBVIOUS
  <2>2. found # <<>> /\ Lists(found, T)
    BY <1>4, <1>8, <2>1, FoundVolumes
  <2>3. todo = MoveAll(w, dst, found)
    BY <1>3, <1>8, <2>1, <2>2 DEF Moves
  <2>4. QED
    BY <1>5, <2>2, <2>3, MoveAllIs
<1>9. QED
  BY <1>7, <1>8 DEF Layouts

\* A rename takes its file from the writer's to the destination's names, and from the
\* list of those that are due.
LEMMA MovedOn ==
  ASSUME Typed, StageInv, MoveInv, NEW w \in Writer, At(w, "publish"), FileStep(w),
         MoveDone(w), call[w].at \in Moving, NEW T \in Layouts(w), MovesOf(w, T), StillThere(w)
  PROVE  /\ MovesOf(w, T)' /\ StillThere(w)'
         /\ op[w].act = "split" /\ Arrived(w, T) => Arrived(w, T)'
         /\ call'[w].at = IF Len(call[w].todo) = 1 THEN "done" ELSE "rename"
         /\ call'[w].at = "done" => \A t \in Tags : ~Due(w, t)'
<1> DEFINE todo == call[w].todo
           rest == call'[w].todo
<1>1. /\ todo \in Seq(Rename) /\ todo # <<>> /\ op' = op
      /\ disk \in [Paths -> Content \cup {Absent}]
  BY DEF Typed, CallsOK, CallRecord, FileStep, Disks
<1>2. /\ rest = Tail(todo) /\ call'[w].at = IF Len(todo) = 1 THEN "done" ELSE "rename"
  BY DEF MoveDone, Typed, CallsOK, CallRecord
<1>3. /\ Len(todo) \in Nat \ {0} /\ Len(rest) = Len(todo) - 1
      /\ \A i \in 1 .. Len(rest) : rest[i] = todo[i + 1]
  BY <1>1, <1>2, HeadTailProperties, EmptySeq
<1>4. PICK t0 \in T : todo[1] = [src |-> Named(w, t0), dst |-> Named(op[w].dst, t0)]
  BY <1>3 DEF MovesOf
<1>5. T \subseteq Tags
  BY LayoutTags
<1>6. /\ disk' = Renamed(disk, Named(w, t0), Named(op[w].dst, t0))
      /\ Named(w, t0) \in Paths /\ Named(op[w].dst, t0) \in Paths
  <2>1. Next1(w) = todo[1] /\ Next1(w).src \in Paths /\ Next1(w).dst \in Paths
    BY NextMove
  <2>2. QED
    BY <1>4, <2>1 DEF MoveDone
<1>7. \A t \in Tags : Due(w, t) <=> t = t0 \/ Due(w, t)'
  <2>1. ASSUME NEW t \in Tags, Due(w, t)
        PROVE  t = t0 \/ Due(w, t)'
    <3>1. PICK i \in 1 .. Len(todo) : todo[i].src = Named(w, t)
      BY <2>1 DEF Due
    <3>2. CASE i = 1
      BY <1>4, <1>5, <3>1, <3>2, NamedFiles
    <3>3. CASE i # 1
      <4>1. i - 1 \in 1 .. Len(rest) /\ rest[i - 1] = todo[i]
        BY <1>3, <3>3
      <4>2. QED
        BY <3>1, <4>1 DEF Due
    <3>4. QED
      BY <3>2, <3>3
  <2>2. ASSUME NEW t \in Tags, t = t0
        PROVE  Due(w, t)
    BY <1>3, <1>4, <2>2 DEF Due
  <2>3. ASSUME NEW t \in Tags, Due(w, t)'
        PROVE  Due(w, t)
    <3>1. PICK i \in 1 .. Len(rest) : rest[i].src = Named(w, t)
      BY <2>3 DEF Due
    <3>2. i + 1 \in 1 .. Len(todo) /\ todo[i + 1].src = Named(w, t)
      BY <1>3, <3>1
    <3>3. QED
      BY <3>2 DEF Due
  <2>4. QED
    BY <2>1, <2>2, <2>3
<1>8. ~Due(w, t0)'
  <2>1. ASSUME NEW i \in 1 .. Len(rest), rest[i].src = Named(w, t0)
        PROVE  FALSE
    <3>1. i + 1 \in 1 .. Len(todo) /\ 1 \in 1 .. Len(todo) /\ i + 1 # 1
      BY <1>3
    <3>2. todo[i + 1].src = todo[1].src
      BY <1>3, <1>4, <2>1
    <3>3. QED
      BY <3>1, <3>2 DEF MovesOf
  <2>2. QED
    BY <2>1 DEF Due
<1>9. MovesOf(w, T)'
  <2>1. ASSUME NEW i \in 1 .. Len(rest)
        PROVE  \E t \in T : rest[i] = [src |-> Named(w, t), dst |-> Named(op[w].dst, t)]
    <3>1. i + 1 \in 1 .. Len(todo) /\ rest[i] = todo[i + 1]
      BY <1>3
    <3>2. QED
      BY <3>1 DEF MovesOf
  <2>2. ASSUME NEW i \in 1 .. Len(rest), NEW j \in 1 .. Len(rest), rest[i].src = rest[j].src
        PROVE  i = j
    <3>1. /\ i + 1 \in 1 .. Len(todo) /\ rest[i] = todo[i + 1]
          /\ j + 1 \in 1 .. Len(todo) /\ rest[j] = todo[j + 1]
      BY <1>3
    <3>2. i + 1 = j + 1
      BY <2>2, <3>1 DEF MovesOf
    <3>3. QED
      BY <1>3, <3>2
  <2>3. QED
    BY <1>1, <2>1, <2>2 DEF MovesOf
<1>10. Output(w)' = Output(w)
  BY <1>1 DEF Output
<1>11. op[w].dst \in Stem /\ (op[w].act = "split" => op[w].dst \in SetStem)
  BY DEF Typed, OpsOK, OpRecord
<1>12. Named(w, t0) # Named(op[w].dst, t0)
  BY <1>5, <1>11, NamedPaths
<1>13. /\ \A p \in Paths \ {Named(w, t0), Named(op[w].dst, t0)} : disk'[p] = disk[p]
       /\ disk'[Named(w, t0)] = Absent
       /\ disk'[Named(op[w].dst, t0)] = disk[Named(w, t0)]
  BY <1>1, <1>6, <1>12 DEF Renamed
<1>14. StillThere(w)'
  <2>1. ASSUME NEW t \in Tags
        PROVE  IF Due(w, t)' THEN disk'[Named(w, t)] = Output(w) ELSE disk'[Named(w, t)] = Absent
    <3>1. CASE t = t0
      BY <1>8, <1>13, <3>1
    <3>2. CASE t # t0
      <4>1. Named(w, t) # Named(w, t0)
        BY <1>5, <3>2, NamedFiles
      <4>2. Named(w, t) \in Paths /\ Named(w, t) # Named(op[w].dst, t0)
        BY <1>5, <1>11, NamedPaths
      <4>3. disk'[Named(w, t)] = disk[Named(w, t)]
        BY <1>13, <4>1, <4>2
      <4>4. IF Due(w, t) THEN disk[Named(w, t)] = Output(w) ELSE ~Exists(Named(w, t))
        BY DEF StillThere
      <4>5. Due(w, t) <=> Due(w, t)'
        BY <1>7, <3>2
      <4>6. QED
        BY <4>3, <4>4, <4>5 DEF Exists
    <3>3. QED
      BY <3>1, <3>2
  <2>2. QED
    BY <1>10, <2>1 DEF StillThere, Exists
<1>15. ASSUME op[w].act = "split", Arrived(w, T)
       PROVE  Arrived(w, T)'
  <2>1. ASSUME NEW t \in Tags
        PROVE  IF t \in T THEN Due(w, t)' \/ disk'[Named(op[w].dst, t)] = Output(w)
                          ELSE disk'[Named(op[w].dst, t)] = Absent
    <3>1. IF t \in T THEN Due(w, t) \/ disk[Named(op[w].dst, t)] = Output(w)
                     ELSE ~Exists(Named(op[w].dst, t))
      BY <1>15 DEF Arrived
    <3>2. CASE t = t0
      <4>1. Due(w, t0)
        BY <1>5, <1>7
      <4>2. disk[Named(w, t0)] = Output(w)
        BY <1>5, <4>1 DEF StillThere
      <4>3. QED
        BY <1>13, <3>2, <4>2
    <3>3. CASE t # t0
      <4>1. Named(op[w].dst, t) # Named(op[w].dst, t0)
        BY <1>5, <3>3, NamedFiles
      <4>2. Named(op[w].dst, t) \in Paths /\ Named(op[w].dst, t) # Named(w, t0)
        BY <1>5, <1>11, <1>15, NamedPaths
      <4>3. disk'[Named(op[w].dst, t)] = disk[Named(op[w].dst, t)]
        BY <1>13, <4>1, <4>2
      <4>4. QED
        BY <1>7, <3>1, <3>3, <4>3 DEF Exists
    <3>4. QED
      BY <3>2, <3>3
  <2>2. QED
    BY <1>1, <1>10, <2>1 DEF Arrived, Exists
<1>16. ASSUME call'[w].at = "done"
       PROVE  \A t \in Tags : ~Due(w, t)'
  <2>1. Len(rest) = 0
    BY <1>2, <1>3, <1>16
  <2>2. QED
    BY <2>1 DEF Due
<1>17. QED
  BY <1>2, <1>9, <1>14, <1>15, <1>16

-----------------------------------------------------------------------------
(* Steps                                                                   *)

\* The records that a step of another operation, and the one of a file call, leaves.
LEMMA OthersKept ==
  ASSUME Typed, NEW w \in Writer, Frame(w), NEW v \in Writer \ {w}
  PROVE  /\ op'[v] = op[v] /\ call'[v] = call[v]
         /\ \A p \in TempFiles(v) \cup {Work(v)} : disk'[p] = disk[p]
         /\ faults' >= faults
BY FileAssumption DEF Frame, Typed, OpsOK, CallsOK, RestOK

\* The rebuilt archive does not outlive the rebuild.
LEMMA WorkStep ==
  ASSUME Typed, StageInv, CallInv, MoveInv, WorkInv, Next
  PROVE  WorkInv'
<1>1. CASE Crash
  BY <1>1, CrashEffect DEF WorkInv, WorkOK, Running, Exists
<1>2. ASSUME NEW w \in Writer, NextBy(w)
      PROVE  WorkInv'
  <2>1. Frame(w) /\ Typed' /\ WorkOK(w)
    BY <1>2, NextByTyped DEF WorkInv
  <2>2. ASSUME NEW v \in Writer \ {w}
        PROVE  WorkOK(v)'
    <3>1. op'[v] = op[v] /\ disk'[Work(v)] = disk[Work(v)]
      BY <2>1, OthersKept
    <3>2. QED
      BY <3>1 DEF WorkInv, WorkOK, Running, Exists
  <2>3. WorkOK(w)'
    <3>1. /\ Work(w) \in Paths /\ disk \in [Paths -> Content \cup {Absent}]
          /\ Work(w) # Arc /\ Work(w) # Bak /\ Arc \in Paths /\ Bak \in Paths
          /\ Work(w) \notin TempFiles(w) /\ File(w) \in TempFiles(w)
      BY PathSets, Disjoint, Kindred DEF Typed, Disks
    <3>2. ASSUME NEW act \in Acts[w], Start(w, act)
          PROVE  WorkOK(w)'
      BY <2>1, <3>2, StartEffect DEF WorkOK, Running, Exists, fileVars
    <3>3. CASE Cancel(w)
      BY <2>1, <3>3, CancelEffect DEF WorkOK, Running, Exists, fileVars
    <3>4. ASSUME Step(w), disk'[Work(w)] = disk[Work(w)],
                 op[w].at \notin {"swap", "backup", "install", "restore"}
          PROVE  WorkOK(w)'
      <4>1. Shape(w)
        BY <3>4, StepShape
      <4>2. CASE op' = op
        BY <2>1, <3>4, <4>2 DEF WorkOK, Running, Exists
      <4>3. CASE op' # op
        <5>1. Running(w)
          BY <4>1, <4>2, <4>3 DEF Shape, Ends, Goes, Reads, At
        <5>2. op[w].res = "none"
          BY <5>1 DEF Running
        <5>3. QED
          BY <2>1, <3>4, <5>2 DEF WorkOK, Exists
      <4>4. QED
        BY <4>2, <4>3
    <3>5. CASE Rest1(w)
      <4>1. disk'[Work(w)] = disk[Work(w)]
        BY <3>1, <3>5 DEF Rest1, Load, MainFails, NativeReads, NativeApplies, NativeAborts, NativeReturns, Fail, fileVars
      <4>2. op[w].at \notin {"swap", "backup", "install", "restore"}
        BY <3>5 DEF Rest1, Load, MainFails, NativeReads, NativeApplies, NativeAborts, NativeReturns, At
      <4>3. QED
        BY <3>4, <3>5, <4>1, <4>2, StepKinds
    <3>6. CASE Rest2(w) /\ ~Compressed(w)
      <4>1. disk'[Work(w)] = disk[Work(w)] \/ disk'[Work(w)] = Absent
        BY <3>1, <3>6 DEF Rest2, BindingBegins, BindingEnds, BindingBreaks, BindingRefuses, RebuildStarts,
           Extract, RebuildFails, EraseArchive, Mutate, Leave, fileVars, Removed, Opened
      <4>2. op[w].at \notin {"swap", "backup", "install", "restore"}
        BY <3>6 DEF Rest2, BindingBegins, BindingEnds, BindingBreaks, BindingRefuses, RebuildStarts,
           Extract, RebuildFails, EraseArchive, Mutate, At
      <4>3. CASE disk'[Work(w)] = disk[Work(w)]
        BY <3>4, <3>6, <4>2, <4>3, StepKinds
      <4>4. CASE disk'[Work(w)] = Absent
        BY <4>4 DEF WorkOK, Exists
      <4>5. QED
        BY <4>1, <4>3, <4>4
    <3>7. CASE Compressed(w)
      <4>1. Goes(w, "compress", "swap")
        BY <3>7, GoToShape DEF Compressed, Stages, SwapStages
      <4>2. QED
        BY <2>1, <4>1 DEF WorkOK, Goes, Running, At
    <3>8. ASSUME NEW t \in {"backup", "install", "restore"}, NEW s, Goes(w, s, t)
          PROVE  WorkOK(w)'
      BY <2>1, <3>8 DEF WorkOK, Goes, Running, At
    <3>9. CASE DropOldBackup(w) \/ BackUp(w) \/ Install(w) \/ DropBackup(w) \/ Restore(w)
      <4>1. CASE disk'[Work(w)] = Absent
        BY <4>1 DEF WorkOK, Exists
      <4>2. CASE disk'[Work(w)] # Absent
        <5>1. ASSUME NEW res, NEW d, Leave(w, res, d), d \in Disks
              PROVE  FALSE
          BY <3>1, <4>2, <5>1 DEF Leave, Removed, Disks
        <5>2. disk \in Disks /\ Removed(disk, {Bak}) \in Disks /\ Renamed(disk, Bak, Arc) \in Disks
          BY <3>1, RemovedType, RenamedType DEF Typed
        <5>3. CASE DropOldBackup(w)
          <6>1. GoTo(w, "backup")
            BY <5>1, <5>2, <5>3 DEF DropOldBackup, SwapStep
          <6>2. Goes(w, "swap", "backup")
            BY <5>3, <6>1, GoToShape DEF DropOldBackup, SwapStep, Stages, SwapStages
          <6>3. QED
            BY <3>8, <6>2
        <5>4. CASE BackUp(w)
          <6>1. GoTo(w, "install")
            BY <5>1, <5>2, <5>4 DEF BackUp, SwapStep
          <6>2. Goes(w, "backup", "install")
            BY <5>4, <6>1, GoToShape DEF BackUp, SwapStep, Stages, SwapStages
          <6>3. QED
            BY <3>8, <6>2
        <5>5. CASE Install(w)
          <6>1. GoTo(w, "restore")
            BY <3>1, <4>2, <5>5 DEF Install, SwapStep, Renamed
          <6>2. Goes(w, "install", "restore")
            BY <5>5, <6>1, GoToShape DEF Install, SwapStep, Stages, SwapStages
          <6>3. QED
            BY <3>8, <6>2
        <5>6. CASE DropBackup(w)
          <6>1. GoTo(w, "restore")
            BY <5>1, <5>2, <5>6 DEF DropBackup
          <6>2. Goes(w, "drop", "restore")
            BY <5>6, <6>1, GoToShape DEF DropBackup, Stages, SwapStages
          <6>3. QED
            BY <3>8, <6>2
        <5>7. CASE Restore(w)
          BY <5>1, <5>2, <5>7 DEF Restore
        <5>8. QED
          BY <3>9, <5>3, <5>4, <5>5, <5>6, <5>7
      <4>3. QED
        BY <4>1, <4>2
    <3>10. CASE Unpack(w) \/ Pack(w)
      <4>1. op[w].at \notin {"swap", "backup", "install", "restore"}
        BY <3>10 DEF Unpack, Pack, At
      <4>2. disk'[Work(w)] = disk[Work(w)]
        <5>1. CASE Unpack(w)
          BY <5>1 DEF Unpack, fileVars
        <5>2. CASE Pack(w)
          <6>1. PICK out \in Outputs(w) :
                  disk' = disk \/ \E c : disk' = [p \in Paths |-> IF p \in out THEN c ELSE disk[p]]
            BY <3>1, <5>2 DEF Pack
          <6>2. Work(w) \notin out
            BY <3>1, OutputFacts
          <6>3. QED
            BY <3>1, <6>1, <6>2
        <5>3. QED
          BY <3>10, <5>1, <5>2
      <4>3. QED
        BY <3>4, <3>10, <4>1, <4>2, StepKinds DEF Rest3
    <3>11. CASE Calling(w)
      <4>1. op[w].at \notin {"swap", "backup", "install", "restore"}
        <5>1. CASE WriteBack(w) \/ CallReturns(w) \/ PublishOutput(w) \/ DiscardOutput(w)
          BY <5>1 DEF WriteBack, CallReturns, PublishOutput, DiscardOutput, At
        <5>2. CASE FileStep(w)
          <6>1. call[w].at # "idle"
            BY <5>2 DEF FileStep, CallStep, RenameOk, RenameFails, UnlinkDestination, RetryOk, RetryFails, CleanupCall
          <6>2. QED
            BY <6>1 DEF CallInv, CallOK
        <5>3. QED
          BY <3>11, <5>1, <5>2 DEF Calling
      <4>2. disk'[Work(w)] = disk[Work(w)]
        <5>1. CASE WriteBack(w) \/ CallReturns(w) \/ PublishOutput(w) \/ DiscardOutput(w)
          BY <3>1, <5>1 DEF WriteBack, WriteTemp, CallReturns, PublishOutput, DiscardOutput, Publish, Discard, fileVars
        <5>2. CASE RenameOk(w) \/ RetryOk(w)
          <6>1. MoveDone(w) /\ call[w].at \in Moving
            BY <5>2 DEF RenameOk, RetryOk, Moving
          <6>2. Next1(w).src \in TempFiles(w) /\ Next1(w).dst # Work(w)
            BY <6>1, NextMove
          <6>3. QED
            BY <3>1, <6>1, <6>2 DEF MoveDone, Renamed
        <5>3. CASE UnlinkDestination(w)
          <6>1. Next1(w).dst # Work(w)
            BY <5>3, NextMove DEF UnlinkDestination, Moving
          <6>2. QED
            BY <3>1, <5>3, <6>1 DEF UnlinkDestination, Removed
        <5>4. CASE RenameFails(w) \/ RetryFails(w) \/ CleanupCall(w)
          BY <3>1, <5>4 DEF RenameFails, RetryFails, CleanupCall, Removed
        <5>5. QED
          BY <3>11, <5>1, <5>2, <5>3, <5>4 DEF Calling, FileStep, CallStep
      <4>3. QED
        BY <3>4, <3>11, <4>1, <4>2, StepKinds
    <3>12. QED
      BY <1>2, <3>2, <3>3, <3>5, <3>6, <3>7, <3>9, <3>10, <3>11, StepKinds DEF NextBy, Rest2, Rest3
  <2>4. QED
    BY <2>2, <2>3 DEF WorkInv
<1>3. QED
  BY <1>1, <1>2, NextIsBy

\* Only the file calls of a split change the files of its folder.
LEMMA FolderFiles ==
  ASSUME Typed, StageInv, MoveInv, NEW w \in Writer, NextBy(w), NEW d \in {"dir", "dir1"}, NEW t \in Tags,
         disk'[Named(d, t)] # disk[Named(d, t)]
  PROVE  /\ FileStep(w) /\ call[w].at \in Moving
         /\ op[w].act = "split" /\ op[w].dst = d
<1> DEFINE p == Named(d, t)
<1>1. d \in Stem /\ d \in SetStem /\ d # "arc" /\ d # "bak"
  BY EditAssumption
<1>2. p \in Paths /\ p[1] = d
  BY <1>1, NamedPaths DEF Named
<1>3. p # Arc /\ p # Bak /\ p \notin TempFiles(w) /\ p # Work(w)
  BY <1>1, <1>2, Owners, FileAssumption DEF Arc, Bak
<1>4. /\ disk \in [Paths -> Content \cup {Absent}] /\ Arc \in Paths /\ Bak \in Paths
      /\ Work(w) \in Paths /\ File(w) \in TempFiles(w)
  BY PathSets DEF Typed, Disks
<1> HIDE DEF p
<1>5. disk'[p] # disk[p]
  BY DEF p
<1>6. ASSUME NEW act \in Acts[w], Start(w, act)
      PROVE  FALSE
  BY <1>5, <1>6 DEF Start, fileVars
<1>7. CASE Cancel(w)
  BY <1>5, <1>7 DEF Cancel, fileVars
<1>8. CASE Rest1(w)
  BY <1>2, <1>3, <1>4, <1>5, <1>8 DEF Rest1, Load, MainFails, NativeReads, NativeApplies, NativeAborts,
     NativeReturns, Fail, fileVars
<1>9. CASE Rest2(w)
  BY <1>2, <1>3, <1>4, <1>5, <1>9 DEF Rest2, BindingBegins, BindingEnds, BindingBreaks, BindingRefuses,
     RebuildStarts, Extract, RebuildFails, EraseArchive, Mutate, Compressed, Leave, fileVars, Removed, Opened
<1>10. CASE Rest3(w)
  <2>1. CASE Unpack(w)
    BY <1>5, <2>1 DEF Unpack, fileVars
  <2>2. CASE Pack(w)
    <3>1. PICK out \in Outputs(w) :
            disk' = disk \/ \E c : disk' = [q \in Paths |-> IF q \in out THEN c ELSE disk[q]]
      BY <1>4, <2>2 DEF Pack
    <3>2. p \notin out
      BY <1>3, OutputFacts
    <3>3. QED
      BY <1>2, <1>5, <3>1, <3>2
  <2>3. CASE DropOldBackup(w) \/ BackUp(w) \/ Install(w) \/ DropBackup(w) \/ Restore(w)
    BY <1>2, <1>3, <1>4, <1>5, <2>3 DEF DropOldBackup, BackUp, Install, DropBackup, Restore, SwapStep, Leave,
       Removed, Renamed
  <2>4. QED
    BY <1>10, <2>1, <2>2, <2>3 DEF Rest3
<1>11. CASE WriteBack(w) \/ CallReturns(w) \/ PublishOutput(w) \/ DiscardOutput(w)
  BY <1>2, <1>3, <1>4, <1>5, <1>11 DEF WriteBack, WriteTemp, CallReturns, PublishOutput, DiscardOutput,
     Publish, Discard, fileVars
<1>12. CASE FileStep(w)
  <2>1. ASSUME call[w].at \in Moving, p = Next1(w).dst
        PROVE  op[w].act = "split" /\ op[w].dst = d
    <3>1. call[w].todo \in Seq(Rename) /\ call[w].todo # <<>>
      BY <2>1 DEF Typed, CallsOK, CallRecord
    <3>2. 1 \in 1 .. Len(call[w].todo)
      BY <3>1, EmptySeq
    <3>3. \/ Next1(w).dst = File(op[w].dst)
          \/ op[w].act = "split" /\ Next1(w).dst \in VolumesOf(op[w].dst)
      <4>1. Next1(w) = call[w].todo[1]
        BY <2>1, NextMove
      <4>2. MoveOK(w)
        BY DEF MoveInv
      <4>3. \/ call[w].todo[1].dst = File(op[w].dst)
            \/ op[w].act = "split" /\ call[w].todo[1].dst \in VolumesOf(op[w].dst)
        BY <2>1, <3>2, <4>2 DEF MoveOK
      <4>4. QED
        BY <4>1, <4>3
    <3>4. op[w].dst = d
      BY <1>2, <2>1, <3>3, Owners
    <3>5. QED
      BY <1>1, <3>4 DEF StageInv, StageOK
  <2>2. CASE RenameOk(w) \/ RetryOk(w)
    <3>1. MoveDone(w) /\ call[w].at \in Moving
      BY <2>2 DEF RenameOk, RetryOk, Moving
    <3>2. Next1(w).src \in TempFiles(w) /\ Next1(w).dst \in Paths
      BY <3>1, NextMove
    <3>3. p = Next1(w).dst
      BY <1>2, <1>3, <1>4, <1>5, <3>1, <3>2 DEF MoveDone, Renamed
    <3>4. QED
      BY <1>12, <2>1, <3>1, <3>3
  <2>3. CASE UnlinkDestination(w)
    <3>1. call[w].at \in Moving
      BY <2>3 DEF UnlinkDestination, Moving
    <3>2. p = Next1(w).dst
      BY <1>2, <1>4, <1>5, <2>3 DEF UnlinkDestination, Removed
    <3>3. QED
      BY <1>12, <2>1, <3>1, <3>2
  <2>4. CASE RenameFails(w) \/ RetryFails(w)
    BY <1>5, <2>4 DEF RenameFails, RetryFails
  <2>5. CASE CleanupCall(w)
    BY <1>2, <1>3, <1>4, <1>5, <2>5 DEF CleanupCall, Removed
  <2>6. QED
    BY <1>12, <2>2, <2>3, <2>4, <2>5 DEF FileStep, CallStep
<1>13. QED
  BY <1>6, <1>7, <1>8, <1>9, <1>10, <1>11, <1>12, StepKinds DEF NextBy, Calling

\* The operation is over, or has only been told to stop.
SameOp(w) ==
  /\ op'[w].act = op[w].act /\ op'[w].at = op[w].at /\ op'[w].dst = op[w].dst
  /\ op'[w].seen = op[w].seen /\ op'[w].wrote = op[w].wrote

\* Cancellations, ends and crashes are such steps.
LEMMA SameOps ==
  ASSUME Typed, NEW w \in Writer
  PROVE  /\ (Cancel(w) \/ op' = op) => SameOp(w)
         /\ \A res \in Results : (End(w, res) => (SameOp(w) /\ op'[w].res = res))
         /\ Crash => SameOp(w)
<1>1. op[w] \in OpRecord
  BY DEF Typed, OpsOK
<1>2. ASSUME op' = op
      PROVE  SameOp(w)
  BY <1>2 DEF SameOp
<1>3. ASSUME Cancel(w)
      PROVE  SameOp(w)
  <2>1. op'[w] = [op[w] EXCEPT !.cancel = TRUE]
    BY <1>3 DEF Cancel, Typed, OpsOK
  <2>2. QED
    BY <1>1, <2>1 DEF SameOp, OpRecord
<1>4. ASSUME NEW res \in Results, End(w, res)
      PROVE  SameOp(w) /\ op'[w].res = res
  <2>1. op'[w] = [op[w] EXCEPT !.res = res]
    BY <1>4, EndKeeps DEF Typed
  <2>2. QED
    BY <1>1, <2>1 DEF SameOp, OpRecord
<1>5. ASSUME Crash
      PROVE  SameOp(w)
  <2>1. op'[w] = IF Running(w) THEN [op[w] EXCEPT !.res = "crashed"] ELSE op[w]
    BY <1>5 DEF Crash
  <2>2. QED
    BY <1>1, <2>1 DEF SameOp, OpRecord
<1>6. QED
  BY <1>2, <1>3, <1>4, <1>5

\* A split that is alone in its folder has been.
LEMMA WasAlone ==
  ASSUME Typed, StageInv, MoveInv, NEW w \in Writer, op[w].act = "split", op'[w].act = op[w].act, op'[w].dst = op[w].dst,
         Next, Alone(w)'
  PROVE  Alone(w)
<1>1. ASSUME NEW v \in Writer, op[v].act = "split"
      PROVE  op'[v].act = op[v].act /\ op'[v].dst = op[v].dst
  <2>1. CASE Crash
    BY <2>1, CrashEffect
  <2>2. ASSUME NEW u \in Writer, NextBy(u)
        PROVE  op'[v].act = op[v].act /\ op'[v].dst = op[v].dst
    <3>1. CASE u # v
      BY <2>2, <3>1, NextByTyped, OthersKept
    <3>2. CASE u = v
      <4>1. ASSUME NEW act \in Acts[v], Start(v, act)
            PROVE  FALSE
        BY <1>1, <4>1, StartEffect
      <4>2. CASE Cancel(v)
        BY <4>2, CancelEffect
      <4>3. CASE Step(v)
        BY <4>3, StepShape DEF Shape, Ends, Goes, Reads
      <4>4. QED
        BY <2>2, <3>2, <4>1, <4>2, <4>3 DEF NextBy
    <3>3. QED
      BY <3>1, <3>2
  <2>3. QED
    BY <2>1, <2>2, NextIsBy
<1>2. QED
  BY <1>1 DEF Alone

\* A step of another operation, with its files, keeps what is known of this one's.
LEMMA OthersLeft ==
  ASSUME Typed, StageInv, MoveInv, Next, NEW w \in Writer, NextBy(w), NEW v \in Writer \ {w},
         TempsLeft(v)
  PROVE  TempsLeft(v)'
<1>1. /\ op'[v] = op[v] /\ call'[v] = call[v] /\ faults' >= faults
      /\ \A p \in TempFiles(v) : disk'[p] = disk[p]
  BY NextByTyped, OthersKept
<1>2. faults \in Nat /\ faults' \in Nat
  BY NextByTyped, FileAssumption DEF Typed, RestOK
<1>3. \A t \in Tags : disk'[Named(v, t)] = disk[Named(v, t)]
  BY <1>1, NamedPaths
<1>4. File(v) \in TempFiles(v)
  BY PathSets
<1>5. /\ Gone(v)' <=> Gone(v)
      /\ Layouts(v)' = Layouts(v) /\ Output(v)' = Output(v)
      /\ \A t : Due(v, t)' <=> Due(v, t)
      /\ \A T : MovesOf(v, T)' <=> MovesOf(v, T)
      /\ Running(v)' <=> Running(v)
      /\ StillThere(v)' <=> StillThere(v)
      /\ \A T : Has(v, T, Output(v))' <=> Has(v, T, Output(v))
  BY <1>1, <1>3 DEF Gone, Layouts, Output, Due, MovesOf, Running, StillThere, Has, Exists
<1>6. FreshOK(v)' /\ WrittenOK(v)' /\ DiscardedOK(v)' /\ PublishedOK(v)'
  BY <1>1, <1>2, <1>5 DEF TempsLeft, FreshOK, WrittenOK, DiscardedOK, PublishedOK, Exists
<1>7. PackedOK(v)'
  BY <1>1, <1>5 DEF TempsLeft, PackedOK, At
<1>8. ASSUME Alone(v)', op[v].act = "split"
      PROVE  Alone(v) /\ \A t \in Tags : disk'[Named(op[v].dst, t)] = disk[Named(op[v].dst, t)]
  <2>1. Alone(v)
    BY <1>1, <1>8, WasAlone
  <2>2. ASSUME NEW t \in Tags, disk'[Named(op[v].dst, t)] # disk[Named(op[v].dst, t)]
        PROVE  FALSE
    <3>1. op[v].dst \in {"dir", "dir1"}
      BY <1>8 DEF StageInv, StageOK
    <3>2. op[w].act = "split" /\ op[w].dst = op[v].dst
      BY <2>2, <3>1, FolderFiles
    <3>3. QED
      BY <2>1, <3>2 DEF Alone
  <2>3. QED
    BY <2>1, <2>2
<1>9. Alone(v)' => op[v].act = "split"
  BY <1>1 DEF Alone
<1>10. PublishingOK(v)'
  <2>1. SUFFICES ASSUME At(v, "publish")', call'[v].at \in Moving
                 PROVE  \E T \in Layouts(v) : MovesOf(v, T) /\ StillThere(v) /\ (Alone(v)' => Arrived(v, T)')
    BY <1>5 DEF PublishingOK
  <2>2. PICK T \in Layouts(v) : MovesOf(v, T) /\ StillThere(v) /\ (Alone(v) => Arrived(v, T))
    BY <1>1, <1>5, <2>1 DEF TempsLeft, PublishingOK, At
  <2>3. ASSUME Alone(v)'
        PROVE  Arrived(v, T)'
    BY <1>1, <1>5, <1>8, <1>9, <2>2, <2>3 DEF Arrived, Exists
  <2>4. QED
    BY <2>2, <2>3
<1>11. CompleteOK(v)'
  <2>1. SUFFICES ASSUME op[v].act = "split", (At(v, "publish") /\ call[v].at = "done") \/ op[v].res = "ok"
                 PROVE  /\ op[v].at = "publish"
                        /\ Alone(v)' => \E T \in Layouts(v) : Has(op[v].dst, T, Output(v))'
    BY <1>1, <1>5 DEF CompleteOK, At
  <2>2. CompleteOK(v)
    BY DEF TempsLeft
  <2>3. ASSUME Alone(v)'
        PROVE  \E T \in Layouts(v) : Has(op[v].dst, T, Output(v))'
    <3>1. PICK T \in Layouts(v) : Has(op[v].dst, T, Output(v))
      BY <1>8, <2>1, <2>2, <2>3 DEF CompleteOK
    <3>2. Has(op[v].dst, T, Output(v))'
      BY <1>1, <1>5, <1>8, <2>1, <2>3, <3>1 DEF Has, Exists
    <3>3. QED
      BY <3>2
  <2>4. QED
    BY <2>1, <2>2, <2>3 DEF CompleteOK
<1>12. QED
  BY <1>6, <1>7, <1>10, <1>11 DEF TempsLeft

\* A crash lets files lie, but ends every operation that could still clean up.
LEMMA CrashLeft ==
  ASSUME Typed, StageInv, MoveInv, Crash, NEW v \in Writer, TempsLeft(v)
  PROVE  TempsLeft(v)'
<1>1. /\ SameOp(v) /\ call'[v].at = "idle" /\ disk' = disk /\ faults' = faults
      /\ op'[v].res = IF Running(v) THEN "crashed" ELSE op[v].res
  BY CrashEffect, SameOps
<1>2. op[v].act # "none" \/ op[v].res = "none"
  BY DEF StageInv, StageOK
<1>3. ~Running(v)' \/ op[v].act = "none"
  BY <1>1, <1>2 DEF SameOp, Running
<1>4. /\ Gone(v)' <=> Gone(v)
      /\ Layouts(v)' = Layouts(v) /\ Output(v)' = Output(v)
  BY <1>1 DEF SameOp, Gone, Layouts, Output, Exists
<1>5. op[v].act = "none" => op[v].at = "new"
  BY DEF StageInv, StageOK
<1>6. FreshOK(v)' /\ PackedOK(v)' /\ PublishingOK(v)'
  BY <1>1, <1>3, <1>4, <1>5 DEF TempsLeft, FreshOK, PackedOK, PublishingOK, SameOp, At, Moving
<1>7. WrittenOK(v)' /\ DiscardedOK(v)' /\ PublishedOK(v)'
  BY <1>1, <1>2, <1>3, <1>4, <1>5 DEF TempsLeft, WrittenOK, DiscardedOK, PublishedOK, SameOp, Running, Exists, Endings
<1>8. CompleteOK(v)'
  <2>1. SUFFICES ASSUME op[v].act = "split", op[v].res = "ok"
                 PROVE  /\ op[v].at = "publish"
                        /\ Alone(v)' => \E T \in Layouts(v) : Has(op[v].dst, T, Output(v))'
    BY <1>1, <1>4 DEF CompleteOK, At, SameOp
  <2>2. Alone(v)' => Alone(v)
    BY <1>1, <2>1, WasAlone DEF SameOp, Next
  <2>3. \A T : Has(op[v].dst, T, Output(v))' <=> Has(op[v].dst, T, Output(v))
    BY <1>1, <1>4 DEF Has, SameOp, Exists
  <2>4. QED
    BY <2>1, <2>2, <2>3 DEF TempsLeft, CompleteOK
<1>9. QED
  BY <1>6, <1>7, <1>8 DEF TempsLeft

\* Before an operation writes there is nothing of it.
LEMMA Unwritten ==
  ASSUME NEW w \in Writer, Gone(w)', op'[w].at \notin {"write", "publish", "discard"},
         op'[w].act = "split" => op'[w].res # "ok"
  PROVE  TempsLeft(w)'
BY DEF TempsLeft, FreshOK, WrittenOK, DiscardedOK, PackedOK, PublishingOK, PublishedOK, CompleteOK, At

\* The start of the operation.
LEMMA StartLeft ==
  ASSUME Typed, StageInv, NEW w \in Writer, NEW act \in Acts[w], Start(w, act), TempsLeft(w)
  PROVE  TempsLeft(w)'
<1>1. /\ disk' = disk /\ op[w].at = "new" /\ op'[w].res = "none"
      /\ op'[w].at \notin {"write", "publish", "discard"}
  BY StartEffect DEF fileVars
<1>2. Gone(w)'
  BY <1>1 DEF TempsLeft, FreshOK, Gone, Exists
<1>3. QED
  BY <1>1, <1>2, Unwritten

\* A step that only says stop changes nothing of what there is.
LEMMA CancelLeft ==
  ASSUME Typed, StageInv, MoveInv, NEW w \in Writer, Cancel(w), TempsLeft(w)
  PROVE  TempsLeft(w)'
<1>1. /\ SameOp(w) /\ UNCHANGED <<disk, call, faults>> /\ op'[w].res = op[w].res
  BY SameOps, CancelEffect DEF fileVars
<1>2. /\ Gone(w)' <=> Gone(w)
      /\ Layouts(w)' = Layouts(w) /\ Output(w)' = Output(w) /\ Running(w)' = Running(w)
      /\ \A T : MovesOf(w, T)' <=> MovesOf(w, T)
      /\ \A T : Has(w, T, Output(w))' <=> Has(w, T, Output(w))
      /\ \A T : Has(op[w].dst, T, Output(w))' <=> Has(op[w].dst, T, Output(w))
      /\ \A T : Arrived(w, T)' <=> Arrived(w, T)
      /\ StillThere(w)' <=> StillThere(w)
  BY <1>1 DEF SameOp, Gone, Layouts, Output, Running, MovesOf, Has, Arrived, StillThere, Due, Exists
<1>3. op[w].act = "split" /\ Alone(w)' => Alone(w)
  <2>1. Next
    BY NextIsBy DEF NextBy
  <2>2. QED
    BY <1>1, <2>1, WasAlone DEF SameOp
<1>4. Alone(w)' => op[w].act = "split"
  BY <1>1 DEF Alone, SameOp
<1>5. FreshOK(w)' /\ WrittenOK(w)' /\ DiscardedOK(w)' /\ PackedOK(w)' /\ PublishedOK(w)'
  BY <1>1, <1>2 DEF TempsLeft, FreshOK, WrittenOK, DiscardedOK, PackedOK, PublishedOK, SameOp, At, Exists
<1>6. PublishingOK(w)'
  <2>1. SUFFICES ASSUME At(w, "publish")', call'[w].at \in Moving
                 PROVE  \E T \in Layouts(w) : MovesOf(w, T) /\ StillThere(w) /\ (Alone(w)' => Arrived(w, T))
    BY <1>2 DEF PublishingOK
  <2>2. PICK T \in Layouts(w) : MovesOf(w, T) /\ StillThere(w) /\ (Alone(w) => Arrived(w, T))
    BY <1>1, <1>2, <2>1 DEF TempsLeft, PublishingOK, At, SameOp
  <2>3. QED
    BY <1>3, <1>4, <2>2
<1>7. CompleteOK(w)'
  <2>1. SUFFICES ASSUME op[w].act = "split", (At(w, "publish") /\ call[w].at = "done") \/ op[w].res = "ok"
                 PROVE  /\ op[w].at = "publish"
                        /\ Alone(w)' => \E T \in Layouts(w) : Has(op[w].dst, T, Output(w))
    BY <1>1, <1>2 DEF CompleteOK, At, SameOp
  <2>2. QED
    BY <1>3, <2>1 DEF TempsLeft, CompleteOK
<1>8. QED
  BY <1>5, <1>6, <1>7 DEF TempsLeft

\* The steps before anything is written.
LEMMA QuietLeft ==
  ASSUME Typed, StageInv, CallInv, MoveInv, NEW w \in Writer, Rest1(w) \/ Rest2(w) \/ Rest3(w), ~Pack(w),
         TempsLeft(w)
  PROVE  TempsLeft(w)'
<1>1. /\ call' = call /\ Running(w)
      /\ op[w].at \notin {"write", "publish", "discard"} /\ op'[w].at # "write"
  BY RestOfCall
<1>2. op[w].at = "pack" => FALSE
  <2> USE DEF At
  <2>1. CASE Rest1(w)
    BY <2>1 DEF Rest1, Load, MainFails, NativeReads, NativeApplies, NativeAborts, NativeReturns
  <2>2. CASE Rest2(w)
    BY <2>2 DEF Rest2, BindingBegins, BindingEnds, BindingBreaks, BindingRefuses, RebuildStarts, Extract, RebuildFails,
       EraseArchive, Mutate, Compressed
  <2>3. CASE Rest3(w)
    BY <2>3 DEF Rest3, DropOldBackup, BackUp, Install, DropBackup, Restore, Unpack, SwapStep
  <2>4. QED
    BY <2>1, <2>2, <2>3
<1>3. Shape(w)
  BY StepKinds, StepShape
<1>4. op'[w].at \notin {"write", "publish", "discard"}
  BY <1>1, <1>2, <1>3 DEF Shape, Ends, Goes, Reads, At
<1>5. Gone(w) /\ Gone(w)'
  <2>1. \A p \in TempFiles(w) : disk'[p] = disk[p]
    BY TempsKept
  <2>2. QED
    BY <1>1, <2>1 DEF TempsLeft, FreshOK, Gone, Exists
<1>6. op'[w].act = "split" => op'[w].res # "ok"
  <2>1. SUFFICES ASSUME op'[w].act = "split", op'[w].res = "ok"
                 PROVE  FALSE
    OBVIOUS
  <2>2. op[w].act = "split" /\ op[w].res = "none" /\ op[w].act # "none"
    BY <1>1, <1>3, <2>1 DEF Shape, Ends, Goes, Reads, Running
  <2>3. op[w].at = "unpack"
    BY <1>1, <1>2, <2>2 DEF StageInv, StageOK, Conversions, ConversionStages
  <2>4. Unpack(w)
    <3> USE DEF At
    <3>1. CASE Rest1(w)
      BY <2>3, <3>1 DEF Rest1, Load, MainFails, NativeReads, NativeApplies, NativeAborts, NativeReturns
    <3>2. CASE Rest2(w)
      BY <2>3, <3>2 DEF Rest2, BindingBegins, BindingEnds, BindingBreaks, BindingRefuses, RebuildStarts, Extract,
         RebuildFails, EraseArchive, Mutate, Compressed
    <3>3. CASE Rest3(w)
      BY <2>3, <3>3 DEF Rest3, DropOldBackup, BackUp, Install, DropBackup, Restore, Pack, SwapStep
    <3>4. QED
      BY <3>1, <3>2, <3>3
  <2>5. ASSUME NEW res \in {"failed", "cancelled"}, End(w, res)
        PROVE  FALSE
    BY <2>1, <2>5, SameOps DEF Results
  <2>6. op' = [op EXCEPT ![w].seen = disk[Arc].has, ![w].at = "pack"]
    BY <2>4, <2>5 DEF Unpack
  <2>7. op'[w].res = op[w].res
    BY <2>6 DEF Typed, OpsOK, OpRecord
  <2>8. QED
    BY <2>1, <2>2, <2>7
<1>7. QED
  BY <1>4, <1>5, <1>6, Unwritten

\* Packing.
LEMMA PackLeft ==
  ASSUME Typed, StageInv, CallInv, MoveInv, NEW w \in Writer, Pack(w), TempsLeft(w)
  PROVE  TempsLeft(w)'
<1>1. call' = call /\ call[w].at = "idle" /\ At(w, "pack")
  BY DEF Pack, CallInv, CallOK, At
<1>2. Gone(w)
  BY <1>1 DEF TempsLeft, FreshOK, At
<1>3. op'[w].at \in {"publish", "discard"} /\ op'[w].res = "none"
  <2>1. CASE GoTo(w, "discard")
    BY <1>1, <2>1 DEF GoTo, At, Running, Typed, OpsOK, OpRecord
  <2>2. ASSUME NEW c, op' = [op EXCEPT ![w].at = "publish", ![w].wrote = c]
        PROVE  op'[w].at \in {"publish", "discard"} /\ op'[w].res = "none"
    BY <1>1, <2>2 DEF At, Running, Typed, OpsOK, OpRecord
  <2>3. QED
    BY <2>1, <2>2 DEF Pack
<1>4. PackedOK(w)'
  <2>1. CASE op'[w].at = "publish"
    BY <1>2, <2>1, PackLayout
  <2>2. CASE op'[w].at = "discard"
    BY <2>2 DEF PackedOK, At
  <2>3. QED
    BY <1>3, <2>1, <2>2
<1>5. QED
  BY <1>1, <1>3, <1>4 DEF TempsLeft, FreshOK, WrittenOK, DiscardedOK, PublishingOK, PublishedOK, CompleteOK,
     At, Running, Moving, Endings

\* The write of atomicWriteFile.
LEMMA WriteLeft ==
  ASSUME Typed, StageInv, MoveInv, NEW w \in Writer, WriteBack(w), TempsLeft(w)
  PROVE  TempsLeft(w)'
<1>1. Goes(w, "main", "write")
  BY GoToShape DEF WriteBack, Stages
<1>2. Gone(w)
  BY <1>1 DEF TempsLeft, FreshOK, Goes, At
<1>3. /\ disk \in [Paths -> Content \cup {Absent}] /\ File(w) \in Paths /\ TempFiles(w) \subseteq Paths
  BY PathSets DEF Typed, Disks
<1>4. \A p \in TempFiles(w) : Exists(p)' => p = File(w)
  BY <1>2, <1>3 DEF WriteBack, WriteTemp, Gone, Exists
<1>5. call'[w].at = "rename" \/ (call'[w].at = "cleanup" /\ faults' >= 1)
  <2>1. faults \in Nat
    BY FileAssumption DEF Typed, RestOK
  <2>2. QED
    BY <2>1 DEF WriteBack, WriteTemp, Fault, Typed, CallsOK
<1>6. op[w].act # "split" /\ op[w].act # "none"
  BY <1>1 DEF StageInv, StageOK, Goes, At, Running, Conversions, ConversionStages
<1>7. QED
  BY <1>1, <1>4, <1>5, <1>6 DEF TempsLeft, FreshOK, WrittenOK, DiscardedOK, PackedOK, PublishingOK, PublishedOK,
     CompleteOK, Goes, At, Running, Moving

\* The answer to the caller.
LEMMA ReturnLeft ==
  ASSUME Typed, StageInv, CallInv, MoveInv, NEW w \in Writer, CallReturns(w), TempsLeft(w)
  PROVE  TempsLeft(w)'
<1>1. PICK res \in Endings : /\ End(w, res)
                             /\ res = "ok" <=> call[w].at = "done"
                             /\ res = "cancelled" => op[w].at = "discard"
  BY DEF CallReturns, Endings
<1>2. /\ SameOp(w) /\ op'[w].res = res /\ UNCHANGED <<disk, call, faults>>
      /\ Running(w) /\ call[w].at \in {"done", "failed"} /\ op[w].at \in {"write", "publish", "discard"}
  BY <1>1, SameOps DEF CallReturns, fileVars, Endings, Results
<1>3. /\ Gone(w)' <=> Gone(w)
      /\ Layouts(w)' = Layouts(w) /\ Output(w)' = Output(w) /\ ~Running(w)'
      /\ \A T : Has(op[w].dst, T, Output(w))' <=> Has(op[w].dst, T, Output(w))
  BY <1>1, <1>2 DEF SameOp, Gone, Layouts, Output, Running, Has, Exists, Endings
<1>4. FreshOK(w)' /\ PackedOK(w)' /\ PublishingOK(w)'
  BY <1>2, <1>3 DEF FreshOK, PackedOK, PublishingOK, SameOp, At
<1>5. op[w].res = "none" /\ faults \in Nat
  BY <1>2, FileAssumption DEF Running, Typed, RestOK
<1>6. WrittenOK(w)'
  BY <1>2, <1>3, <1>5 DEF TempsLeft, WrittenOK, SameOp, Exists, Moving
<1>7. DiscardedOK(w)'
  BY <1>1, <1>2, <1>3, <1>5 DEF TempsLeft, DiscardedOK, SameOp, CallInv, CallOK
<1>8. PublishedOK(w)'
  BY <1>1, <1>2, <1>3, <1>5 DEF TempsLeft, PublishedOK, SameOp
<1>9. CompleteOK(w)'
  <2>1. SUFFICES ASSUME op[w].act = "split", res = "ok"
                 PROVE  /\ op[w].at = "publish"
                        /\ Alone(w)' => \E T \in Layouts(w) : Has(op[w].dst, T, Output(w))
    BY <1>2, <1>3 DEF CompleteOK, At, SameOp
  <2>2. call[w].at = "done" /\ op[w].at = "publish"
    BY <1>1, <1>2, <2>1 DEF CallInv, CallOK, StageInv, StageOK, Conversions, ConversionStages
  <2>3. Alone(w)' => Alone(w)
    <3>1. Next
      BY NextIsBy, StepKinds DEF NextBy, Calling
    <3>2. QED
      BY <1>2, <2>1, <3>1, WasAlone DEF SameOp
  <2>4. QED
    BY <1>2, <2>1, <2>2, <2>3 DEF TempsLeft, CompleteOK, At
<1>10. QED
  BY <1>4, <1>6, <1>7, <1>8, <1>9 DEF TempsLeft

\* The beginning of the renames, or of a clean-up.
LEMMA PublishLeft ==
  ASSUME Typed, StageInv, CallInv, MoveInv, UsedInv, NEW w \in Writer, PublishOutput(w), TempsLeft(w)
  PROVE  TempsLeft(w)'
<1>1. At(w, "publish") /\ call[w].at = "idle" /\ op[w].res = "none"
  BY DEF PublishOutput, Publish, At, Running
<1>2. PICK T \in Layouts(w) : Has(w, T, Output(w))
  BY <1>1 DEF TempsLeft, PackedOK
<1>3. /\ call'[w].at = "rename" /\ call'[w].all /\ op' = op /\ disk' = disk
      /\ MovesOf(w, T)' /\ \A t \in Tags : Due(w, t)' <=> t \in T
  BY <1>2, PublishMoves
<1>4. Layouts(w)' = Layouts(w) /\ Output(w)' = Output(w)
  BY <1>3 DEF Layouts, Output
<1>5. StillThere(w)'
  BY <1>2, <1>3, <1>4 DEF StillThere, Has, Exists
<1>6. ASSUME Alone(w)'
      PROVE  Arrived(w, T)'
  <2>1. op[w].act = "split" /\ op[w].dst \in {"dir", "dir1"} /\ Alone(w)
    BY <1>3, <1>6 DEF Alone, StageInv, StageOK
  <2>2. ASSUME NEW t \in Tags, Exists(Named(op[w].dst, t))
        PROVE  FALSE
    <3>1. PICK u \in Writer : /\ op[u].act = "split" /\ op[u].dst = op[w].dst
                              /\ call[u].at # "idle" \/ op[u].res # "none"
      BY <2>1, <2>2 DEF UsedInv
    <3>2. u \in Writer \ {w} /\ op[u].act = "split"
      BY <1>1, <3>1
    <3>3. op[u].dst # op[w].dst
      BY <2>1, <3>2 DEF Alone
    <3>4. QED
      BY <3>1, <3>3
  <2>3. QED
    BY <1>3, <2>2 DEF Arrived, Exists
<1>7. PublishingOK(w)'
  BY <1>2, <1>3, <1>4, <1>5, <1>6 DEF PublishingOK
<1>8. QED
  BY <1>1, <1>3, <1>7 DEF TempsLeft, FreshOK, WrittenOK, DiscardedOK, PackedOK, PublishedOK, CompleteOK, At, Running,
     Endings

\* A compression that did not succeed.
LEMMA DiscardLeft ==
  ASSUME Typed, StageInv, MoveInv, NEW w \in Writer, DiscardOutput(w), TempsLeft(w)
  PROVE  TempsLeft(w)'
<1>1. /\ At(w, "discard") /\ op' = op /\ op[w].res = "none"
      /\ call'[w].at = "cleanup" /\ call'[w].all
  BY DEF DiscardOutput, Discard, At, Running, Typed, CallsOK
<1>2. QED
  BY <1>1 DEF TempsLeft, FreshOK, WrittenOK, DiscardedOK, PackedOK, PublishingOK, PublishedOK, CompleteOK, At, Endings

\* What every step of a file call has in common.
LEMMA FileFacts ==
  ASSUME Typed, StageInv, CallInv, MoveInv, NEW w \in Writer, FileStep(w)
  PROVE  /\ op' = op /\ Running(w) /\ op[w].res = "none" /\ op[w].act # "none"
         /\ op[w].at \in {"write", "publish", "discard"}
         /\ op[w].at = "discard" => call[w].at = "cleanup"
         /\ call[w].at # "idle" /\ call'[w].all = call[w].all
         /\ Layouts(w)' = Layouts(w) /\ Output(w)' = Output(w)
         /\ Running(w)' /\ (Alone(w)' <=> Alone(w))
         /\ faults \in Nat /\ faults' \in Nat /\ faults' >= faults
<1>1. op' = op /\ call[w].at \in Moving \cup {"cleanup"}
  BY DEF FileStep, CallStep, RenameOk, RenameFails, UnlinkDestination, RetryOk, RetryFails, CleanupCall, Moving
<1>2. /\ Running(w) /\ op[w].at \in {"write", "publish", "discard"}
      /\ op[w].at = "discard" => call[w].at = "cleanup"
  BY <1>1 DEF CallInv, CallOK, Moving
<1>3. call'[w].all = call[w].all
  BY DEF FileStep, CallStep, RenameOk, RenameFails, UnlinkDestination, RetryOk, RetryFails, CleanupCall, MoveDone,
     Typed, CallsOK, CallRecord
<1>4. Layouts(w)' = Layouts(w) /\ Output(w)' = Output(w) /\ Running(w)' /\ (Alone(w)' <=> Alone(w))
  BY <1>1, <1>2 DEF Layouts, Output, Running, Alone
<1>5. faults \in Nat /\ faults' \in {faults, faults + 1}
  <2>1. Frame(w)
    BY NextByTyped, StepKinds DEF NextBy, Calling
  <2>2. QED
    BY <2>1, FileAssumption DEF Frame, Typed, RestOK
<1>6. QED
  BY <1>1, <1>2, <1>3, <1>4, <1>5 DEF Running, Moving

\* A failed rename, and the removal of what is in its way, take nothing of the
\* writer's, nor what it has put in the folder.
LEMMA StuckLeft ==
  ASSUME Typed, StageInv, CallInv, MoveInv, NEW w \in Writer, FileStep(w), TempsLeft(w),
         RenameFails(w) \/ UnlinkDestination(w) \/ RetryFails(w)
  PROVE  TempsLeft(w)'
<1>1. /\ op' = op /\ Running(w) /\ op[w].res = "none"
      /\ op[w].at \in {"write", "publish", "discard"}
      /\ op[w].at = "discard" => call[w].at = "cleanup"
      /\ call[w].at # "idle" /\ call'[w].all = call[w].all
      /\ Layouts(w)' = Layouts(w) /\ Output(w)' = Output(w)
      /\ Running(w)' /\ (Alone(w)' <=> Alone(w))
      /\ faults \in Nat /\ faults' \in Nat /\ faults' >= faults
  BY FileFacts
<1>2. /\ call[w].at \in Moving /\ call'[w].at \in {"unlink", "retry", "cleanup"}
      /\ call'[w].todo = call[w].todo
      /\ call'[w].at = "cleanup" => faults >= 1
  BY DEF RenameFails, UnlinkDestination, RetryFails, Moving, Typed, CallsOK, CallRecord, CallInv, CallOK
<1>3. op[w].at \in {"write", "publish"}
  BY <1>1, <1>2 DEF Moving
<1>4. /\ disk \in [Paths -> Content \cup {Absent}]
      /\ disk' = disk \/ disk' = Removed(disk, {Next1(w).dst})
  BY DEF RenameFails, UnlinkDestination, RetryFails, Typed, Disks
<1>5. \A p \in Paths : p # Next1(w).dst => disk'[p] = disk[p]
  BY <1>4 DEF Removed
<1>6. \A p \in TempFiles(w) : disk'[p] = disk[p]
  BY <1>2, <1>5, NextMove, PathSets
<1>7. /\ \A t : Due(w, t)' <=> Due(w, t)
      /\ \A T : MovesOf(w, T)' <=> MovesOf(w, T)
  BY <1>1, <1>2 DEF Due, MovesOf
<1>8. WrittenOK(w)'
  BY <1>1, <1>2, <1>6 DEF TempsLeft, WrittenOK, Moving, Exists
<1>9. PublishingOK(w)'
  <2>1. SUFFICES ASSUME At(w, "publish")
                 PROVE  \E T \in Layouts(w) : MovesOf(w, T) /\ StillThere(w)' /\ (Alone(w) => Arrived(w, T)')
    BY <1>1, <1>7 DEF PublishingOK, At
  <2>2. PICK T \in Layouts(w) : MovesOf(w, T) /\ StillThere(w) /\ (Alone(w) => Arrived(w, T))
    BY <1>2, <2>1 DEF TempsLeft, PublishingOK
  <2>3. T \subseteq Tags
    BY LayoutTags
  <2>4. StillThere(w)'
    <3>1. \A t \in Tags : disk'[Named(w, t)] = disk[Named(w, t)]
      BY <1>6, NamedPaths
    <3>2. QED
      BY <1>1, <1>7, <2>2, <3>1 DEF StillThere, Exists
  <2>5. ASSUME Alone(w)
        PROVE  Arrived(w, T)'
    <3>1. op[w].act = "split" /\ op[w].dst \in SetStem /\ Arrived(w, T)
      BY <2>2, <2>5 DEF Alone, Typed, OpsOK
    <3>2. 1 \in 1 .. Len(call[w].todo) /\ Next1(w) = call[w].todo[1]
      <4>1. call[w].todo \in Seq(Rename) /\ call[w].todo # <<>>
        BY <1>2 DEF Typed, CallsOK, CallRecord
      <4>2. QED
        BY <1>2, <4>1, NextMove, EmptySeq
    <3>3. PICK t0 \in T : Next1(w) = [src |-> Named(w, t0), dst |-> Named(op[w].dst, t0)]
      BY <2>2, <3>2 DEF MovesOf
    <3>4. Due(w, t0) /\ Next1(w).dst = Named(op[w].dst, t0)
      <4>1. call[w].todo[1].src = Named(w, t0) /\ Next1(w).dst = Named(op[w].dst, t0)
        BY <3>2, <3>3
      <4>2. QED
        BY <3>2, <4>1 DEF Due
    <3>5. ASSUME NEW t \in Tags, t # t0
          PROVE  disk'[Named(op[w].dst, t)] = disk[Named(op[w].dst, t)]
      <4>1. Named(op[w].dst, t) # Named(op[w].dst, t0)
        BY <2>3, <3>5, NamedFiles
      <4>2. Named(op[w].dst, t) \in Paths
        BY <3>1, NamedPaths, FileAssumption
      <4>3. QED
        BY <1>5, <3>4, <4>1, <4>2
    <3>6. ASSUME NEW t \in Tags
          PROVE  IF t \in T THEN Due(w, t)' \/ disk'[Named(op[w].dst, t)] = Output(w)
                            ELSE disk'[Named(op[w].dst, t)] = Absent
      <4>1. IF t \in T THEN Due(w, t) \/ disk[Named(op[w].dst, t)] = Output(w)
                       ELSE disk[Named(op[w].dst, t)] = Absent
        BY <3>1 DEF Arrived, Exists
      <4>2. CASE t = t0
        BY <1>7, <3>4, <4>2
      <4>3. CASE t # t0
        BY <1>7, <3>5, <4>1, <4>3
      <4>4. QED
        BY <4>2, <4>3
    <3>7. QED
      BY <1>1, <3>6 DEF Arrived, Exists
  <2>6. QED
    BY <2>2, <2>4, <2>5
<1>10. QED
  BY <1>1, <1>2, <1>3, <1>8, <1>9 DEF TempsLeft, FreshOK, DiscardedOK, PackedOK, PublishedOK, CompleteOK, At, Endings

\* A rename.
LEMMA MovedLeft ==
  ASSUME Typed, StageInv, CallInv, MoveInv, NEW w \in Writer, FileStep(w), TempsLeft(w),
         RenameOk(w) \/ RetryOk(w)
  PROVE  TempsLeft(w)'
<1>1. /\ op' = op /\ Running(w) /\ op[w].res = "none"
      /\ op[w].at \in {"write", "publish", "discard"}
      /\ op[w].at = "discard" => call[w].at = "cleanup"
      /\ call[w].at # "idle" /\ call'[w].all = call[w].all
      /\ Layouts(w)' = Layouts(w) /\ Output(w)' = Output(w)
      /\ Running(w)' /\ (Alone(w)' <=> Alone(w))
  BY FileFacts
<1>2. MoveDone(w) /\ call[w].at \in Moving /\ op[w].at \in {"write", "publish"}
  BY <1>1 DEF RenameOk, RetryOk, Moving
<1>3. call'[w].at \in {"done", "rename"}
  BY <1>2 DEF MoveDone, Typed, CallsOK, CallRecord
<1>4. CASE op[w].at = "write"
  <2>1. op[w].dst = "arc"
    BY <1>1, <1>4 DEF StageInv, StageOK, ConversionStages, Conversions
  <2>2. Next1(w).src = File(w) /\ Next1(w).dst \in Paths /\ Next1(w).dst \notin TempFiles(w)
    BY <1>2, <2>1, NextMove
  <2>3. /\ disk \in [Paths -> Content \cup {Absent}] /\ File(w) \in TempFiles(w) /\ TempFiles(w) \subseteq Paths
    BY PathSets DEF Typed, Disks
  <2>4. \A p \in TempFiles(w) : disk'[p] # Absent => p = File(w) \/ disk[p] # Absent
    BY <1>2, <2>2, <2>3 DEF MoveDone, Renamed
  <2>5. disk'[File(w)] = Absent
    BY <1>2, <2>2, <2>3 DEF MoveDone, Renamed
  <2>6. ~ \E p \in TempFiles(w) : Exists(p)'
    BY <1>4, <2>4, <2>5 DEF TempsLeft, WrittenOK, Exists
  <2>7. QED
    BY <1>1, <1>3, <1>4, <2>6 DEF TempsLeft, FreshOK, WrittenOK, DiscardedOK, PackedOK, PublishingOK, PublishedOK,
       CompleteOK, At
<1>5. CASE op[w].at = "publish"
  <2>1. PICK T \in Layouts(w) : MovesOf(w, T) /\ StillThere(w) /\ (Alone(w) => Arrived(w, T))
    BY <1>1, <1>2, <1>5 DEF TempsLeft, PublishingOK, At
  <2>2. /\ MovesOf(w, T)' /\ StillThere(w)'
        /\ op[w].act = "split" /\ Arrived(w, T) => Arrived(w, T)'
        /\ call'[w].at = "done" => \A t \in Tags : ~Due(w, t)'
    BY <1>1, <1>2, <1>5, <2>1, MovedOn DEF At
  <2>3. Alone(w)' => Arrived(w, T)'
    BY <1>1, <2>1, <2>2 DEF Alone
  <2>4. PublishingOK(w)'
    BY <1>1, <2>1, <2>2, <2>3 DEF PublishingOK
  <2>5. ASSUME call'[w].at = "done"
        PROVE  Gone(w)'
    <3>1. \A t \in Tags : ~Exists(Named(w, t))'
      BY <2>2, <2>5 DEF StillThere
    <3>2. QED
      BY <3>1, NamedFiles DEF Gone
  <2>6. ASSUME call'[w].at = "done", Alone(w)'
        PROVE  \E U \in Layouts(w)' : Has(op[w].dst, U, Output(w))'
    <3>1. Has(op[w].dst, T, Output(w))'
      BY <1>1, <2>2, <2>3, <2>6 DEF Arrived, Has
    <3>2. QED
      BY <1>1, <3>1
  <2>7. PublishedOK(w)' /\ CompleteOK(w)'
    BY <1>1, <1>3, <1>5, <2>5, <2>6 DEF PublishedOK, CompleteOK
  <2>8. QED
    BY <1>1, <1>3, <1>5, <2>4, <2>7 DEF TempsLeft, FreshOK, WrittenOK, DiscardedOK, PackedOK, At
<1>6. QED
  BY <1>2, <1>4, <1>5

\* The removal of what the call has written.
LEMMA CleanedLeft ==
  ASSUME Typed, StageInv, CallInv, MoveInv, NEW w \in Writer, FileStep(w), TempsLeft(w), CleanupCall(w)
  PROVE  TempsLeft(w)'
<1>1. /\ op' = op /\ Running(w) /\ op[w].res = "none"
      /\ op[w].at \in {"write", "publish", "discard"}
      /\ call[w].at # "idle" /\ call'[w].all = call[w].all
      /\ Running(w)'
      /\ faults \in Nat /\ faults' \in Nat /\ faults' >= faults
  BY FileFacts
<1>2. call[w].at = "cleanup" /\ call'[w].at = "failed"
  BY DEF CleanupCall, Typed, CallsOK, CallRecord
<1>3. /\ disk \in [Paths -> Content \cup {Absent}] /\ File(w) \in TempFiles(w) /\ TempFiles(w) \subseteq Paths
  BY PathSets DEF Typed, Disks
<1>4. CASE faults' = faults + 1 /\ disk' = disk
  <2>1. WrittenOK(w)'
    BY <1>1, <1>2, <1>4 DEF TempsLeft, WrittenOK, Exists
  <2>2. QED
    BY <1>1, <1>2, <1>4, <2>1 DEF TempsLeft, FreshOK, DiscardedOK, PackedOK, PublishingOK, PublishedOK,
       CompleteOK, At, Moving
<1>5. CASE disk' = Removed(disk, IF call[w].all THEN TempFiles(w) ELSE {File(w)}) /\ faults' = faults
  <2>1. \A p \in TempFiles(w) : Exists(p)' => ~call[w].all /\ p # File(w) /\ Exists(p)
    BY <1>3, <1>5 DEF Removed, Exists
  <2>2. WrittenOK(w)'
    BY <1>1, <1>2, <2>1 DEF TempsLeft, WrittenOK
  <2>3. op[w].at # "write" => Gone(w)'
    BY <1>1, <2>1 DEF TempsLeft, DiscardedOK, Gone
  <2>4. QED
    BY <1>1, <1>2, <1>5, <2>2, <2>3 DEF TempsLeft, FreshOK, DiscardedOK, PackedOK, PublishingOK, PublishedOK,
       CompleteOK, At, Moving
<1>6. QED
  BY <1>4, <1>5 DEF CleanupCall, Fault

-----------------------------------------------------------------------------
(* The theorems                                                            *)

\* Every operation's temporary files, after any step of anyone.
LEMMA LeftStep ==
  ASSUME IInv, LeftInv, UsedInv, Next
  PROVE  LeftInv'
<1>1. Typed /\ StageInv /\ CallInv /\ MoveInv
  BY DEF IInv
<1>2. CASE Crash
  BY <1>1, <1>2, CrashLeft DEF LeftInv
<1>3. ASSUME NEW w \in Writer, NextBy(w), NEW v \in Writer
      PROVE  TempsLeft(v)'
  <2>1. CASE v # w
    BY <1>1, <1>3, <2>1, OthersLeft DEF LeftInv
  <2>2. CASE v = w
    <3>1. TempsLeft(w)
      BY DEF LeftInv
    <3>2. CASE Cancel(w)
      BY <1>1, <2>2, <3>1, <3>2, CancelLeft
    <3>3. ASSUME NEW act \in Acts[w], Start(w, act)
          PROVE  TempsLeft(w)'
      BY <1>1, <3>1, <3>3, StartLeft
    <3>4. CASE Rest1(w) \/ Rest2(w) \/ Rest3(w)
      BY <1>1, <2>2, <3>1, <3>4, QuietLeft, PackLeft
    <3>5. CASE Calling(w)
      <4>1. CASE WriteBack(w)
        BY <1>1, <2>2, <3>1, <4>1, WriteLeft
      <4>2. CASE CallReturns(w)
        BY <1>1, <2>2, <3>1, <4>2, ReturnLeft
      <4>3. CASE PublishOutput(w)
        BY <1>1, <2>2, <3>1, <4>3, PublishLeft
      <4>4. CASE DiscardOutput(w)
        BY <1>1, <2>2, <3>1, <4>4, DiscardLeft
      <4>5. CASE FileStep(w)
        BY <1>1, <2>2, <3>1, <4>5, StuckLeft, MovedLeft, CleanedLeft DEF FileStep, CallStep
      <4>6. QED
        BY <3>5, <4>1, <4>2, <4>3, <4>4, <4>5 DEF Calling
    <3>6. QED
      BY <1>3, <2>2, <3>2, <3>3, <3>4, <3>5, StepKinds DEF NextBy
  <2>3. QED
    BY <2>1, <2>2
<1>4. QED
  BY <1>2, <1>3, NextIsBy DEF LeftInv

\* A split that has come to its renames does not go back.
LEMMA UsedStep ==
  ASSUME IInv, UsedInv, Next
  PROVE  UsedInv'
<1>1. Typed /\ StageInv /\ CallInv /\ MoveInv
  BY DEF IInv
<1> DEFINE Used(v, d) == /\ op[v].act = "split" /\ op[v].dst = d /\ op[v].at = "publish"
                         /\ call[v].at # "idle" \/ op[v].res # "none"
<1>2. SUFFICES ASSUME NEW d \in {"dir", "dir1"}, NEW t \in Tags, Exists(Named(d, t))'
               PROVE  \E v \in Writer : Used(v, d)'
  BY DEF UsedInv
<1>3. ASSUME NEW v \in Writer, Used(v, d)
      PROVE  Used(v, d)'
  <2>1. CASE Crash
    <3>1. op[v].act # "none"
      BY <1>3
    <3>2. op'[v].res # "none"
      BY <1>1, <2>1, <3>1, CrashEffect DEF Running
    <3>3. QED
      BY <1>1, <1>3, <2>1, <3>2, CrashEffect
  <2>2. ASSUME NEW w \in Writer, NextBy(w), v # w
        PROVE  Used(v, d)'
    BY <1>1, <1>3, <2>2, NextByTyped, OthersKept
  <2>3. ASSUME NextBy(v)
        PROVE  Used(v, d)'
    <3>1. ASSUME NEW act \in Acts[v], Start(v, act)
          PROVE  FALSE
      BY <1>3, <3>1 DEF Start
    <3>2. CASE Cancel(v)
      BY <1>1, <1>3, <3>2, CancelEffect DEF fileVars
    <3>3. CASE Rest1(v) \/ Rest2(v) \/ Rest3(v)
      BY <1>1, <1>3, <3>3, RestOfCall
    <3>4. CASE WriteBack(v) \/ DiscardOutput(v)
      BY <1>3, <3>4 DEF WriteBack, DiscardOutput, At
    <3>5. CASE PublishOutput(v)
      BY <1>3, <3>5 DEF PublishOutput, Publish, At, Running
    <3>6. CASE CallReturns(v)
      <4>1. PICK res \in Endings : End(v, res)
        BY <3>6 DEF CallReturns, Endings
      <4>2. SameOp(v) /\ op'[v].res = res
        BY <1>1, <4>1, SameOps DEF Endings, Results
      <4>3. QED
        BY <1>3, <4>2 DEF SameOp, Endings
    <3>7. CASE FileStep(v)
      <4>1. op' = op
        BY <3>7 DEF FileStep
      <4>2. call'[v].at # "idle"
        BY <1>1, <3>7 DEF FileStep, CallStep, RenameOk, RenameFails, UnlinkDestination, RetryOk, RetryFails,
           CleanupCall, MoveDone, Typed, CallsOK, CallRecord
      <4>3. QED
        BY <1>3, <4>1, <4>2
    <3>8. QED
      BY <2>3, <3>1, <3>2, <3>3, <3>4, <3>5, <3>6, <3>7, StepKinds DEF NextBy, Calling
  <2>4. QED
    BY <2>1, <2>2, <2>3, NextIsBy
<1>4. CASE Exists(Named(d, t))
  <2>1. PICK v \in Writer : Used(v, d)
    BY <1>4 DEF UsedInv
  <2>2. QED
    BY <1>3, <2>1
<1>5. CASE ~Exists(Named(d, t))
  <2>1. disk'[Named(d, t)] # disk[Named(d, t)]
    BY <1>2, <1>5 DEF Exists
  <2>2. ~Crash
    BY <2>1 DEF Crash
  <2>3. PICK w \in Writer : NextBy(w)
    BY <2>2, NextIsBy
  <2>4. FileStep(w) /\ call[w].at \in Moving /\ op[w].act = "split" /\ op[w].dst = d
    BY <1>1, <2>1, <2>3, FolderFiles
  <2>5. op[w].at = "publish"
    BY <1>1, <2>4 DEF CallInv, CallOK, StageInv, StageOK, Conversions, ConversionStages
  <2>6. Used(w, d)
    BY <2>4, <2>5 DEF Moving
  <2>7. QED
    BY <1>3, <2>6
<1>6. QED
  BY <1>4, <1>5

\* The invariant holds before anything has started.
LEMMA FilesInitial == Init => FInv
<1> SUFFICES ASSUME Init
             PROVE  FInv
  OBVIOUS
<1>1. IInv /\ Typed
  BY Initial DEF IInv
<1>2. \A p \in Paths : p # Arc => ~Exists(p)
  BY DEF Init, Exists
<1>3. \A w \in Writer : /\ op[w] = NoOp /\ TempFiles(w) \subseteq Paths /\ Work(w) \in Paths
                        /\ Arc \notin TempFiles(w) /\ Work(w) # Arc
  BY PathSets, Disjoint DEF Init
<1>4. WorkInv
  BY <1>2, <1>3 DEF WorkInv, WorkOK
<1>5. LeftInv
  <2>1. \A w \in Writer : Gone(w)
    BY <1>2, <1>3 DEF Gone
  <2>2. QED
    BY <1>3, <2>1 DEF LeftInv, TempsLeft, FreshOK, WrittenOK, DiscardedOK, PackedOK, PublishingOK, PublishedOK,
       CompleteOK, At, NoOp
<1>6. UsedInv
  <2>1. ASSUME NEW d \in {"dir", "dir1"}, NEW t \in Tags
        PROVE  ~Exists(Named(d, t))
    <3>1. d \in Stem /\ d \in SetStem /\ d # "arc"
      BY EditAssumption
    <3>2. Named(d, t) \in Paths /\ Named(d, t)[1] = d
      BY <3>1, NamedPaths DEF Named
    <3>3. Named(d, t) # Arc
      BY <3>1, <3>2, Owners DEF Arc
    <3>4. QED
      BY <1>2, <3>2, <3>3
  <2>2. QED
    BY <2>1 DEF UsedInv
<1>7. QED
  BY <1>1, <1>4, <1>5, <1>6 DEF FInv

\* Every step keeps the invariant.
LEMMA FilesKept == FInv /\ [Next]_vars => FInv'
<1>1. ASSUME FInv, Next
      PROVE  FInv'
  <2>1. IInv /\ WorkInv /\ LeftInv /\ UsedInv
    BY <1>1 DEF FInv
  <2>2. WorkInv'
    BY <1>1, <2>1, WorkStep DEF IInv
  <2>3. IInv' /\ LeftInv' /\ UsedInv'
    BY <1>1, <2>1, Kept, LeftStep, UsedStep
  <2>4. QED
    BY <2>2, <2>3 DEF FInv
<1>2. ASSUME FInv, UNCHANGED vars
      PROVE  FInv'
  <2>1. IInv /\ WorkInv /\ LeftInv /\ UsedInv
    BY <1>2 DEF FInv
  <2>2. IInv'
    BY <1>2, <2>1, Stutters
  <2>3. op' = op /\ call' = call /\ disk' = disk /\ faults' = faults
    BY <1>2 DEF vars, fileVars
  <2>4. WorkInv'
    BY <2>1, <2>3 DEF WorkInv, WorkOK, Running, Exists
  <2>5. LeftInv'
    <3>1. ASSUME NEW w \in Writer
          PROVE  TempsLeft(w)'
      <4>1. TempsLeft(w)
        BY <2>1 DEF LeftInv
      <4>2. FreshOK(w)' /\ WrittenOK(w)' /\ DiscardedOK(w)' /\ PublishedOK(w)'
        BY <2>3, <4>1 DEF TempsLeft, FreshOK, WrittenOK, DiscardedOK, PublishedOK, Running, Gone, Exists
      <4>3. PackedOK(w)' /\ CompleteOK(w)'
        BY <2>3, <4>1 DEF TempsLeft, PackedOK, CompleteOK, At, Running, Layouts, Output, Has, Alone, Exists
      <4>4. PublishingOK(w)'
        <5>1. /\ Layouts(w)' = Layouts(w) /\ (At(w, "publish")' <=> At(w, "publish"))
              /\ (Alone(w)' <=> Alone(w)) /\ (StillThere(w)' <=> StillThere(w))
              /\ \A T : (MovesOf(w, T)' <=> MovesOf(w, T)) /\ (Arrived(w, T)' <=> Arrived(w, T))
          BY <2>3 DEF At, Running, Layouts, Output, Alone, MovesOf, StillThere, Arrived, Due, Exists
        <5>2. QED
          BY <2>3, <4>1, <5>1 DEF TempsLeft, PublishingOK
      <4>5. QED
        BY <4>2, <4>3, <4>4 DEF TempsLeft
    <3>2. QED
      BY <3>1 DEF LeftInv
  <2>6. UsedInv'
    BY <2>1, <2>3 DEF UsedInv, Exists
  <2>7. QED
    BY <2>2, <2>4, <2>5, <2>6 DEF FInv
<1>3. QED
  BY <1>1, <1>2

\* The invariant of this module holds throughout every behaviour: at each stage an
\* operation has on the disk exactly the temporary files that its code has written
\* and not yet renamed or removed.
THEOREM FilesInductive == Spec => []FInv
<1>1. Init => FInv
  BY FilesInitial
<1>2. FInv /\ [Next]_vars => FInv'
  BY FilesKept
<1>3. QED
  BY <1>1, <1>2, PTL DEF Spec

\* For any operations of any writers, in whatever order they come, are cancelled or
\* fail: one that has ended has taken its temporary files and its work directory
\* with it, unless the removal itself failed.
THEOREM NothingLeft == Spec => []NoLeftovers
<1>1. ASSUME FInv
      PROVE  NoLeftovers
  <2>1. SUFFICES ASSUME NEW w \in Writer, op[w].res \in Endings,
                        faults <= IF op[w].act \in Mutations THEN 1 ELSE 0
                 PROVE  Gone(w) /\ ~Exists(Work(w))
    BY DEF NoLeftovers, Gone, Endings
  <2>2. IInv /\ WorkOK(w) /\ TempsLeft(w)
    BY <1>1 DEF FInv, WorkInv, LeftInv
  <2>3. /\ ~Running(w) /\ op[w].res \notin {"none", "crashed"}
        /\ faults \in Nat /\ StageOK(w) /\ CallOK(w)
    BY <2>1, <2>2, FileAssumption DEF IInv, Typed, RestOK, StageInv, CallInv, Running, Endings
  <2>4. ~Exists(Work(w))
    BY <2>2, <2>3 DEF WorkOK
  <2>5. CASE op[w].at = "write"
    <3>1. faults <= 1
      BY <2>1, <2>3
    <3>2. QED
      BY <2>2, <2>3, <2>4, <2>5, <3>1 DEF TempsLeft, WrittenOK, Gone
  <2>6. CASE op[w].at \in {"publish", "discard"}
    <3>1. op[w].act \notin Mutations
      BY <2>3, <2>6 DEF StageOK, ConversionStages, Conversions, Mutations
    <3>2. faults = 0
      BY <2>1, <2>3, <3>1
    <3>3. QED
      BY <2>1, <2>2, <2>4, <2>6, <3>2 DEF TempsLeft, DiscardedOK, PublishedOK, Endings
  <2>7. CASE op[w].at \notin {"write", "publish", "discard"}
    BY <2>2, <2>4, <2>7 DEF TempsLeft, FreshOK
  <2>8. QED
    BY <2>4, <2>5, <2>6, <2>7
<1>2. QED
  BY <1>1, FilesInductive, PTL

\* For any number of volumes and writers, of either naming, and any failures and
\* crashes: a split that ends well and shared its folder with no other one has left
\* there what it wrote, one file or all the volumes counted from 1, and nothing else.
THEOREM SplitsComplete == Spec => []SetIsComplete
<1>1. ASSUME FInv
      PROVE  SetIsComplete
  <2>1. SUFFICES ASSUME NEW w \in Writer, op[w].act = "split", op[w].res = "ok", Alone(w),
                        NEW found, found = {p \in VolumesOf(op[w].dst) \cup {File(op[w].dst)} : Exists(p)}
                 PROVE  /\ \/ found = {File(op[w].dst)} /\ op[w].wrote = 1
                           \/ \E k \in {"num", "part"} :
                                found = {Volume(op[w].dst, k, i) : i \in 1 .. op[w].wrote}
                        /\ \A p \in found : disk[p] = Output(w)
    BY DEF SetIsComplete, Alone, Output
  <2> DEFINE dst == op[w].dst
  <2>2. CompleteOK(w) /\ Typed
    BY <1>1 DEF FInv, IInv, LeftInv, TempsLeft
  <2>3. PICK T \in Layouts(w) : Has(dst, T, Output(w))
    BY <2>1, <2>2 DEF CompleteOK
  <2>4. T \subseteq Tags
    BY LayoutTags
  <2>5. Output(w) # Absent
    BY <1>1, <2>1, <2>2, OutputIs DEF CompleteOK, FInv, IInv
  <2>6. VolumesOf(dst) \cup {File(dst)} = {Named(dst, t) : t \in Tags}
    BY NamedFiles DEF TempFiles
  <2>7. found = {Named(dst, t) : t \in T}
    BY <2>1, <2>3, <2>4, <2>5, <2>6 DEF Has, Exists
  <2>8. \A p \in found : disk[p] = Output(w)
    BY <2>3, <2>4, <2>7 DEF Has
  <2>9. CASE T = {Single} /\ op[w].wrote = 1
    BY <2>7, <2>8, <2>9, NamedFiles
  <2>10. ASSUME NEW k \in {"num", "part"}, T = Row(k, op[w].wrote)
         PROVE  found = {Volume(dst, k, i) : i \in 1 .. op[w].wrote}
    <3>1. \A i : Named(dst, <<k, i>>) = Volume(dst, k, i)
      BY DEF Named, Volume
    <3>2. found = {Named(dst, t) : t \in Row(k, op[w].wrote)}
      BY <2>7, <2>10
    <3>3. QED
      BY <3>1, <3>2 DEF Row
  <2>11. QED
    BY <2>3, <2>8, <2>9, <2>10 DEF Layouts
<1>2. QED
  BY <1>1, FilesInductive, PTL
=============================================================================
