---------------------------- MODULE PreviewCache ----------------------------
(***************************************************************************)
(* The persistent cache of single-file previews (providers/previewCache.ts)*)
(* and its user previewFileFromArchive (providers/archive/modify.ts): the  *)
(* cache directory with its hard links, index.json, concurrent previews of *)
(* one extension host, the sweep, and a host that may die between any two  *)
(* steps on disk.                                                          *)
(*                                                                         *)
(* The host is single-threaded.  A preview whose pc is in SyncPcs, or a    *)
(* sweep in progress, holds the thread until its next await; the steps are *)
(* only separate because the host may crash between them.                  *)
(***************************************************************************)
EXTENDS Naturals, FiniteSets

CONSTANTS
  Archives,     \* archives whose (one) file is previewed
  Movable,      \* bound: those that may be moved away, and back
  MaxVersion,   \* bound: the last version of each archive
  Content,      \* the bytes of that file in each version of each archive
  Contents,     \* all such bytes
  Calls,        \* previews that may be in progress at the same time
  Engines,      \* "system7z": extracted by the host, "worker": by a thread
  IndexCap,     \* how many records fit in INDEX_MAX_BYTES
  Faults        \* "crash": the host may die, "write": a write may fail

\* Cache file names, sha256(archive|stat|file): one per archive and stat.
Names == UNION {{a} \X (1 .. MaxVersion[a]) : a \in Archives}
SomeName == CHOOSE n \in Names : TRUE   \* the key of an idle preview
Inodes == 1 .. Cardinality(Names) + 1
NoFile == 0
Zero == "zero"                  \* bytes overwritten by secureUnlink
NoHash == "none"                \* no record in the index

ASSUME CacheAssumption ==
  /\ Archives # {} /\ IsFiniteSet(Archives) /\ Movable \subseteq Archives
  /\ MaxVersion \in [Archives -> Nat \ {0}]
  /\ Content \in [Names -> Contents]
  /\ Zero \notin Contents /\ NoHash \notin Contents
  /\ Engines \subseteq {"system7z", "worker"}
  /\ IndexCap \in Nat \ {0}
  /\ Faults \subseteq {"crash", "write"}

VARIABLES
  version,   \* what stat() says of each archive
  present,   \* whether it is there
  dir,       \* the cache directory: the inode of each name
  bytes,     \* the content of each inode
  index,     \* index.json: content hash per name; no record, no file
  staged,    \* the session's staging file of each preview
  watched,   \* the staging files that go when their tab is closed
  pc,        \* where each preview is
  key,       \* its cache file
  data,      \* the bytes it extracted
  snap,      \* its copy of the index, read before the await
  sweep,     \* where the sweep is
  sweepSnap, \* the sweep's copy of the index
  dirty      \* the sweep's copy has to be written

archiveVars == <<version, present>>
diskVars == <<dir, bytes, index>>
callVars == <<pc, key, data, snap>>
sweepVars == <<sweep, sweepSnap, dirty>>
stagingVars == <<staged, watched>>
vars == <<archiveVars, diskVars, stagingVars, callVars, sweepVars>>

Hashes == Contents \cup {NoHash}
Indexes == [Names -> Hashes]
EmptyIndex == [n \in Names |-> NoHash]
SyncPcs == {"promote", "reclaim", "reclaimIndex", "dedup", "linkIndex", "promoted", "open", "openStaged"}

TypeOK ==
  /\ version \in [Archives -> Nat] /\ \A a \in Archives : version[a] \in 1 .. MaxVersion[a]
  /\ present \in [Archives -> BOOLEAN]
  /\ dir \in [Names -> Inodes \cup {NoFile}]
  /\ bytes \in [Inodes -> Contents \cup {Zero}]
  /\ index \in Indexes
  /\ staged \in [Names -> Hashes]
  /\ watched \subseteq Names
  /\ pc \in [Calls -> {"idle", "extract", "staged", "write", "renamed"} \cup SyncPcs]
  /\ key \in [Calls -> Names]
  /\ data \in [Calls -> Hashes]
  /\ snap \in [Calls -> Indexes]
  /\ sweep \in {"no", "read", "files", "merge", "index"}
  /\ sweepSnap \in Indexes
  /\ dirty \in BOOLEAN

Init ==
  /\ version = [a \in Archives |-> 1]
  /\ present = [a \in Archives |-> TRUE]
  /\ dir = [n \in Names |-> NoFile]
  /\ bytes = [i \in Inodes |-> Zero]
  /\ index = EmptyIndex
  /\ staged = [n \in Names |-> NoHash]
  /\ watched = {}
  /\ pc = [c \in Calls |-> "idle"]
  /\ key = [c \in Calls |-> SomeName]
  /\ data = [c \in Calls |-> NoHash]
  /\ snap = [c \in Calls |-> EmptyIndex]
  /\ sweep = "no"
  /\ sweepSnap = EmptyIndex
  /\ dirty = FALSE

-----------------------------------------------------------------------------
(* The disk                                                                *)

Files == {n \in Names : dir[n] # NoFile}
Bytes(n) == bytes[dir[n]]
Recorded(ix) == {n \in Names : ix[n] # NoHash}

\* originMatches: the archive is there and its stat is the recorded one.
Live(n) == present[n[1]] /\ version[n[1]] = n[2]

\* readIndex(): writeIndex() removes an empty index, and one beyond the size
\* cap is not parsed; both read as empty and not usable.
Readable == Cardinality(Recorded(index)) \in 1 .. IndexCap
ReadIndex == IF Readable THEN index ELSE EmptyIndex
Usable(ix) == ix # EmptyIndex

\* secureUnlink(): the inode is overwritten before its name goes, so every
\* other name of that inode has the zeros too.
Unlinked(S) ==
  /\ dir' = [n \in Names |-> IF n \in S THEN NoFile ELSE dir[n]]
  /\ bytes' = [i \in Inodes |-> IF \E n \in S : dir[n] = i THEN Zero ELSE bytes[i]]

\* An inode for a new file, the inodes of no name being blank.
Fresh(i) == i \in Inodes /\ \A n \in Names : dir[n] # i

HostFree == sweep = "no" /\ \A c \in Calls : pc[c] \notin SyncPcs

\* The synchronous code of preview c goes on.
Runs(c, at) == pc[c] = at /\ sweep = "no"
Goto(c, at) == pc' = [pc EXCEPT ![c] = at]

-----------------------------------------------------------------------------
(* Archives: modified, deleted or moved away, and put back                 *)

Modify(a) ==
  /\ HostFree
  /\ present[a] /\ version[a] < MaxVersion[a]
  /\ version' = [version EXCEPT ![a] = @ + 1]
  /\ UNCHANGED <<present, diskVars, stagingVars, callVars, sweepVars>>

MoveAwayOrBack(a) ==
  /\ HostFree
  /\ a \in Movable
  /\ present' = [present EXCEPT ![a] = ~@]
  /\ UNCHANGED <<version, diskVars, stagingVars, callVars, sweepVars>>

-----------------------------------------------------------------------------
(* previewFileFromArchive                                                  *)

\* Mutant: the bytes are not hashed again.
TrustingHit(n) ==
  n \in Files /\ (ReadIndex[n] # NoHash \/ ~Usable(ReadIndex))

\* previewCacheHit(): the recorded hash decides; a file without a record is
\* served only if the index itself cannot be read.
Hit(n) ==
  /\ n \in Files
  /\ \/ ReadIndex[n] # NoHash /\ Bytes(n) = ReadIndex[n]
     \/ ~Usable(ReadIndex)

\* A hit changes nothing but the mtime of the file.  A miss extracts.
Preview(c, a) ==
  /\ HostFree
  /\ pc[c] = "idle"
  /\ present[a]
  /\ ~Hit(<<a, version[a]>>)
  /\ key' = [key EXCEPT ![c] = <<a, version[a]>>]
  /\ Goto(c, "extract")
  /\ UNCHANGED <<archiveVars, diskVars, stagingVars, data, snap, sweepVars>>

\* The bytes are those of the archive now; the name is that of its stat then.
Extracted(c) == Content[<<key[c][1], version[key[c][1]]>>]

\* 7-Zip has ended: the host writes the staging file unless there is one.
ExtractSystem(c) ==
  /\ HostFree
  /\ "system7z" \in Engines
  /\ pc[c] = "extract"
  /\ present[key[c][1]]
  /\ staged' = [staged EXCEPT ![key[c]] = IF @ = NoHash THEN Extracted(c) ELSE @]
  /\ Goto(c, "promote")
  /\ UNCHANGED <<archiveVars, diskVars, watched, key, data, snap, sweepVars>>

\* The worker writes the staging file itself; its reply comes later.
ExtractWorker(c) ==
  /\ "worker" \in Engines
  /\ pc[c] = "extract"
  /\ present[key[c][1]]
  /\ staged' = [staged EXCEPT ![key[c]] = Extracted(c)]
  /\ Goto(c, "staged")
  /\ UNCHANGED <<archiveVars, diskVars, watched, key, data, snap, sweepVars>>

WorkerReplies(c) ==
  /\ HostFree
  /\ pc[c] = "staged"
  /\ Goto(c, "promote")
  /\ UNCHANGED <<archiveVars, diskVars, stagingVars, key, data, snap, sweepVars>>

\* The archive is gone, the file too large, 7-Zip fails: so does the preview.
ExtractFails(c) ==
  /\ HostFree
  /\ pc[c] = "extract"
  /\ Goto(c, "idle")
  /\ key' = [key EXCEPT ![c] = SomeName]
  /\ UNCHANGED <<archiveVars, diskVars, stagingVars, data, snap, sweepVars>>

\* statSync and readFileSync of the staging file, then storePreviewCache.
Promote(c) ==
  /\ Runs(c, "promote")
  /\ staged[key[c]] # NoHash
  /\ data' = [data EXCEPT ![c] = staged[key[c]]]
  /\ snap' = [snap EXCEPT ![c] = ReadIndex]
  /\ Goto(c, "reclaim")
  /\ UNCHANGED <<archiveVars, diskVars, stagingVars, key, sweepVars>>

\* The staging file is gone: what is opened is the staging path all the same.
PromoteFails(c) ==
  /\ Runs(c, "promote")
  /\ staged[key[c]] = NoHash
  /\ Goto(c, "openStaged")
  /\ UNCHANGED <<archiveVars, diskVars, stagingVars, key, data, snap, sweepVars>>

-----------------------------------------------------------------------------
(* storePreviewCache                                                       *)

Orphans(ix) == {n \in Recorded(ix) : ~Live(n)}
Without(ix, S) == [n \in Names |-> IF n \in S THEN NoHash ELSE ix[n]]

\* reclaimOrphans(): the files first.
Reclaim(c) ==
  /\ Runs(c, "reclaim")
  /\ Unlinked(Orphans(snap[c]))
  /\ snap' = [snap EXCEPT ![c] = Without(@, Orphans(@))]
  /\ Goto(c, IF Orphans(snap[c]) = {} THEN "dedup" ELSE "reclaimIndex")
  /\ UNCHANGED <<archiveVars, index, stagingVars, key, data, sweepVars>>

ReclaimIndex(c) ==
  /\ Runs(c, "reclaimIndex")
  /\ index' = snap[c]
  /\ Goto(c, "dedup")
  /\ UNCHANGED <<archiveVars, dir, bytes, stagingVars, key, data, snap, sweepVars>>

Candidates(c) == {n \in Names : snap[c][n] = data[c]}

\* Mutant: the target is not hashed again before it is linked.
UnverifiedTarget(c, n) == n \in Candidates(c) /\ n \in Files /\ key[c] \notin Files

\* The first record with the same hash is tried; its file must be there with
\* those bytes, and linkSync fails if the new name exists.
LinkTarget(c, n) ==
  /\ n \in Candidates(c)
  /\ n \in Files /\ Bytes(n) = data[c]
  /\ key[c] \notin Files

Link(c) ==
  /\ Runs(c, "dedup")
  /\ \E n \in Names : LinkTarget(c, n) /\ dir' = [dir EXCEPT ![key[c]] = dir[n]]
  /\ snap' = [snap EXCEPT ![c][key[c]] = data[c]]
  /\ Goto(c, "linkIndex")
  /\ UNCHANGED <<archiveVars, bytes, index, stagingVars, key, data, sweepVars>>

\* A plain write: nothing to link, or the first candidate does not qualify.
StartWrite(c) ==
  /\ Runs(c, "dedup")
  /\ Candidates(c) = {} \/ \E n \in Candidates(c) : ~LinkTarget(c, n)
  /\ Goto(c, "write")
  /\ UNCHANGED <<archiveVars, diskVars, stagingVars, key, data, snap, sweepVars>>

\* The write and the rename of the temporary file, while the host goes on; one
\* that falls into synchronous code counts as the next event after it.
Rename(c) ==
  /\ HostFree
  /\ pc[c] = "write"
  /\ \E i \in Inodes :
       /\ Fresh(i) /\ \A j \in Inodes : Fresh(j) => i <= j
       /\ dir' = [dir EXCEPT ![key[c]] = i]
       /\ bytes' = [j \in Inodes |->
            IF j = i THEN data[c]
            ELSE IF \E n \in Names \ {key[c]} : dir[n] = j THEN bytes[j] ELSE Zero]
  /\ Goto(c, "renamed")
  /\ UNCHANGED <<archiveVars, index, stagingVars, key, data, snap, sweepVars>>

\* The write fails: the temporary file is removed and the staging file opened.
WriteFails(c) ==
  /\ HostFree
  /\ "write" \in Faults
  /\ pc[c] = "write"
  /\ Goto(c, "openStaged")
  /\ UNCHANGED <<archiveVars, diskVars, stagingVars, key, data, snap, sweepVars>>

\* writeIndex() and the throttled sweep at the end of both paths.
EndStore(c, ix) ==
  /\ index' = ix
  /\ Goto(c, "promoted")
  /\ sweep' \in {"no", "read"}

LinkIndex(c) ==
  /\ Runs(c, "linkIndex")
  /\ EndStore(c, snap[c])
  /\ UNCHANGED <<archiveVars, dir, bytes, stagingVars, key, data, snap, sweepSnap, dirty>>

\* Mutant: what is recorded is the hash of the file, read after the await.
StoreFileHash(c) ==
  /\ HostFree
  /\ pc[c] = "renamed"
  /\ snap' = [snap EXCEPT ![c][key[c]] = IF key[c] \in Files THEN Bytes(key[c]) ELSE NoHash]
  /\ EndStore(c, snap'[c])
  /\ UNCHANGED <<archiveVars, dir, bytes, stagingVars, key, data, sweepSnap, dirty>>

\* After the await: the record goes into the copy read before it.
StoreIndex(c) ==
  /\ HostFree
  /\ pc[c] = "renamed"
  /\ snap' = [snap EXCEPT ![c][key[c]] = data[c]]
  /\ EndStore(c, snap'[c])
  /\ UNCHANGED <<archiveVars, dir, bytes, stagingVars, key, data, sweepSnap, dirty>>

\* The promoted file is opened and the staging file removed.
Promoted(c) ==
  /\ Runs(c, "promoted")
  /\ staged' = [staged EXCEPT ![key[c]] = NoHash]
  /\ Goto(c, "open")
  /\ UNCHANGED <<archiveVars, diskVars, watched, key, data, snap, sweepVars>>

\* vscode.open, and a listener on the tab of a staging file.  The copies of
\* this preview are not used again.
Open(c) ==
  /\ pc[c] \in {"open", "openStaged"} /\ sweep = "no"
  /\ Goto(c, "idle")
  /\ watched' = IF pc[c] = "openStaged" THEN watched \cup {key[c]} ELSE watched
  /\ key' = [key EXCEPT ![c] = SomeName]
  /\ data' = [data EXCEPT ![c] = NoHash]
  /\ snap' = [snap EXCEPT ![c] = EmptyIndex]
  /\ UNCHANGED <<archiveVars, diskVars, staged, sweepVars>>

\* registerPreviewCleanup(): the tab of a staging file is closed;
CloseTab(n) ==
  /\ HostFree
  /\ n \in watched /\ staged[n] # NoHash
  /\ staged' = [staged EXCEPT ![n] = NoHash]
  /\ UNCHANGED <<archiveVars, diskVars, watched, callVars, sweepVars>>

\* after a while the listener is dropped.
StopWatching(n) ==
  /\ HostFree
  /\ n \in watched
  /\ watched' = watched \ {n}
  /\ UNCHANGED <<archiveVars, diskVars, staged, callVars, sweepVars>>

-----------------------------------------------------------------------------
(* sweepPreviewCache, clearPreviewCache, crashes                           *)

\* The daily timer.
StartSweep ==
  /\ HostFree
  /\ sweep' = "read"
  /\ UNCHANGED <<archiveVars, diskVars, stagingVars, callVars, sweepSnap, dirty>>

SweepRead ==
  /\ sweep = "read"
  /\ sweepSnap' = ReadIndex
  /\ dirty' = FALSE
  /\ sweep' = "files"
  /\ UNCHANGED <<archiveVars, diskVars, stagingVars, callVars>>

\* Mutant: files without a record wait for their TTL.
OrphansOnly(old) == {n \in Files : (sweepSnap[n] # NoHash /\ ~Live(n)) \/ n \in old}

\* What the sweep unlinks: orphans, untracked files beside a usable index, and
\* a set of files that are expired or beyond the budget.
Victims(old) ==
  {n \in Files : \/ sweepSnap[n] # NoHash /\ ~Live(n)
                 \/ sweepSnap[n] = NoHash /\ Usable(sweepSnap)
                 \/ n \in old}

\* Any files may be old, except one that was stored a moment ago: the budget
\* holds at least one file.
Aged == SUBSET (Files \ {key[c] : c \in {d \in Calls : pc[d] = "promoted"}})

SweepFiles ==
  /\ sweep = "files"
  /\ \E old \in Aged : Unlinked(Victims(old))
  /\ sweep' = "merge"
  /\ UNCHANGED <<archiveVars, index, stagingVars, callVars, sweepSnap, dirty>>

\* mergeDuplicates(), all contents having one size: with more than one inode
\* the tampered files are unlinked and files of equal bytes linked to one of
\* them.  Unlinking a copy that shares the inode of the kept one zeroes both.
Tampered == {n \in Files : sweepSnap[n] # NoHash /\ Bytes(n) # sweepSnap[n]}

\* Names of a tampered inode are hashed before or after its bytes are zeroed.
Sharing == {n \in Files : \E m \in Tampered : dir[m] = dir[n]}

\* keep[n] is the file of the group of n whose inode n ends up with.
Keeps(bad) ==
  {k \in [Files \ bad -> Files \ bad] :
     \A n, m \in Files \ bad : Bytes(k[n]) = Bytes(n) /\ (Bytes(m) = Bytes(n) => k[m] = k[n])}

Merge(bad, keep) ==
  /\ dir' = [n \in Names |-> IF n \in Files \ bad THEN dir[keep[n]] ELSE NoFile]
  /\ bytes' = [i \in Inodes |->
       IF \E n \in Files : dir[n] = i /\ (n \in bad \/ keep[n] # n) THEN Zero ELSE bytes[i]]
  /\ dirty' = (bad # {} \/ \E n \in Files \ bad : keep[n] # n)

SweepMerge ==
  /\ sweep = "merge"
  /\ IF Cardinality({dir[n] : n \in Files}) < 2
       THEN UNCHANGED <<dir, bytes, dirty>>
       ELSE \E late \in SUBSET Sharing : \E keep \in Keeps(Tampered \cup late) :
              Merge(Tampered \cup late, keep)
  /\ sweep' = "index"
  /\ UNCHANGED <<archiveVars, index, stagingVars, callVars, sweepSnap>>

\* pruneStaleIndexEntries() and the one write of the index.
SweepIndex ==
  /\ sweep = "index"
  /\ LET pruned == Without(sweepSnap, Names \ Files)
     IN index' = IF dirty \/ pruned # sweepSnap THEN pruned ELSE index
  /\ sweep' = "no"
  /\ sweepSnap' = EmptyIndex
  /\ dirty' = FALSE
  /\ UNCHANGED <<archiveVars, dir, bytes, stagingVars, callVars>>

\* clearPreviewCache(): the command, the update or the teardown.
Clear ==
  /\ HostFree
  /\ Unlinked(Files)
  /\ index' = EmptyIndex
  /\ UNCHANGED <<archiveVars, stagingVars, callVars, sweepVars>>

\* The host dies and is started again; the activation sweeps the cache.
Restart ==
  /\ "crash" \in Faults
  /\ pc' = [c \in Calls |-> "idle"]
  /\ key' = [c \in Calls |-> SomeName]
  /\ data' = [c \in Calls |-> NoHash]
  /\ snap' = [c \in Calls |-> EmptyIndex]
  /\ staged' = [n \in Names |-> NoHash]
  /\ watched' = {}
  /\ sweep' = "read"
  /\ sweepSnap' = EmptyIndex
  /\ dirty' = FALSE
  /\ UNCHANGED archiveVars

Crash == Restart /\ UNCHANGED diskVars

\* It dies in a loop of unlinks, some of them done.
CrashUnlinking ==
  /\ Restart
  /\ \/ \E c \in Calls : Runs(c, "reclaim") /\ \E S \in SUBSET Orphans(snap[c]) : Unlinked(S)
     \/ sweep = "files" /\ \E S \in SUBSET Victims(Files) : Unlinked(S)
  /\ UNCHANGED index

\* It dies in mergeDuplicates(): of the tampered files, which go first, and then of
\* the duplicates some are done, and the last may be unlinked and not linked again.
Doomed(bad, keep) == bad \cup {n \in Files \ bad : keep[n] # n}

MergedPartly(bad, keep, done, last) ==
  /\ done \subseteq bad \/ bad \subseteq done
  /\ dir' = [n \in Names |-> IF n \notin done THEN dir[n]
                             ELSE IF n \in bad \/ n = last THEN NoFile ELSE dir[keep[n]]]
  /\ bytes' = [i \in Inodes |-> IF \E n \in done : dir[n] = i THEN Zero ELSE bytes[i]]

CrashMerging ==
  /\ Restart
  /\ sweep = "merge" /\ Cardinality({dir[n] : n \in Files}) >= 2
  /\ \E late \in SUBSET Sharing : \E keep \in Keeps(Tampered \cup late) :
       \E done \in SUBSET Doomed(Tampered \cup late, keep) : \E last \in Files :
         MergedPartly(Tampered \cup late, keep, done, last)
  /\ UNCHANGED index

CrashClearing ==
  /\ Restart
  /\ HostFree
  /\ \E S \in SUBSET Files : Unlinked(S)
  /\ index' \in {index, EmptyIndex}

-----------------------------------------------------------------------------
Environment == \E a \in Archives : Modify(a) \/ MoveAwayOrBack(a)

Call(c) ==
  \/ \E a \in Archives : Preview(c, a)
  \/ ExtractSystem(c) \/ ExtractWorker(c) \/ WorkerReplies(c) \/ ExtractFails(c)
  \/ Promote(c) \/ PromoteFails(c)
  \/ Reclaim(c) \/ ReclaimIndex(c) \/ Link(c) \/ StartWrite(c) \/ Rename(c) \/ WriteFails(c)
  \/ LinkIndex(c) \/ StoreIndex(c) \/ Promoted(c) \/ Open(c)

Sweep == StartSweep \/ SweepRead \/ SweepFiles \/ SweepMerge \/ SweepIndex

Next ==
  \/ Environment
  \/ \E c \in Calls : Call(c)
  \/ \E n \in Names : CloseTab(n) \/ StopWatching(n)
  \/ Sweep
  \/ Clear
  \/ Crash \/ CrashUnlinking \/ CrashMerging \/ CrashClearing

Spec == Init /\ [][Next]_vars

-----------------------------------------------------------------------------
(* Properties                                                              *)

\* While the index can be read, a hit shows the file that is in the archive
\* now, whatever was overwritten, lost or half done before (previewCacheHit).
TrustedHit ==
  \A n \in Names : Live(n) /\ Readable /\ Hit(n) => Bytes(n) = Content[n]

\* A dedup link only spreads verified bytes, and the preview that made it is
\* served the next time (storePreviewCache).
LinksServe ==
  [][\A c \in Calls : pc[c] = "linkIndex" /\ pc'[c] = "promoted" =>
       bytes'[dir'[key[c]]] = data[c] /\ Hit(key[c])']_vars

\* A sweep that could read the index leaves exactly the recorded files, each
\* of an archive that is still there unchanged (sweepPreviewCache).
SweepSettles ==
  [][sweep = "index" /\ sweep' = "no" /\ Usable(sweepSnap) =>
       /\ Recorded(index') = {n \in Names : dir'[n] # NoFile}
       /\ \A n \in Recorded(index') : Live(n)]_vars

\* What the comments promise and the code does not keep:

\* a file shown from the cache is never a wrong one, readable index or not;
NeverServedWrongly ==
  \A n \in Names : Live(n) /\ Hit(n) => Bytes(n) = Content[n]

\* reclaiming one entry leaves the other copies of its bytes alone;
CopiesIndependent ==
  \A n \in Files : index[n] # NoHash => Bytes(n) = index[n]

\* no record is lost: with every store finished, each file has its record;
EveryFileRecorded ==
  (\A c \in Calls : pc[c] \in {"idle", "extract", "staged"}) /\ sweep = "no" =>
    \A n \in Files : Usable(index) => index[n] # NoHash

\* the file a preview opens is there.
PreviewOpens ==
  \A c \in Calls :
    /\ pc[c] = "open" => key[c] \in Files
    /\ pc[c] = "openStaged" => staged[key[c]] # NoHash
=============================================================================
