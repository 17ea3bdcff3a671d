------------------------- MODULE PreviewCacheProofs -------------------------
(***************************************************************************)
(* PreviewCache: its types, and that a hit under a readable index shows    *)
(* the file now in the archive, for any archives, previews and faults.     *)
(***************************************************************************)
EXTENDS PreviewCache, FiniteSetTheorems, TLAPS

\* A preview has no copy of the bytes before its promotion, and what it stores
\* it has read.
EarlyPcs == {"idle", "extract", "staged", "promote"}
StorePcs == {"reclaim", "reclaimIndex", "dedup", "linkIndex", "write", "renamed"}
DataRead ==
  \A c \in Calls :
    /\ pc[c] \in EarlyPcs => data[c] = NoHash
    /\ pc[c] \in StorePcs => data[c] # NoHash

\* A cache name is made of an archive and a version.
LEMMA NameParts ==
  ASSUME NEW n \in Names
  PROVE  n[1] \in Archives /\ n[2] \in 1 .. MaxVersion[n[1]] /\ n = <<n[1], n[2]>>
BY DEF Names

\* The stat of an archive names a cache file.
LEMMA CurrentName ==
  ASSUME NEW a \in Archives, NEW v \in 1 .. MaxVersion[a]
  PROVE  <<a, v>> \in Names /\ <<a, v>>[1] = a /\ <<a, v>>[2] = v
BY DEF Names

\* Idle previews have a key.
LEMMA SomeNameIsName == SomeName \in Names
<1>1. PICK a \in Archives : TRUE
  BY CacheAssumption
<1>2. 1 \in 1 .. MaxVersion[a]
  BY CacheAssumption
<1>3. <<a, 1>> \in Names
  BY <1>2, CurrentName
<1>4. QED
  BY <1>3 DEF SomeName

\* What the removal of files leaves is still a disk.
LEMMA UnlinkedType ==
  ASSUME TypeOK, NEW S, Unlinked(S)
  PROVE  dir' \in [Names -> Inodes \cup {NoFile}] /\ bytes' \in [Inodes -> Contents \cup {Zero}]
BY DEF TypeOK, Unlinked

\* What is left of an index is an index.
LEMMA WithoutType ==
  ASSUME NEW ix \in Indexes, NEW S
  PROVE  Without(ix, S) \in Indexes
BY DEF Without, Indexes, Hashes

\* The index as it is read, and the empty one, are indexes.
LEMMA ReadIndexType ==
  ASSUME TypeOK
  PROVE  ReadIndex \in Indexes /\ EmptyIndex \in Indexes
BY DEF TypeOK, ReadIndex, EmptyIndex, Indexes, Hashes

\* The index without records is an index.
LEMMA EmptyIndexType == EmptyIndex \in Indexes
BY DEF EmptyIndex, Indexes, Hashes

\* The current version of an archive has a content.
LEMMA ExtractedType ==
  ASSUME TypeOK, NEW c \in Calls
  PROVE  Extracted(c) \in Contents
<1>1. key[c][1] \in Archives
  BY NameParts DEF TypeOK
<1>2. version[key[c][1]] \in 1 .. MaxVersion[key[c][1]]
  BY <1>1 DEF TypeOK
<1>3. <<key[c][1], version[key[c][1]]>> \in Names
  BY <1>1, <1>2, CurrentName
<1>4. QED
  BY <1>3, CacheAssumption DEF Extracted

\* Merging duplicates keeps the disk a disk.
LEMMA MergeType ==
  ASSUME TypeOK, SweepMerge
  PROVE  /\ dir' \in [Names -> Inodes \cup {NoFile}]
         /\ bytes' \in [Inodes -> Contents \cup {Zero}]
         /\ dirty' \in BOOLEAN
<1>1. CASE UNCHANGED <<dir, bytes, dirty>>
  BY <1>1 DEF TypeOK
<1>2. ASSUME NEW late \in SUBSET Sharing, NEW keep \in Keeps(Tampered \cup late), Merge(Tampered \cup late, keep)
      PROVE  /\ dir' \in [Names -> Inodes \cup {NoFile}]
             /\ bytes' \in [Inodes -> Contents \cup {Zero}]
             /\ dirty' \in BOOLEAN
  <2>1. keep \in [Files \ (Tampered \cup late) -> Files \ (Tampered \cup late)]
    BY DEF Keeps
  <2>2. QED
    BY <1>2, <2>1 DEF Merge, TypeOK, Files
<1>3. QED
  BY <1>1, <1>2 DEF SweepMerge

\* A merge that is cut short keeps the disk a disk, too.
LEMMA MergingType ==
  ASSUME TypeOK, CrashMerging
  PROVE  /\ dir' \in [Names -> Inodes \cup {NoFile}]
         /\ bytes' \in [Inodes -> Contents \cup {Zero}]
<1>1. PICK late \in SUBSET Sharing : \E keep \in Keeps(Tampered \cup late) :
        \E done \in SUBSET Doomed(Tampered \cup late, keep), last \in Files :
          MergedPartly(Tampered \cup late, keep, done, last)
  BY DEF CrashMerging
<1>2. PICK keep \in Keeps(Tampered \cup late) :
        \E done \in SUBSET Doomed(Tampered \cup late, keep), last \in Files :
          MergedPartly(Tampered \cup late, keep, done, last)
  BY <1>1
<1>3. PICK done \in SUBSET Doomed(Tampered \cup late, keep), last \in Files :
        MergedPartly(Tampered \cup late, keep, done, last)
  BY <1>2
<1>4. /\ keep \in [Files \ (Tampered \cup late) -> Files \ (Tampered \cup late)]
      /\ done \subseteq Files
  BY <1>3 DEF Keeps, Doomed, Tampered, Sharing
<1>5. \A n \in Names : dir'[n] \in Inodes \cup {NoFile}
  <2> SUFFICES ASSUME NEW n \in Names PROVE dir'[n] \in Inodes \cup {NoFile}
    OBVIOUS
  <2>1. CASE n \notin done
    BY <1>3, <2>1 DEF MergedPartly, TypeOK
  <2>2. CASE n \in done /\ (n \in Tampered \cup late \/ n = last)
    BY <1>3, <2>2 DEF MergedPartly
  <2>3. CASE n \in done /\ ~(n \in Tampered \cup late \/ n = last)
    <3>1. keep[n] \in Names
      BY <1>4, <2>3 DEF Files
    <3> QED
      BY <1>3, <2>3, <3>1 DEF MergedPartly, TypeOK
  <2> QED
    BY <2>1, <2>2, <2>3
<1>6. QED
  BY <1>3, <1>5 DEF MergedPartly, TypeOK

\* Every step keeps the types.
LEMMA TypeStep == TypeOK /\ DataRead /\ [Next]_vars => TypeOK'
<1> SUFFICES ASSUME TypeOK, DataRead, [Next]_vars
             PROVE  TypeOK'
  OBVIOUS
<1> USE DEF archiveVars, diskVars, stagingVars, callVars, sweepVars
<1>1. ASSUME NEW a \in Archives, Modify(a)
      PROVE  TypeOK'
  <2>1. /\ version' \in [Archives -> Nat]
        /\ \A r \in Archives : version'[r] \in 1 .. MaxVersion[r]
    <3>1. version' = [version EXCEPT ![a] = version[a] + 1] /\ version[a] < MaxVersion[a]
      BY <1>1 DEF Modify
    <3>2. MaxVersion[a] \in Nat /\ version[a] \in Nat /\ version[a] \in 1 .. MaxVersion[a]
      BY CacheAssumption DEF TypeOK
    <3>3. version[a] + 1 \in Nat /\ version[a] + 1 \in 1 .. MaxVersion[a]
      BY <3>1, <3>2
    <3>4. QED
      BY <3>1, <3>3 DEF TypeOK
  <2>2. QED
    BY <1>1, <2>1 DEF Modify, TypeOK
<1>2. ASSUME NEW a \in Archives, MoveAwayOrBack(a)
      PROVE  TypeOK'
  BY <1>2 DEF MoveAwayOrBack, TypeOK
<1>3. ASSUME NEW c \in Calls, NEW a \in Archives, Preview(c, a)
      PROVE  TypeOK'
  BY <1>3, CurrentName DEF Preview, TypeOK, Goto
<1>4. ASSUME NEW c \in Calls, ExtractSystem(c)
      PROVE  TypeOK'
  BY <1>4, ExtractedType DEF ExtractSystem, TypeOK, Goto, SyncPcs, Hashes
<1>5. ASSUME NEW c \in Calls, ExtractWorker(c)
      PROVE  TypeOK'
  BY <1>5, ExtractedType DEF ExtractWorker, TypeOK, Goto, Hashes
<1>6. ASSUME NEW c \in Calls, WorkerReplies(c)
      PROVE  TypeOK'
  BY <1>6 DEF WorkerReplies, TypeOK, Goto, SyncPcs
<1>7. ASSUME NEW c \in Calls, ExtractFails(c)
      PROVE  TypeOK'
  BY <1>7, SomeNameIsName DEF ExtractFails, TypeOK, Goto
<1>8. ASSUME NEW c \in Calls, Promote(c)
      PROVE  TypeOK'
  BY <1>8, ReadIndexType DEF Promote, TypeOK, Runs, Goto, SyncPcs
<1>9. ASSUME NEW c \in Calls, PromoteFails(c)
      PROVE  TypeOK'
  BY <1>9 DEF PromoteFails, TypeOK, Runs, Goto, SyncPcs
<1>10. ASSUME NEW c \in Calls, Reclaim(c)
      PROVE  TypeOK'
  BY <1>10, UnlinkedType, WithoutType DEF Reclaim, TypeOK, Runs, Goto, SyncPcs
<1>11. ASSUME NEW c \in Calls, ReclaimIndex(c)
      PROVE  TypeOK'
  BY <1>11 DEF ReclaimIndex, TypeOK, Runs, Goto, SyncPcs
<1>12. ASSUME NEW c \in Calls, Link(c)
      PROVE  TypeOK'
  BY <1>12 DEF Link, TypeOK, Runs, Goto, SyncPcs, LinkTarget, Files, Indexes
<1>13. ASSUME NEW c \in Calls, StartWrite(c)
      PROVE  TypeOK'
  BY <1>13 DEF StartWrite, TypeOK, Runs, Goto
<1>14. ASSUME NEW c \in Calls, Rename(c)
      PROVE  TypeOK'
  <2>1. data[c] \in Contents
    BY <1>14 DEF Rename, TypeOK, DataRead, EarlyPcs, StorePcs, Hashes
  <2>2. PICK i \in Inodes :
          /\ dir' = [dir EXCEPT ![key[c]] = i]
          /\ bytes' = [j \in Inodes |->
               IF j = i THEN data[c]
               ELSE IF \E n \in Names \ {key[c]} : dir[n] = j THEN bytes[j] ELSE Zero]
    BY <1>14 DEF Rename
  <2>3. dir' \in [Names -> Inodes \cup {NoFile}] /\ bytes' \in [Inodes -> Contents \cup {Zero}]
    BY <2>1, <2>2 DEF TypeOK
  <2>4. QED
    BY <1>14, <2>3 DEF Rename, TypeOK, Goto
<1>15. ASSUME NEW c \in Calls, WriteFails(c)
      PROVE  TypeOK'
  BY <1>15 DEF WriteFails, TypeOK, Goto, SyncPcs
<1>16. ASSUME NEW c \in Calls, LinkIndex(c)
      PROVE  TypeOK'
  BY <1>16 DEF LinkIndex, TypeOK, Runs, EndStore, Goto, SyncPcs
<1>17. ASSUME NEW c \in Calls, StoreIndex(c)
      PROVE  TypeOK'
  BY <1>17 DEF StoreIndex, TypeOK, EndStore, Goto, SyncPcs, Indexes
<1>18. ASSUME NEW c \in Calls, Promoted(c)
      PROVE  TypeOK'
  BY <1>18 DEF Promoted, TypeOK, Runs, Goto, SyncPcs, Hashes
<1>19. ASSUME NEW c \in Calls, Open(c)
      PROVE  TypeOK'
  BY <1>19, SomeNameIsName, EmptyIndexType DEF Open, TypeOK, Goto, Hashes
<1>20. ASSUME NEW n \in Names, CloseTab(n)
      PROVE  TypeOK'
  BY <1>20 DEF CloseTab, TypeOK, Hashes
<1>21. ASSUME NEW n \in Names, StopWatching(n)
      PROVE  TypeOK'
  BY <1>21 DEF StopWatching, TypeOK
<1>22. CASE StartSweep
  BY <1>22 DEF StartSweep, TypeOK
<1>23. CASE SweepRead
  BY <1>23, ReadIndexType DEF SweepRead, TypeOK
<1>24. CASE SweepFiles
  BY <1>24, UnlinkedType DEF SweepFiles, TypeOK
<1>25. CASE SweepMerge
  BY <1>25, MergeType DEF SweepMerge, TypeOK
<1>26. CASE SweepIndex
  BY <1>26, WithoutType, EmptyIndexType DEF SweepIndex, TypeOK
<1>27. CASE Clear
  BY <1>27, UnlinkedType, EmptyIndexType DEF Clear, TypeOK
<1>28. CASE Crash
  BY <1>28, SomeNameIsName, EmptyIndexType DEF Crash, Restart, TypeOK, Hashes
<1>29. CASE CrashUnlinking
  BY <1>29, SomeNameIsName, EmptyIndexType, UnlinkedType DEF CrashUnlinking, Restart, TypeOK, Hashes
<1>30. CASE CrashClearing
  BY <1>30, SomeNameIsName, EmptyIndexType, UnlinkedType DEF CrashClearing, Restart, TypeOK, Hashes
<1>31. CASE CrashMerging
  BY <1>31, SomeNameIsName, EmptyIndexType, MergingType DEF CrashMerging, Restart, TypeOK, Hashes
<1>32. CASE UNCHANGED vars
  BY <1>32 DEF vars, TypeOK
<1>33. QED
  BY <1>1, <1>2, <1>3, <1>4, <1>5, <1>6, <1>7, <1>8, <1>9, <1>10, <1>11, <1>12, <1>13, <1>14, <1>15, <1>16, <1>17, <1>18, <1>19, <1>20, <1>21, <1>22, <1>23, <1>24, <1>25, <1>26, <1>27, <1>28, <1>29, <1>30, <1>31, <1>32 DEF Next, Environment, Call, Sweep

\* Every step keeps the copies that are being stored.
LEMMA DataStep == TypeOK /\ DataRead /\ [Next]_vars => DataRead'
<1> SUFFICES ASSUME TypeOK, DataRead, [Next]_vars
             PROVE  DataRead'
  OBVIOUS
<1> USE DEF TypeOK, DataRead, EarlyPcs, StorePcs, Goto, Runs
<1>1. ASSUME UNCHANGED callVars
      PROVE  DataRead'
  BY <1>1 DEF callVars
<1>2. ASSUME Restart
      PROVE  DataRead'
  BY <1>2 DEF Restart
<1>3. ASSUME NEW c \in Calls, NEW a \in Archives, Preview(c, a)
      PROVE  DataRead'
  BY <1>3 DEF Preview
<1>4. ASSUME NEW c \in Calls, ExtractSystem(c)
      PROVE  DataRead'
  BY <1>4 DEF ExtractSystem
<1>5. ASSUME NEW c \in Calls, ExtractWorker(c)
      PROVE  DataRead'
  BY <1>5 DEF ExtractWorker
<1>6. ASSUME NEW c \in Calls, WorkerReplies(c)
      PROVE  DataRead'
  BY <1>6 DEF WorkerReplies
<1>7. ASSUME NEW c \in Calls, ExtractFails(c)
      PROVE  DataRead'
  BY <1>7 DEF ExtractFails
<1>8. ASSUME NEW c \in Calls, Promote(c)
      PROVE  DataRead'
  BY <1>8 DEF Promote
<1>9. ASSUME NEW c \in Calls, PromoteFails(c)
      PROVE  DataRead'
  BY <1>9 DEF PromoteFails
<1>10. ASSUME NEW c \in Calls, Reclaim(c)
      PROVE  DataRead'
  BY <1>10 DEF Reclaim
<1>11. ASSUME NEW c \in Calls, ReclaimIndex(c)
      PROVE  DataRead'
  BY <1>11 DEF ReclaimIndex
<1>12. ASSUME NEW c \in Calls, Link(c)
      PROVE  DataRead'
  BY <1>12 DEF Link
<1>13. ASSUME NEW c \in Calls, StartWrite(c)
      PROVE  DataRead'
  BY <1>13 DEF StartWrite
<1>14. ASSUME NEW c \in Calls, Rename(c)
      PROVE  DataRead'
  BY <1>14 DEF Rename
<1>15. ASSUME NEW c \in Calls, WriteFails(c)
      PROVE  DataRead'
  BY <1>15 DEF WriteFails
<1>16. ASSUME NEW c \in Calls, LinkIndex(c)
      PROVE  DataRead'
  BY <1>16 DEF LinkIndex, EndStore
<1>17. ASSUME NEW c \in Calls, StoreIndex(c)
      PROVE  DataRead'
  BY <1>17 DEF StoreIndex, EndStore
<1>18. ASSUME NEW c \in Calls, Promoted(c)
      PROVE  DataRead'
  BY <1>18 DEF Promoted
<1>19. ASSUME NEW c \in Calls, Open(c)
      PROVE  DataRead'
  BY <1>19 DEF Open
<1>20. CASE Environment \/ Sweep \/ Clear \/ (\E n \in Names : CloseTab(n) \/ StopWatching(n)) \/ UNCHANGED vars
  BY <1>20, <1>1 DEF Environment, Modify, MoveAwayOrBack, Sweep, StartSweep, SweepRead, SweepFiles,
       SweepMerge, SweepIndex, Clear, CloseTab, StopWatching, vars
<1>21. CASE Crash \/ CrashUnlinking \/ CrashMerging \/ CrashClearing
  BY <1>21, <1>2 DEF Crash, CrashUnlinking, CrashMerging, CrashClearing
<1>22. QED
  BY <1>3, <1>4, <1>5, <1>6, <1>7, <1>8, <1>9, <1>10, <1>11, <1>12, <1>13, <1>14, <1>15, <1>16, <1>17, <1>18, <1>19, <1>20, <1>21 DEF Next, Call

\* The cache starts empty, and typed.
LEMMA TypeInit == Init => TypeOK
<1> SUFFICES ASSUME Init PROVE TypeOK
  OBVIOUS
<1>1. version \in [Archives -> Nat] /\ \A a \in Archives : version[a] \in 1 .. MaxVersion[a]
  BY CacheAssumption DEF Init
<1>2. QED
  BY <1>1, SomeNameIsName, EmptyIndexType DEF Init, TypeOK, Hashes

\* The cache, its index and every preview and sweep keep their types, zeroed
\* and half-done files included (previewCache.ts, previewFileFromArchive).
THEOREM TypeCorrect == Spec => []TypeOK
<1>1. Init => TypeOK /\ DataRead
  BY TypeInit DEF Init, DataRead, EarlyPcs, StorePcs
<1>2. TypeOK /\ DataRead /\ [Next]_vars => (TypeOK /\ DataRead)'
  BY TypeStep, DataStep
<1>3. QED
  BY <1>1, <1>2, PTL DEF Spec

-----------------------------------------------------------------------------
(* Hits under a readable index                                             *)

\* A hash kept for cache file n is no promise about a version to come, and
\* that of the file if the archive is still the one n was named after.
Honest(n, h) ==
  h # NoHash => /\ n[2] <= version[n[1]]
                /\ n[2] = version[n[1]] => h = Content[n]

\* The archives of the previews in progress were seen at the version of the key.
KeysSeen == \A c \in Calls : pc[c] # "idle" => key[c][2] <= version[key[c][1]]

\* Every hash in the system is honest: on disk, in the staging files, and in
\* the copies that previews and the sweep carry over their awaits.
HonestInv ==
  /\ KeysSeen
  /\ \A n \in Names : Honest(n, index[n])
  /\ \A n \in Names : Honest(n, staged[n])
  /\ \A n \in Names : Honest(n, sweepSnap[n])
  /\ \A c \in Calls : Honest(key[c], data[c])
  /\ \A c \in Calls, n \in Names : Honest(n, snap[c][n])

\* Archives only get newer, so what was honest stays so.
LEMMA HonestLater ==
  ASSUME TypeOK, TypeOK', \A a \in Archives : version[a] <= version'[a],
         NEW n \in Names, NEW h, Honest(n, h)
  PROVE  Honest(n, h)'
<1>1. n[1] \in Archives /\ n[2] \in Nat
  BY NameParts
<1>2. version[n[1]] \in Nat /\ version'[n[1]] \in Nat /\ version[n[1]] <= version'[n[1]]
  BY <1>1 DEF TypeOK
<1>3. QED
  BY <1>1, <1>2 DEF Honest

\* No record is no promise.
LEMMA NoneHonest ==
  ASSUME NEW n
  PROVE  Honest(n, NoHash)
BY DEF Honest

\* The index as it is read is honest.
LEMMA ReadHonest ==
  ASSUME HonestInv, NEW n \in Names
  PROVE  Honest(n, ReadIndex[n])
BY NoneHonest DEF HonestInv, ReadIndex, EmptyIndex

\* So is what is left of an honest index.
LEMMA WithoutHonest ==
  ASSUME NEW ix \in Indexes, NEW S, NEW n \in Names, Honest(n, ix[n])
  PROVE  Honest(n, Without(ix, S)[n])
BY NoneHonest DEF Without

\* What is extracted is the file of the version the archive has now.
LEMMA ExtractedHonest ==
  ASSUME TypeOK, KeysSeen, NEW c \in Calls, pc[c] # "idle"
  PROVE  Honest(key[c], Extracted(c))
<1>1. key[c] \in Names
  BY DEF TypeOK
<1>2. key[c] = <<key[c][1], key[c][2]>>
  BY <1>1, NameParts
<1>3. QED
  BY <1>2 DEF KeysSeen, Honest, Extracted

\* Every step keeps the hashes honest.
LEMMA HonestStep == TypeOK /\ TypeOK' /\ DataRead /\ HonestInv /\ [Next]_vars => HonestInv'
<1> SUFFICES ASSUME TypeOK, TypeOK', DataRead, HonestInv, [Next]_vars
             PROVE  HonestInv'
  OBVIOUS
<1> USE DEF archiveVars, diskVars, stagingVars, callVars, sweepVars
<1>1. ASSUME version' = version,
             KeysSeen',
             \A n \in Names : Honest(n, index'[n]) /\ Honest(n, staged'[n]) /\ Honest(n, sweepSnap'[n]),
             \A c \in Calls : Honest(key'[c], data'[c]),
             \A c \in Calls, n \in Names : Honest(n, snap'[c][n])
      PROVE  HonestInv'
  BY <1>1 DEF HonestInv, Honest
<1>2. ASSUME version' = version, UNCHANGED <<pc, key>>
      PROVE  KeysSeen'
  BY <1>2 DEF KeysSeen, HonestInv
<1>3. ASSUME version' = version, UNCHANGED key, NEW c \in Calls, pc[c] # "idle", NEW at, Goto(c, at)
      PROVE  KeysSeen'
  BY <1>3 DEF KeysSeen, HonestInv, Goto, TypeOK
<1>4. ASSUME version' = version, UNCHANGED <<index, staged, key, data, snap, sweepSnap>>, KeysSeen'
      PROVE  HonestInv'
  BY <1>4, <1>1 DEF HonestInv
<1>5. ASSUME NEW a \in Archives, Modify(a)
      PROVE  HonestInv'
  <2>1. \A r \in Archives : version[r] <= version'[r]
    BY <1>5 DEF Modify, TypeOK
  <2>2. \A n \in Names : \A h : Honest(n, h) => Honest(n, h)'
    BY <2>1, HonestLater
  <2>3. KeysSeen'
    <3>1. SUFFICES ASSUME NEW c \in Calls, pc[c] # "idle"
                   PROVE  key[c][2] <= version'[key[c][1]]
      BY <1>5 DEF Modify, KeysSeen
    <3>2. key[c][1] \in Archives /\ key[c][2] \in Nat
      BY NameParts DEF TypeOK
    <3>3. key[c][2] <= version[key[c][1]]
      BY <3>1 DEF HonestInv, KeysSeen
    <3>4. version[key[c][1]] \in Nat /\ version'[key[c][1]] \in Nat
      BY <3>2 DEF TypeOK
    <3>5. QED
      BY <3>2, <3>3, <3>4, <2>1
  <2>4. UNCHANGED <<index, staged, key, data, snap, sweepSnap>>
    BY <1>5 DEF Modify
  <2>5. \A n \in Names : Honest(n, index[n])' /\ Honest(n, staged[n])' /\ Honest(n, sweepSnap[n])'
    BY <2>2, <2>4 DEF HonestInv
  <2>6. ASSUME NEW c \in Calls
        PROVE  Honest(key[c], data[c])' /\ \A n \in Names : Honest(n, snap[c][n])'
    <3>1. key[c] \in Names
      BY DEF TypeOK
    <3>2. Honest(key[c], data[c]) /\ \A n \in Names : Honest(n, snap[c][n])
      BY DEF HonestInv
    <3>3. QED
      BY <3>1, <3>2, <2>2, <2>4 DEF Honest
  <2>7. QED
    BY <2>3, <2>5, <2>6 DEF HonestInv
<1>6. ASSUME NEW a \in Archives, MoveAwayOrBack(a)
      PROVE  HonestInv'
  BY <1>6, <1>2, <1>4 DEF MoveAwayOrBack
<1>7. ASSUME NEW c \in Calls, NEW a \in Archives, Preview(c, a)
      PROVE  HonestInv'
  <2>1. <<a, version[a]>>[1] = a /\ <<a, version[a]>>[2] <= version[a]
    BY DEF TypeOK
  <2>2. KeysSeen'
    <3>1. key' = [key EXCEPT ![c] = <<a, version[a]>>] /\ version' = version
      BY <1>7 DEF Preview
    <3>2. \A d \in Calls : d # c => pc'[d] = pc[d] /\ key'[d] = key[d]
      BY <1>7, <3>1 DEF Preview, Goto, TypeOK
    <3>3. key'[c] = <<a, version[a]>>
      BY <3>1 DEF TypeOK
    <3>4. QED
      BY <2>1, <3>1, <3>2, <3>3 DEF KeysSeen, HonestInv
  <2>3. \A d \in Calls : Honest(key'[d], data'[d])
    BY <1>7 DEF Preview, HonestInv, DataRead, EarlyPcs, TypeOK, Honest
  <2>4. QED
    BY <1>7, <1>1, <2>2, <2>3 DEF Preview, HonestInv
<1>8. ASSUME NEW c \in Calls, ExtractSystem(c)
      PROVE  HonestInv'
  <2>1. Honest(key[c], Extracted(c)) /\ key[c] \in Names
    BY <1>8, ExtractedHonest DEF ExtractSystem, HonestInv, TypeOK
  <2>2. \A n \in Names : Honest(n, staged'[n])
    BY <1>8, <2>1 DEF ExtractSystem, HonestInv, TypeOK
  <2>3. KeysSeen'
    BY <1>8, <1>3 DEF ExtractSystem
  <2>4. QED
    BY <1>8, <1>1, <2>2, <2>3 DEF ExtractSystem, HonestInv
<1>9. ASSUME NEW c \in Calls, ExtractWorker(c)
      PROVE  HonestInv'
  <2>1. Honest(key[c], Extracted(c)) /\ key[c] \in Names
    BY <1>9, ExtractedHonest DEF ExtractWorker, HonestInv, TypeOK
  <2>2. \A n \in Names : Honest(n, staged'[n])
    BY <1>9, <2>1 DEF ExtractWorker, HonestInv, TypeOK
  <2>3. KeysSeen'
    BY <1>9, <1>3 DEF ExtractWorker
  <2>4. QED
    BY <1>9, <1>1, <2>2, <2>3 DEF ExtractWorker, HonestInv
<1>10. ASSUME NEW c \in Calls, WorkerReplies(c)
      PROVE  HonestInv'
  BY <1>10, <1>3, <1>4 DEF WorkerReplies
<1>11. ASSUME NEW c \in Calls, ExtractFails(c)
      PROVE  HonestInv'
  <2>1. KeysSeen'
    BY <1>11 DEF ExtractFails, KeysSeen, HonestInv, Goto, TypeOK
  <2>2. \A d \in Calls : Honest(key'[d], data'[d])
    BY <1>11 DEF ExtractFails, HonestInv, DataRead, EarlyPcs, TypeOK, Honest
  <2>3. QED
    BY <1>11, <1>1, <2>1, <2>2 DEF ExtractFails, HonestInv
<1>12. ASSUME NEW c \in Calls, Promote(c)
      PROVE  HonestInv'
  <2>1. \A d \in Calls : Honest(key'[d], data'[d])
    BY <1>12 DEF Promote, HonestInv, TypeOK
  <2>2. \A d \in Calls, n \in Names : Honest(n, snap'[d][n])
    BY <1>12, ReadHonest DEF Promote, HonestInv, TypeOK
  <2>3. KeysSeen'
    BY <1>12, <1>3 DEF Promote, Runs
  <2>4. QED
    BY <1>12, <1>1, <2>1, <2>2, <2>3 DEF Promote, HonestInv
<1>13. ASSUME NEW c \in Calls, PromoteFails(c)
      PROVE  HonestInv'
  BY <1>13, <1>3, <1>4 DEF PromoteFails, Runs
<1>14. ASSUME NEW c \in Calls, Reclaim(c)
      PROVE  HonestInv'
  <2>1. \A n \in Names : Honest(n, Without(snap[c], Orphans(snap[c]))[n])
    BY WithoutHonest DEF HonestInv, TypeOK
  <2>2. \A d \in Calls, n \in Names : Honest(n, snap'[d][n])
    BY <1>14, <2>1 DEF Reclaim, HonestInv, TypeOK
  <2>3. KeysSeen'
    BY <1>14, <1>3 DEF Reclaim, Runs
  <2>4. QED
    BY <1>14, <1>1, <2>2, <2>3 DEF Reclaim, HonestInv
<1>15. ASSUME NEW c \in Calls, ReclaimIndex(c)
      PROVE  HonestInv'
  <2>1. KeysSeen'
    BY <1>15, <1>3 DEF ReclaimIndex, Runs
  <2>2. QED
    BY <1>15, <1>1, <2>1 DEF ReclaimIndex, HonestInv
<1>16. ASSUME NEW c \in Calls, Link(c)
      PROVE  HonestInv'
  <2>1. \A d \in Calls, n \in Names : Honest(n, snap'[d][n])
    BY <1>16 DEF Link, HonestInv, TypeOK, Indexes
  <2>2. KeysSeen'
    BY <1>16, <1>3 DEF Link, Runs
  <2>3. QED
    BY <1>16, <1>1, <2>1, <2>2 DEF Link, HonestInv
<1>17. ASSUME NEW c \in Calls, StartWrite(c)
      PROVE  HonestInv'
  BY <1>17, <1>3, <1>4 DEF StartWrite, Runs
<1>18. ASSUME NEW c \in Calls, Rename(c)
      PROVE  HonestInv'
  BY <1>18, <1>3, <1>4 DEF Rename, Runs
<1>19. ASSUME NEW c \in Calls, WriteFails(c)
      PROVE  HonestInv'
  BY <1>19, <1>3, <1>4 DEF WriteFails, Runs
<1>20. ASSUME NEW c \in Calls, LinkIndex(c)
      PROVE  HonestInv'
  <2>1. KeysSeen'
    BY <1>20, <1>3 DEF LinkIndex, EndStore, Runs
  <2>2. QED
    BY <1>20, <1>1, <2>1 DEF LinkIndex, EndStore, HonestInv
<1>21. ASSUME NEW c \in Calls, StoreIndex(c)
      PROVE  HonestInv'
  <2>1. \A d \in Calls, n \in Names : Honest(n, snap'[d][n])
    BY <1>21 DEF StoreIndex, HonestInv, TypeOK, Indexes
  <2>2. KeysSeen'
    BY <1>21, <1>3 DEF StoreIndex, EndStore
  <2>3. QED
    BY <1>21, <1>1, <2>1, <2>2 DEF StoreIndex, EndStore, HonestInv
<1>22. ASSUME NEW c \in Calls, Promoted(c)
      PROVE  HonestInv'
  <2>1. \A n \in Names : Honest(n, staged'[n])
    BY <1>22, NoneHonest DEF Promoted, HonestInv, TypeOK
  <2>2. KeysSeen'
    BY <1>22, <1>3 DEF Promoted, Runs
  <2>3. QED
    BY <1>22, <1>1, <2>1, <2>2 DEF Promoted, HonestInv
<1>23. ASSUME NEW c \in Calls, Open(c)
      PROVE  HonestInv'
  <2>1. \A d \in Calls : Honest(key'[d], data'[d])
    BY <1>23, NoneHonest DEF Open, HonestInv, TypeOK
  <2>2. \A d \in Calls, n \in Names : Honest(n, snap'[d][n])
    BY <1>23, NoneHonest DEF Open, HonestInv, TypeOK, EmptyIndex
  <2>3. KeysSeen'
    BY <1>23 DEF Open, KeysSeen, HonestInv, Goto, TypeOK
  <2>4. QED
    BY <1>23, <1>1, <2>1, <2>2, <2>3 DEF Open, HonestInv
<1>24. ASSUME NEW n \in Names, CloseTab(n)
      PROVE  HonestInv'
  <2>1. \A m \in Names : Honest(m, staged'[m])
    BY <1>24, NoneHonest DEF CloseTab, HonestInv, TypeOK
  <2>2. QED
    BY <1>24, <1>1, <1>2, <2>1 DEF CloseTab, HonestInv
<1>25. ASSUME NEW n \in Names, StopWatching(n)
      PROVE  HonestInv'
  BY <1>25, <1>2, <1>4 DEF StopWatching
<1>26. CASE StartSweep \/ SweepFiles \/ SweepMerge
  BY <1>26, <1>2, <1>4 DEF StartSweep, SweepFiles, SweepMerge
<1>27. CASE SweepRead
  <2>1. \A n \in Names : Honest(n, sweepSnap'[n])
    BY <1>27, ReadHonest DEF SweepRead
  <2>2. QED
    BY <1>27, <1>1, <1>2, <2>1 DEF SweepRead, HonestInv
<1>28. CASE SweepIndex
  <2>1. \A n \in Names : Honest(n, sweepSnap'[n])
    BY <1>28, NoneHonest DEF SweepIndex, EmptyIndex
  <2>2. \A n \in Names : Honest(n, index'[n])
    BY <1>28, WithoutHonest DEF SweepIndex, HonestInv, TypeOK
  <2>3. QED
    BY <1>28, <1>1, <1>2, <2>1, <2>2 DEF SweepIndex, HonestInv
<1>29. CASE Clear
  <2>1. \A n \in Names : Honest(n, index'[n])
    BY <1>29, NoneHonest DEF Clear, EmptyIndex
  <2>2. QED
    BY <1>29, <1>1, <1>2, <2>1 DEF Clear, HonestInv
<1>30. CASE Crash \/ CrashUnlinking \/ CrashMerging \/ CrashClearing
  <2>1. Restart
    BY <1>30 DEF Crash, CrashUnlinking, CrashMerging, CrashClearing
  <2>2. \A n \in Names : Honest(n, index'[n])
    BY <1>30, NoneHonest DEF Crash, CrashUnlinking, CrashMerging, CrashClearing, EmptyIndex, HonestInv
  <2>3. KeysSeen'
    BY <2>1 DEF Restart, KeysSeen
  <2>4. QED
    BY <2>1, <2>2, <2>3, <1>1, NoneHonest DEF Restart, EmptyIndex
<1>31. CASE UNCHANGED vars
  BY <1>31, <1>2, <1>4 DEF vars
<1>32. QED
  BY <1>5, <1>6, <1>7, <1>8, <1>9, <1>10, <1>11, <1>12, <1>13, <1>14, <1>15, <1>16, <1>17, <1>18, <1>19, <1>20, <1>21, <1>22, <1>23, <1>24, <1>25, <1>26, <1>27, <1>28, <1>29, <1>30, <1>31 DEF Next, Environment, Call, Sweep

\* The cache starts without promises.
LEMMA HonestInit == Init => HonestInv
BY NoneHonest DEF Init, HonestInv, KeysSeen, EmptyIndex

\* A readable index is one that decides.
LEMMA ReadableDecides ==
  ASSUME Readable
  PROVE  ReadIndex = index /\ Usable(index)
<1>1. Recorded(index) # {}
  BY FS_EmptySet DEF Readable
<1>2. QED
  BY <1>1 DEF ReadIndex, Readable, Usable, Recorded, EmptyIndex

\* previewCacheHit() serves the file that is in the archive now, whenever the
\* index can be read: for any number of archives, versions and previews, with
\* crashes, lost records and zeroed hard links (previewCache.ts).
THEOREM HitsTrusted == Spec => []TrustedHit
<1>1. Init => TypeOK /\ DataRead /\ HonestInv
  BY TypeInit, HonestInit DEF Init, DataRead, EarlyPcs, StorePcs
<1>2. TypeOK /\ DataRead /\ HonestInv /\ [Next]_vars => (TypeOK /\ DataRead /\ HonestInv)'
  BY TypeStep, DataStep, HonestStep
<1>3. TypeOK /\ HonestInv => TrustedHit
  <2>1. SUFFICES ASSUME TypeOK, HonestInv, NEW n \in Names, Live(n), Readable, Hit(n)
                 PROVE  Bytes(n) = Content[n]
    BY DEF TrustedHit
  <2>2. index[n] # NoHash /\ Bytes(n) = index[n]
    BY <2>1, ReadableDecides DEF Hit
  <2>3. Honest(n, index[n]) /\ version[n[1]] = n[2]
    BY <2>1 DEF HonestInv, Live
  <2>4. QED
    BY <2>2, <2>3 DEF Honest
<1>4. QED
  BY <1>1, <1>2, <1>3, PTL DEF Spec

-----------------------------------------------------------------------------
(* What the synchronous parts of a store and of a sweep rely on            *)

\* The host has one thread: no two previews are in synchronous code.
AloneInv == \A c, d \in Calls : pc[c] \in SyncPcs /\ pc[d] \in SyncPcs => c = d

\* Between the link and its record nothing touches the linked bytes.
LinkedInv ==
  \A c \in Calls : pc[c] = "linkIndex" =>
    /\ sweep = "no"
    /\ dir[key[c]] # NoFile /\ Bytes(key[c]) = data[c]
    /\ data[c] # NoHash /\ snap[c][key[c]] = data[c]

\* A sweep works on the index as it is on disk, and once the files are swept
\* only recorded ones of unchanged archives are left.
SweptInv ==
  Usable(sweepSnap) =>
    /\ sweep \in {"files", "merge", "index"} => index = sweepSnap
    /\ sweep \in {"merge", "index"} => \A n \in Files : sweepSnap[n] # NoHash /\ Live(n)

ThreadInv == TypeOK /\ DataRead /\ AloneInv /\ LinkedInv /\ SweptInv

\* A step of a preview that runs alone, or only waits for its extraction, and
\* does not make a link.
LEMMA CallGoes ==
  ASSUME ThreadInv, NEW c \in Calls, NEW at, at # "linkIndex", Goto(c, at),
         \/ HostFree /\ pc[c] \notin SyncPcs
         \/ pc[c] \in SyncPcs /\ sweep = "no"
         \/ at \notin SyncPcs /\ UNCHANGED <<diskVars, archiveVars, key, data, snap, sweepVars>>,
         sweep = "no" => sweep' \in {"no", "read"}
  PROVE  AloneInv' /\ LinkedInv' /\ SweptInv'
<1>1. \A d \in Calls : pc'[d] = IF d = c THEN at ELSE pc[d]
  BY DEF Goto, ThreadInv, TypeOK
<1>2. AloneInv'
  BY <1>1 DEF ThreadInv, AloneInv, HostFree
<1>3. LinkedInv'
  <2> SUFFICES ASSUME NEW d \in Calls, pc'[d] = "linkIndex"
               PROVE  /\ sweep' = "no"
                      /\ dir'[key'[d]] # NoFile /\ bytes'[dir'[key'[d]]] = data'[d]
                      /\ data'[d] # NoHash /\ snap'[d][key'[d]] = data'[d]
    BY DEF LinkedInv, Bytes
  <2>1. d # c /\ pc[d] = "linkIndex" /\ pc[d] \in SyncPcs
    BY <1>1 DEF SyncPcs
  <2>2. UNCHANGED <<diskVars, archiveVars, key, data, snap, sweepVars>>
    BY <2>1 DEF ThreadInv, AloneInv, HostFree
  <2> QED
    BY <2>1, <2>2 DEF ThreadInv, LinkedInv, Bytes, diskVars, sweepVars
<1>4. SweptInv'
  <2>1. CASE sweep = "no"
    BY <2>1 DEF SweptInv
  <2>2. CASE sweep # "no"
    <3>1. UNCHANGED <<diskVars, archiveVars, key, data, snap, sweepVars>>
      BY <2>2 DEF HostFree
    <3> QED
      BY <3>1 DEF ThreadInv, SweptInv, Usable, Files, Live, diskVars, archiveVars, sweepVars
  <2> QED
    BY <2>1, <2>2
<1> QED
  BY <1>2, <1>3, <1>4

\* Every step keeps what runs alone undisturbed.
LEMMA ThreadStep == ThreadInv /\ [Next]_vars => ThreadInv'
<1> SUFFICES ASSUME ThreadInv, [Next]_vars
             PROVE  AloneInv' /\ LinkedInv' /\ SweptInv'
  BY TypeStep, DataStep DEF ThreadInv
<1> USE DEF archiveVars, diskVars, stagingVars, callVars, sweepVars
<1>1. TypeOK /\ DataRead /\ AloneInv /\ LinkedInv /\ SweptInv
  BY DEF ThreadInv
<1>2. ASSUME UNCHANGED callVars, HostFree, sweep' \in {"no", "read"}
      PROVE  AloneInv' /\ LinkedInv' /\ SweptInv'
  BY <1>1, <1>2 DEF AloneInv, LinkedInv, SweptInv, HostFree, SyncPcs
<1>3. ASSUME UNCHANGED callVars, sweep # "no", SweptInv'
      PROVE  AloneInv' /\ LinkedInv' /\ SweptInv'
  BY <1>1, <1>3 DEF AloneInv, LinkedInv
<1>4. ASSUME Restart
      PROVE  AloneInv' /\ LinkedInv' /\ SweptInv'
  BY <1>4 DEF Restart, AloneInv, LinkedInv, SweptInv, SyncPcs
<1>5. ASSUME NEW c \in Calls, Call(c)
      PROVE  AloneInv' /\ LinkedInv' /\ SweptInv'
  <2>1. CASE \/ \E a \in Archives : Preview(c, a)
             \/ ExtractSystem(c) \/ WorkerReplies(c) \/ ExtractFails(c)
    BY <2>1, CallGoes DEF Preview, ExtractSystem, WorkerReplies, ExtractFails, SyncPcs
  <2>2. CASE ExtractWorker(c)
    BY <2>2, CallGoes DEF ExtractWorker, SyncPcs
  <2>3. CASE Promote(c) \/ PromoteFails(c) \/ StartWrite(c) \/ Promoted(c) \/ Open(c)
    BY <2>3, CallGoes DEF Promote, PromoteFails, StartWrite, Promoted, Open, Runs, SyncPcs
  <2>4. CASE Reclaim(c)
    BY <2>4, CallGoes DEF Reclaim, Runs, SyncPcs
  <2>5. CASE ReclaimIndex(c)
    BY <2>5, CallGoes DEF ReclaimIndex, Runs, SyncPcs
  <2>6. CASE Rename(c) \/ WriteFails(c)
    BY <2>6, CallGoes DEF Rename, WriteFails, SyncPcs
  <2>7. CASE LinkIndex(c) \/ StoreIndex(c)
    BY <2>7, CallGoes DEF LinkIndex, StoreIndex, EndStore, Runs, SyncPcs
  <2>8. CASE Link(c)
    <3>1. /\ pc[c] = "dedup" /\ sweep = "no" /\ UNCHANGED <<key, data, bytes, sweep>>
          /\ \A d \in Calls : pc'[d] = IF d = c THEN "linkIndex" ELSE pc[d]
      BY <1>1, <2>8 DEF Link, Runs, Goto, TypeOK
    <3>2. AloneInv'
      BY <1>1, <3>1 DEF AloneInv, SyncPcs
    <3>3. \A d \in Calls : pc'[d] = "linkIndex" => d = c
      BY <1>1, <3>1 DEF AloneInv, SyncPcs
    <3>4. /\ dir'[key[c]] # NoFile /\ bytes[dir'[key[c]]] = data[c]
          /\ snap'[c][key[c]] = data[c] /\ data[c] # NoHash
      <4>1. PICK n \in Names : LinkTarget(c, n) /\ dir' = [dir EXCEPT ![key[c]] = dir[n]]
        BY <2>8 DEF Link
      <4>2. dir[n] # NoFile /\ bytes[dir[n]] = data[c]
        BY <4>1 DEF LinkTarget, Files, Bytes
      <4>3. snap'[c][key[c]] = data[c]
        BY <1>1, <2>8 DEF Link, TypeOK, Indexes
      <4>4. data[c] # NoHash
        BY <1>1, <3>1 DEF DataRead, StorePcs
      <4> QED
        BY <1>1, <4>1, <4>2, <4>3, <4>4 DEF TypeOK
    <3>5. LinkedInv'
      BY <3>1, <3>3, <3>4 DEF LinkedInv, Bytes
    <3>6. SweptInv'
      BY <3>1 DEF SweptInv
    <3> QED
      BY <3>2, <3>5, <3>6
  <2> QED
    BY <1>5, <2>1, <2>2, <2>3, <2>4, <2>5, <2>6, <2>7, <2>8 DEF Call
<1>6. CASE Environment \/ Clear \/ StartSweep \/ \E n \in Names : CloseTab(n) \/ StopWatching(n)
  <2>1. UNCHANGED callVars /\ HostFree /\ sweep' \in {"no", "read"}
    BY <1>6 DEF Environment, Modify, MoveAwayOrBack, Clear, StartSweep, CloseTab, StopWatching,
       HostFree
  <2> QED
    BY <1>2, <2>1
<1>7. CASE SweepRead
  <2>1. SweptInv'
    BY <1>7 DEF SweepRead, SweptInv, ReadIndex, Usable
  <2> QED
    BY <1>3, <1>7, <2>1 DEF SweepRead
<1>8. CASE SweepFiles
  <2>1. PICK old \in Aged : Unlinked(Victims(old))
    BY <1>8 DEF SweepFiles
  <2>2. ASSUME NEW n \in Names, dir'[n] # NoFile, Usable(sweepSnap)
        PROVE  sweepSnap[n] # NoHash /\ Live(n)
    BY <2>1, <2>2 DEF Unlinked, Victims, Files
  <2>3. SweptInv'
    BY <1>1, <1>8, <2>2 DEF SweepFiles, SweptInv, Usable, Files, Live
  <2> QED
    BY <1>3, <1>8, <2>3 DEF SweepFiles
<1>9. CASE SweepMerge
  <2>1. \A n \in Names : dir'[n] # NoFile => n \in Files
    <3>1. CASE UNCHANGED dir
      BY <3>1 DEF Files
    <3>2. CASE ~UNCHANGED dir
      BY <1>9, <3>2 DEF SweepMerge, Merge, Files
    <3> QED
      BY <3>1, <3>2
  <2>2. SweptInv'
    BY <1>1, <1>9, <2>1 DEF SweepMerge, SweptInv, Usable, Files, Live
  <2> QED
    BY <1>3, <1>9, <2>2 DEF SweepMerge
<1>10. CASE SweepIndex
  <2>1. SweptInv'
    BY <1>10 DEF SweepIndex, SweptInv, Usable
  <2> QED
    BY <1>3, <1>10, <2>1 DEF SweepIndex
<1>11. CASE Crash \/ CrashUnlinking \/ CrashMerging \/ CrashClearing
  BY <1>4, <1>11 DEF Crash, CrashUnlinking, CrashMerging, CrashClearing
<1>12. CASE UNCHANGED vars
  BY <1>1, <1>12 DEF vars, AloneInv, LinkedInv, SweptInv, Bytes, Usable, Files, Live
<1> QED
  BY <1>5, <1>6, <1>7, <1>8, <1>9, <1>10, <1>11, <1>12 DEF Next, Sweep

\* Nothing runs when the host is started.
LEMMA ThreadInit == Init => ThreadInv
BY TypeInit DEF Init, ThreadInv, DataRead, EarlyPcs, StorePcs, AloneInv, LinkedInv, SweptInv,
   SyncPcs, Usable

\* Only the record of a link ends in this way.
LEMMA LinkEnds ==
  ASSUME ThreadInv, [Next]_vars, NEW c \in Calls, pc[c] = "linkIndex", pc'[c] = "promoted"
  PROVE  LinkIndex(c)
<1> USE DEF archiveVars, diskVars, stagingVars, callVars, sweepVars
<1>1. pc' # pc /\ pc \in [Calls -> {"idle", "extract", "staged", "write", "renamed"} \cup SyncPcs]
  BY DEF ThreadInv, TypeOK
<1>2. ~Restart
  BY DEF Restart
<1>3. PICK d \in Calls : Call(d)
  BY <1>1, <1>2 DEF Next, vars, Environment, Modify, MoveAwayOrBack, CloseTab, StopWatching, Sweep,
     StartSweep, SweepRead, SweepFiles, SweepMerge, SweepIndex, Clear, Crash, CrashUnlinking,
     CrashMerging, CrashClearing
<1>4. \A at : Goto(d, at) => (d = c => at = "promoted") /\ (d # c => pc'[c] = pc[c])
  BY <1>1 DEF Goto
<1>5. d = c
  <2>1. \E at : Goto(d, at)
    BY <1>3 DEF Call, Preview, ExtractSystem, ExtractWorker, WorkerReplies, ExtractFails, Promote,
       PromoteFails, Reclaim, ReclaimIndex, Link, StartWrite, Rename, WriteFails, LinkIndex,
       StoreIndex, EndStore, Promoted, Open
  <2> QED
    BY <1>4, <2>1
<1> QED
  BY <1>3, <1>5 DEF Call, Preview, ExtractSystem, ExtractWorker, WorkerReplies, ExtractFails,
     Promote, PromoteFails, Reclaim, ReclaimIndex, Link, StartWrite, Rename, WriteFails,
     StoreIndex, Promoted, Open, Runs

\* LinksServe: a dedup link only spreads verified bytes and the next preview is
\* served from it, however many previews, sweeps and engines are at work.
THEOREM LinksAreServed == Spec => LinksServe
<1>1. ThreadInv /\ [Next]_vars =>
        [\A c \in Calls : pc[c] = "linkIndex" /\ pc'[c] = "promoted" =>
           bytes'[dir'[key[c]]] = data[c] /\ Hit(key[c])']_vars
  <2> SUFFICES ASSUME ThreadInv, [Next]_vars, NEW c \in Calls,
                      pc[c] = "linkIndex", pc'[c] = "promoted"
               PROVE  bytes'[dir'[key[c]]] = data[c] /\ Hit(key[c])'
    OBVIOUS
  <2>1. LinkIndex(c)
    BY LinkEnds
  <2>2. index' = snap[c] /\ UNCHANGED <<dir, bytes, key, data>>
    BY <2>1 DEF LinkIndex, EndStore
  <2>3. /\ dir[key[c]] # NoFile /\ bytes[dir[key[c]]] = data[c] /\ data[c] # NoHash
        /\ snap[c][key[c]] = data[c] /\ key[c] \in Names
    BY DEF ThreadInv, LinkedInv, Bytes, TypeOK
  <2>4. /\ key'[c] = key[c] /\ key[c] \in Files' /\ Bytes(key[c])' = data[c]
        /\ index'[key[c]] = data[c]
    BY <2>2, <2>3 DEF Files, Bytes
  <2>5. Hit(key[c])'
    <3>1. CASE Readable'
      BY <2>3, <2>4, <3>1 DEF Hit, ReadIndex
    <3>2. CASE ~Readable'
      BY <2>4, <3>2 DEF Hit, ReadIndex, Usable
    <3> QED
      BY <3>1, <3>2
  <2> QED
    BY <2>2, <2>3, <2>5
<1> QED
  BY <1>1, ThreadInit, ThreadStep, PTL DEF Spec, LinksServe

\* SweepSettles: a sweep that could read the index leaves a file for each record
\* and a record for each file, all of unchanged archives, whatever was expired,
\* tampered with, merged or zeroed on the way.
THEOREM SweepsSettle == Spec => SweepSettles
<1>1. ThreadInv /\ [Next]_vars =>
        [sweep = "index" /\ sweep' = "no" /\ Usable(sweepSnap) =>
           /\ Recorded(index') = {n \in Names : dir'[n] # NoFile}
           /\ \A n \in Recorded(index') : Live(n)]_vars
  <2> SUFFICES ASSUME ThreadInv, [Next]_vars, sweep = "index", sweep' = "no", Usable(sweepSnap)
               PROVE  /\ Recorded(index') = {n \in Names : dir'[n] # NoFile}
                      /\ \A n \in Recorded(index') : Live(n)
    OBVIOUS
  <2> USE DEF archiveVars, diskVars, stagingVars, callVars, sweepVars
  <2>1. SweepIndex
    BY DEF Next, vars, Environment, Modify, MoveAwayOrBack, CloseTab, StopWatching, Sweep,
       StartSweep, SweepRead, SweepFiles, SweepMerge, Clear, Crash, CrashUnlinking, CrashMerging,
       CrashClearing, Restart, HostFree, Call, Preview, ExtractSystem, ExtractWorker, WorkerReplies, ExtractFails,
       Promote, PromoteFails, Reclaim, ReclaimIndex, Link, StartWrite, Rename, WriteFails,
       LinkIndex, StoreIndex, EndStore, Promoted, Open, Runs
  <2>2. index = sweepSnap /\ \A n \in Files : sweepSnap[n] # NoHash /\ Live(n)
    BY DEF ThreadInv, SweptInv
  <2> DEFINE pruned == Without(sweepSnap, Names \ Files)
  <2>3. index' = pruned /\ dir' = dir
    BY <2>1, <2>2 DEF SweepIndex
  <2>4. Recorded(pruned) = Files
    BY <2>2 DEF Recorded, Without, Files
  <2> QED
    BY <2>2, <2>3, <2>4 DEF Files
<1> QED
  BY <1>1, ThreadInit, ThreadStep, PTL DEF Spec, SweepSettles
=============================================================================
