---------------------------- MODULE SessionProofs ----------------------------
(***************************************************************************)
(* Theorems about the session: they hold for every archive, every number   *)
(* of listings under way, of replacements and of updates.                  *)
(***************************************************************************)
EXTENDS Session, TLAPS

-----------------------------------------------------------------------------
(* Listings                                                                *)

Listings == {Content[v] : v \in Versions} \cup {NoListing}
Snapshots == [stat : Versions, sha256 : Listings, entries : Listings]
Stages == {"idle", "misled", "stat", "read", "hash", "list", "listed", "digest",
           "rename"}
CallStates == [pc : Stages, st : Versions, raw : SUBSET Snapshots,
               entries : Listings, seen : SUBSET Listings]

CacheTypeOK ==
  /\ archive \in Versions
  /\ snapshot \subseteq Snapshots
  /\ tmps \subseteq [by : Calls, snap : Snapshots]
  /\ call \in [Calls -> CallStates]

\* A snapshot is of one version: its stat, its hash and its listing.
Sound(snap) == snap.entries = snap.sha256 /\ snap.sha256 = Content[snap.stat]

\* What a call knows at each of its stages.
Informed(c) ==
  /\ c.pc # "misled"
  /\ c.pc # "idle" => Content[archive] \in c.seen
  /\ c.pc \in {"read", "hash", "digest"} => c.st = archive
  /\ c.pc = "hash" => \A r \in c.raw : Sound(r)
  /\ c.pc \in {"listed", "digest"} => c.entries = Content[archive]
  /\ c.pc = "rename" => c.entries \in c.seen

CacheSound ==
  /\ \A s \in snapshot : Sound(s)
  /\ \A t \in tmps : Sound(t.snap)
  /\ \A c \in Calls : Informed(call[c])

CacheInv == CacheTypeOK /\ (raced \/ CacheSound)

USE ListingAssumption

\* The state of a call that is over.
LEMMA NoCallType ==
  /\ NoCall \in CallStates
  /\ [NoCall EXCEPT !.pc = "misled"] \in CallStates
  /\ NoCall.pc = "idle"
<1>1. (CHOOSE v \in Versions : TRUE) \in Versions
  OBVIOUS
<1> QED
  BY <1>1 DEF NoCall, CallStates, Stages, Listings

\* What one call does to the calls.
LEMMA OneCall ==
  ASSUME CacheTypeOK, NEW c \in Calls, NEW next \in CallStates,
         call' = [call EXCEPT ![c] = next]
  PROVE  /\ call' \in [Calls -> CallStates]
         /\ call'[c] = next
         /\ \A d \in Calls : d # c => call'[d] = call[d]
  BY DEF CacheTypeOK

\* A call that serves entries the archive has had is over.
LEMMA ServeType ==
  ASSUME CacheTypeOK, NEW c \in Calls, NEW entries, Serve(c, entries)
  PROVE  /\ call' \in [Calls -> CallStates]
         /\ \A d \in Calls : d # c => call'[d] = call[d]
         /\ entries \in call[c].seen => call'[c] = NoCall
  BY NoCallType DEF Serve, CacheTypeOK

\* The other calls learn nothing and forget nothing.
LEMMA StepSound ==
  ASSUME CacheInv, NEW c \in Calls, ~raced => Informed(call'[c]),
         archive' = archive, raced' = raced,
         \A d \in Calls : d # c => call'[d] = call[d],
         ~raced => (\A s \in snapshot' : Sound(s)) /\ (\A t \in tmps' : Sound(t.snap))
  PROVE  raced' \/ CacheSound'
<1>1. SUFFICES ASSUME ~raced PROVE CacheSound'
  OBVIOUS
<1>2. ASSUME NEW d \in Calls PROVE Informed(call[d])'
  <2>1. CASE d = c
    BY <1>1, <2>1 DEF Informed
  <2>2. CASE d # c
    BY <1>1, <2>2 DEF Informed, CacheInv, CacheSound
  <2> QED
    BY <2>1, <2>2
<1> QED
  BY <1>1, <1>2 DEF CacheSound, Sound

\* Every step of a call keeps the cache sound.
LEMMA CallKeeps ==
  ASSUME CacheInv, NEW c \in Calls, fetchFileList(c) \/ CallStep(c)
  PROVE  CacheInv'
<1> USE DEF CacheInv, Keep
<1>1. /\ archive' = archive /\ raced' = raced
      /\ archive \in Versions
      /\ call[c] \in CallStates
      /\ Content[archive] \in Listings
      /\ ~raced => Informed(call[c])
  BY DEF CallStep, fetchFileList, StatSource, ReadSnapshot, Verify, ListArchive,
         StatListed, HashListed, Rename, WriteFails, CacheTypeOK, CacheSound, Listings
<1>2. CASE fetchFileList(c)
  <2> DEFINE next == [NoCall EXCEPT !.pc = "stat", !.seen = {Content[archive]}]
  <2>1. next \in CallStates /\ next.pc = "stat" /\ next.seen = {Content[archive]}
    BY <1>1, NoCallType DEF CallStates, Stages
  <2>2. call' = [call EXCEPT ![c] = next] /\ UNCHANGED <<snapshot, tmps>>
    BY <1>2 DEF fetchFileList
  <2> HIDE DEF next
  <2>3. Informed(next)
    BY <2>1 DEF Informed
  <2> QED
    BY <1>1, <2>1, <2>2, <2>3, OneCall, StepSound DEF CacheTypeOK, CacheSound
<1>3. CASE StatSource(c)
  <2> DEFINE next == [call[c] EXCEPT !.pc = "read", !.st = archive]
  <2>1. /\ next \in CallStates /\ next.pc = "read" /\ next.st = archive
        /\ next.seen = call[c].seen
    BY <1>1 DEF CallStates, Stages
  <2>2. call' = [call EXCEPT ![c] = next] /\ UNCHANGED <<snapshot, tmps>>
    BY <1>3 DEF StatSource
  <2>3. call[c].pc = "stat"
    BY <1>3 DEF StatSource
  <2> HIDE DEF next
  <2>4. ~raced => Informed(next)
    BY <1>1, <2>1, <2>3 DEF Informed
  <2> QED
    BY <1>1, <2>1, <2>2, <2>4, OneCall, StepSound DEF CacheTypeOK, CacheSound
<1>4. CASE ReadSnapshot(c)
  <2>1. call[c].pc = "read" /\ UNCHANGED <<snapshot, tmps>>
    BY <1>4 DEF ReadSnapshot
  <2>2. CASE snapshot = {}
    <3> DEFINE next == [call[c] EXCEPT !.pc = "list"]
    <3>1. next \in CallStates /\ next.pc = "list" /\ next.seen = call[c].seen
      BY <1>1 DEF CallStates, Stages
    <3>2. call' = [call EXCEPT ![c] = next]
      BY <1>4, <2>2 DEF ReadSnapshot, Step
    <3> HIDE DEF next
    <3>3. ~raced => Informed(next)
      BY <1>1, <2>1, <3>1 DEF Informed
    <3> QED
      BY <1>1, <2>1, <3>1, <3>2, <3>3, OneCall, StepSound DEF CacheTypeOK, CacheSound
  <2>3. ASSUME NEW raw \in snapshot, raw.stat = call[c].st, Serve(c, raw.entries)
        PROVE  CacheInv'
    <3>1. ~raced => raw.entries \in call[c].seen
      BY <1>1, <2>1, <2>3 DEF Informed, CacheSound, Sound
    <3>2. ~raced => Informed(call'[c])
      BY <2>3, <3>1, ServeType, NoCallType DEF Informed
    <3> QED
      BY <1>1, <2>1, <2>3, <3>2, ServeType, StepSound DEF CacheTypeOK, CacheSound
  <2>4. ASSUME NEW raw \in snapshot, call' = [call EXCEPT ![c].pc = "hash", ![c].raw = {raw}]
        PROVE  CacheInv'
    <3> DEFINE next == [call[c] EXCEPT !.pc = "hash", !.raw = {raw}]
    <3>1. /\ next \in CallStates /\ next.pc = "hash" /\ next.raw = {raw}
          /\ next.seen = call[c].seen /\ next.st = call[c].st
      BY <1>1 DEF CallStates, Stages, CacheTypeOK
    <3>2. call' = [call EXCEPT ![c] = next]
      BY <2>4
    <3> HIDE DEF next
    <3>3. ~raced => Informed(next)
      BY <1>1, <2>1, <3>1 DEF Informed, CacheSound
    <3> QED
      BY <1>1, <2>1, <3>1, <3>2, <3>3, OneCall, StepSound DEF CacheTypeOK, CacheSound
  <2> QED
    BY <1>4, <2>2, <2>3, <2>4 DEF ReadSnapshot
<1>5. CASE Verify(c)
  <2>1. call[c].pc = "hash" /\ snapshot' = snapshot
    BY <1>5 DEF Verify
  <2>2. PICK raw \in call[c].raw : Verify(c)!2!(raw)
    BY <1>5 DEF Verify
  <2>3. raw \in Snapshots
    BY <1>1 DEF CallStates
  <2>4. CASE raw.sha256 # Content[archive]
    <3> DEFINE next == [call[c] EXCEPT !.pc = "list"]
    <3>1. next \in CallStates /\ next.pc = "list" /\ next.seen = call[c].seen
      BY <1>1 DEF CallStates, Stages
    <3>2. call' = [call EXCEPT ![c] = next] /\ tmps' = tmps
      BY <2>2, <2>4 DEF Step
    <3> HIDE DEF next
    <3>3. ~raced => Informed(next)
      BY <1>1, <2>1, <3>1 DEF Informed
    <3> QED
      BY <1>1, <2>1, <3>1, <3>2, <3>3, OneCall, StepSound DEF CacheTypeOK, CacheSound
  <2>5. CASE raw.sha256 = Content[archive]
    <3> DEFINE next == [call[c] EXCEPT !.pc = "rename", !.entries = raw.entries]
               fresh == [raw EXCEPT !.stat = call[c].st]
    <3>1. /\ next \in CallStates /\ next.pc = "rename" /\ next.seen = call[c].seen
          /\ next.entries = raw.entries
      BY <1>1, <2>3 DEF CallStates, Stages, Snapshots
    <3>2. /\ fresh \in Snapshots /\ fresh.stat = call[c].st
          /\ fresh.entries = raw.entries /\ fresh.sha256 = raw.sha256
      BY <1>1, <2>3 DEF CallStates, Snapshots
    <3>3. /\ call' = [call EXCEPT ![c] = next]
          /\ tmps' = tmps \cup {[by |-> c, snap |-> fresh]}
      BY <2>2, <2>5
    <3> HIDE DEF next, fresh
    <3>4. ~raced => raw.entries = Content[archive] /\ call[c].st = archive
      BY <1>1, <2>1, <2>5 DEF Informed, Sound
    <3>5. ~raced => Informed(next) /\ Sound(fresh)
      BY <1>1, <2>1, <2>5, <3>1, <3>2, <3>4 DEF Informed, Sound
    <3>6. tmps' \subseteq [by : Calls, snap : Snapshots]
      BY <3>2, <3>3 DEF CacheTypeOK
    <3>7. ~raced => \A t \in tmps' : Sound(t.snap)
      BY <3>3, <3>5 DEF CacheSound
    <3> QED
      BY <1>1, <2>1, <3>1, <3>3, <3>5, <3>6, <3>7, OneCall, StepSound
         DEF CacheTypeOK, CacheSound
  <2> QED
    BY <2>4, <2>5
<1>6. CASE ListArchive(c)
  <2>1. call[c].pc = "list" /\ UNCHANGED <<snapshot, tmps>>
    BY <1>6 DEF ListArchive
  <2>2. CASE call' = [call EXCEPT ![c].pc = "listed", ![c].entries = Content[archive]]
    <3> DEFINE next == [call[c] EXCEPT !.pc = "listed", !.entries = Content[archive]]
    <3>1. /\ next \in CallStates /\ next.pc = "listed" /\ next.seen = call[c].seen
          /\ next.entries = Content[archive]
      BY <1>1 DEF CallStates, Stages
    <3>2. call' = [call EXCEPT ![c] = next]
      BY <2>2
    <3> HIDE DEF next
    <3>3. ~raced => Informed(next)
      BY <1>1, <2>1, <3>1 DEF Informed
    <3> QED
      BY <1>1, <2>1, <3>1, <3>2, <3>3, OneCall, StepSound DEF CacheTypeOK, CacheSound
  <2>3. CASE call' = [call EXCEPT ![c] = NoCall]
    <3>1. Informed(NoCall)
      BY NoCallType DEF Informed
    <3> QED
      BY <1>1, <2>1, <2>3, <3>1, NoCallType, OneCall, StepSound DEF CacheTypeOK, CacheSound
  <2> QED
    BY <1>6, <2>2, <2>3 DEF ListArchive
<1>7. CASE StatListed(c)
  <2> DEFINE next == [call[c] EXCEPT !.pc = "digest", !.st = archive]
  <2>1. /\ next \in CallStates /\ next.pc = "digest" /\ next.st = archive
        /\ next.seen = call[c].seen /\ next.entries = call[c].entries
    BY <1>1 DEF CallStates, Stages
  <2>2. /\ call' = [call EXCEPT ![c] = next] /\ UNCHANGED <<snapshot, tmps>>
        /\ call[c].pc = "listed"
    BY <1>7 DEF StatListed
  <2> HIDE DEF next
  <2>3. ~raced => Informed(next)
    BY <1>1, <2>1, <2>2 DEF Informed
  <2> QED
    BY <1>1, <2>1, <2>2, <2>3, OneCall, StepSound DEF CacheTypeOK, CacheSound
<1>8. CASE HashListed(c)
  <2> DEFINE next == [call[c] EXCEPT !.pc = "rename"]
             fresh == [stat |-> call[c].st, sha256 |-> Content[archive],
                       entries |-> call[c].entries]
  <2>1. /\ next \in CallStates /\ next.pc = "rename"
        /\ next.seen = call[c].seen /\ next.entries = call[c].entries
    BY <1>1 DEF CallStates, Stages
  <2>2. /\ call' = [call EXCEPT ![c] = next] /\ snapshot' = snapshot
        /\ tmps' = tmps \cup {[by |-> c, snap |-> fresh]}
        /\ call[c].pc = "digest"
    BY <1>8 DEF HashListed, Step
  <2>3. fresh \in Snapshots
    BY <1>1 DEF CallStates, Snapshots
  <2>4. ~raced => Informed(next) /\ Sound(fresh)
    BY <1>1, <2>1, <2>2 DEF Informed, Sound
  <2> HIDE DEF next, fresh
  <2>5. tmps' \subseteq [by : Calls, snap : Snapshots]
    BY <2>2, <2>3 DEF CacheTypeOK
  <2>6. ~raced => \A t \in tmps' : Sound(t.snap)
    BY <2>2, <2>4 DEF CacheSound
  <2> QED
    BY <1>1, <2>1, <2>2, <2>4, <2>5, <2>6, OneCall, StepSound DEF CacheTypeOK, CacheSound
<1>9. CASE Rename(c) \/ WriteFails(c)
  <2>1. call[c].pc = "rename" /\ Serve(c, call[c].entries)
    BY <1>9 DEF Rename, WriteFails
  <2>2. /\ tmps' \subseteq tmps
        /\ \A s \in snapshot' : s \in snapshot \/ \E t \in tmps : s = t.snap
    BY <1>9 DEF Rename, WriteFails, Written
  <2>3. snapshot' \subseteq Snapshots
    BY <2>2 DEF CacheTypeOK
  <2>4. ~raced => (\A s \in snapshot' : Sound(s)) /\ (\A t \in tmps' : Sound(t.snap))
    BY <2>2 DEF CacheSound
  <2>5. ~raced => Informed(call'[c])
    BY <1>1, <2>1, ServeType, NoCallType DEF Informed
  <2> QED
    BY <1>1, <2>1, <2>2, <2>3, <2>4, <2>5, ServeType, StepSound DEF CacheTypeOK
<1> QED
  BY <1>2, <1>3, <1>4, <1>5, <1>6, <1>7, <1>8, <1>9 DEF CallStep

\* The archive is replaced: what is under way is excused, or does not care.
LEMMA ReplacedKeeps ==
  ASSUME CacheInv, ArchiveReplaced
  PROVE  CacheInv'
<1> USE DEF CacheInv
<1>1. archive' \in Versions /\ Content[archive'] \in Listings
  BY DEF ArchiveReplaced, Listings
<1>2. CacheTypeOK'
  <2>1. ASSUME NEW c \in Calls
        PROVE  [call[c] EXCEPT !.seen = IF call[c].pc \in {"idle", "misled"} THEN @
                                        ELSE @ \cup {Content[archive']}] \in CallStates
    BY <1>1 DEF CacheTypeOK, CallStates
  <2> QED
    BY <1>1, <2>1 DEF CacheTypeOK, ArchiveReplaced
<1>3. ASSUME ~raced' PROVE CacheSound'
  <2>1. ~raced /\ CacheSound /\ \A c \in Calls : ~Exposed(c)
    BY <1>3 DEF ArchiveReplaced
  <2>2. ASSUME NEW c \in Calls PROVE Informed(call[c])'
    <3>1. call[c] \in CallStates /\ Informed(call[c])
      BY <2>1 DEF CacheSound, CacheTypeOK
    <3>2. call'[c] = [call[c] EXCEPT !.seen = IF call[c].pc \in {"idle", "misled"} THEN @
                                              ELSE @ \cup {Content[archive']}]
      BY DEF ArchiveReplaced
    <3>3. /\ call'[c].pc = call[c].pc /\ call'[c].entries = call[c].entries
          /\ call'[c].pc \notin {"idle", "misled"} =>
               call'[c].seen = call[c].seen \cup {Content[archive']}
      BY <3>1, <3>2 DEF CallStates
    <3>4. call[c].pc \notin {"read", "hash", "listed", "digest"}
      BY <2>1 DEF Exposed
    <3> QED
      BY <3>1, <3>3, <3>4 DEF Informed
  <2> QED
    BY <2>1, <2>2 DEF CacheSound, ArchiveReplaced, Sound
<1> QED
  BY <1>2, <1>3

\* The host is gone, the directory is cleared or swept: what is left is sound.
LEMMA LessKeeps ==
  ASSUME CacheInv, UNCHANGED <<archive, raced>>,
         call' = call \/ call' = [c \in Calls |-> NoCall],
         snapshot' \subseteq snapshot, tmps' \subseteq tmps
  PROVE  CacheInv'
<1>1. CacheTypeOK'
  BY NoCallType DEF CacheInv, CacheTypeOK
<1>2. ASSUME ~raced', NEW c \in Calls PROVE Informed(call[c])'
  <2>1. CASE call' = call
    BY <1>2, <2>1 DEF CacheInv, CacheSound, Informed
  <2>2. CASE call' = [d \in Calls |-> NoCall]
    BY <2>2, NoCallType DEF Informed
  <2> QED
    BY <2>1, <2>2
<1> QED
  BY <1>1, <1>2 DEF CacheInv, CacheSound, Sound

\* ServedRight: a listing that was served, from the cache or not, is that of a
\* content the archive had while it was asked for, for any number of versions,
\* replacements, calls, restarts and updates (listingCache.ts).
THEOREM ListingsServedRight == Spec => []ServedRight
<1>1. Init => CacheInv
  <2> SUFFICES ASSUME Init PROVE CacheInv
    OBVIOUS
  <2>1. /\ archive \in Versions /\ snapshot = {} /\ tmps = {}
        /\ call = [c \in Calls |-> NoCall]
    BY DEF Init, CacheInit
  <2>2. CacheTypeOK
    BY <2>1, NoCallType DEF CacheTypeOK
  <2>3. CacheSound
    BY <2>1, NoCallType DEF CacheSound, Informed
  <2> QED
    BY <2>2, <2>3 DEF CacheInv
<1>2. CacheInv /\ [Next]_vars => CacheInv'
  <2> SUFFICES ASSUME CacheInv, [Next]_vars PROVE CacheInv'
    OBVIOUS
  <2>1. CASE Launch \/ Update \/ deactivate \/ deactivated \/ Vault
    BY <2>1, LessKeeps DEF Launch, Update, deactivate, deactivated, Vault, cacheVars
  <2>2. CASE Exit
    BY <2>2, LessKeeps DEF Exit, HostGone
  <2>3. CASE activate
    BY <2>3, LessKeeps DEF activate, Caches, ClearFiles
  <2>4. CASE pendingCacheTeardown \/ clearCachesCommand \/ dailyCacheSweep
    BY <2>4, LessKeeps DEF pendingCacheTeardown, clearCachesCommand, ClearFiles,
       dailyCacheSweep, sweepListingCache
  <2>5. CASE Replace
    BY <2>5, ReplacedKeeps DEF Replace
  <2>6. CASE \E c \in Calls : FetchFileList(c) \/ Call(c)
    BY <2>6, CallKeeps DEF FetchFileList, Call
  <2>7. CASE UNCHANGED vars
    BY <2>7, LessKeeps DEF vars, cacheVars
  <2> QED
    BY <2>1, <2>2, <2>3, <2>4, <2>5, <2>6, <2>7 DEF Next
<1>3. CacheInv => ServedRight
  BY DEF CacheInv, CacheSound, Informed, ServedRight, HashIsTruth
<1> QED
  BY <1>1, <1>2, <1>3, PTL DEF Spec
=============================================================================
