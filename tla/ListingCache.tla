---------------------------- MODULE ListingCache ----------------------------
(***************************************************************************)
(* The disk cache of listings (providers/listingCache.ts, fileListing.ts). *)
(* fetchFileList() looks a wrapped archive up by its stat, then by the     *)
(* hash of its content, and otherwise lists it and snapshots the listing.  *)
(* Every await is a step, and meanwhile the archive may be replaced, also  *)
(* by an older copy with its old mtime.                                    *)
(*                                                                         *)
(* A version of the archive stands for its stat, Content for its bytes and *)
(* the listing of those bytes: a hash is the content itself.  The module   *)
(* has no Init and Next: Session runs it inside the extension's life.      *)
(***************************************************************************)
EXTENDS Naturals, FiniteSets

CONSTANTS
  Calls,       \* calls of fetchFileList() that may be under way together
  Versions,    \* versions of the archive
  Content,     \* the content of each
  MaxChanges   \* bound on replacements of the archive

ASSUME ListingAssumption == Versions # {} /\ MaxChanges \in Nat

VARIABLES
  archive,     \* the version on disk
  changes,     \* replacements so far
  snapshot,    \* the cached listing, a set of at most one snapshot
  tmps,        \* temporary files of snapshots, by the call that wrote them
  orphans,     \* there are temporary files whose host is gone
  call,        \* the calls
  raced        \* the archive was replaced under a call that then snapshot it

cacheVars == <<archive, changes, snapshot, tmps, orphans, call, raced>>

NoListing == "none"
-----------------------------------------------------------------------------
NoCall == [pc |-> "idle", st |-> CHOOSE v \in Versions : TRUE, raw |-> {},
           entries |-> NoListing, seen |-> {}]

CacheInit ==
  /\ archive \in Versions
  /\ changes = 0
  /\ snapshot = {}
  /\ tmps = {}
  /\ orphans = FALSE
  /\ call = [c \in Calls |-> NoCall]
  /\ raced = FALSE

Step(c, pc) == call' = [call EXCEPT ![c].pc = pc]

\* The entries are returned to the caller.  The call is remembered only when
\* the archive has never had them since it was asked for.
Serve(c, entries) ==
  call' = [call EXCEPT ![c] =
    IF entries \in call[c].seen THEN NoCall ELSE [NoCall EXCEPT !.pc = "misled"]]

Keep == UNCHANGED <<archive, changes, orphans, raced>>

fetchFileList(c) ==
  /\ call[c].pc = "idle"
  /\ call' = [call EXCEPT ![c] =
       [NoCall EXCEPT !.pc = "stat", !.seen = {Content[archive]}]]
  /\ Keep /\ UNCHANGED <<snapshot, tmps>>

\* readListingCache(): the stat is taken before the snapshot is read.
StatSource(c) ==
  /\ call[c].pc = "stat"
  /\ call' = [call EXCEPT ![c].pc = "read", ![c].st = archive]
  /\ Keep /\ UNCHANGED <<snapshot, tmps>>

\* Mutant: a snapshot is served whatever the stat of the archive.
ReadSnapshotAnyStat(c) ==
  /\ call[c].pc = "read"
  /\ IF snapshot = {} THEN Step(c, "list")
     ELSE \E raw \in snapshot : Serve(c, raw.entries)
  /\ Keep /\ UNCHANGED <<snapshot, tmps>>

ReadSnapshot(c) ==
  /\ call[c].pc = "read"
  /\ IF snapshot = {}
     THEN Step(c, "list")
     ELSE \E raw \in snapshot :
            IF raw.stat = call[c].st THEN Serve(c, raw.entries)
            ELSE call' = [call EXCEPT ![c].pc = "hash", ![c].raw = {raw}]
  /\ Keep /\ UNCHANGED <<snapshot, tmps>>

\* The content decides; the snapshot is then written again with the new stat.
Verify(c) ==
  /\ call[c].pc = "hash"
  /\ \E raw \in call[c].raw :
       IF raw.sha256 # Content[archive]
       THEN Step(c, "list") /\ UNCHANGED tmps
       ELSE /\ call' = [call EXCEPT ![c].pc = "rename", ![c].entries = raw.entries]
            /\ tmps' = tmps \cup
                 {[by |-> c, snap |-> [raw EXCEPT !.stat = call[c].st]]}
  /\ Keep /\ UNCHANGED snapshot

\* The worker's listing is produced, and arrives in a later step; or it fails.
ListArchive(c) ==
  /\ call[c].pc = "list"
  /\ \/ call' = [call EXCEPT ![c].pc = "listed", ![c].entries = Content[archive]]
     \/ call' = [call EXCEPT ![c] = NoCall]
  /\ Keep /\ UNCHANGED <<snapshot, tmps>>

\* writeListingCache(): stat and hash are taken after the listing.
StatListed(c) ==
  /\ call[c].pc = "listed"
  /\ call' = [call EXCEPT ![c].pc = "digest", ![c].st = archive]
  /\ Keep /\ UNCHANGED <<snapshot, tmps>>

HashListed(c) ==
  /\ call[c].pc = "digest"
  /\ Step(c, "rename")
  /\ tmps' = tmps \cup
       {[by |-> c, snap |-> [stat |-> call[c].st, sha256 |-> Content[archive],
                             entries |-> call[c].entries]]}
  /\ Keep /\ UNCHANGED snapshot

Written(c) == {t \in tmps : t.by = c}

\* writeSnapshot() moves the temporary file into place.  When it is gone the
\* cached file goes too, as for a destination that could not be replaced.
Rename(c) ==
  /\ call[c].pc = "rename"
  /\ snapshot' = {t.snap : t \in Written(c)}
  /\ tmps' = tmps \ Written(c)
  /\ Serve(c, call[c].entries)
  /\ Keep

\* The disk refuses to take the temporary file, or the rename of it.
WriteFails(c) ==
  /\ call[c].pc = "rename"
  /\ snapshot' \in {snapshot, {}}
  /\ tmps' = tmps \ Written(c)
  /\ Serve(c, call[c].entries)
  /\ Keep

\* Windows in which a snapshot can take the listing of one version with the
\* stat or the hash of another.
Exposed(c) == call[c].pc \in {"read", "hash", "listed", "digest"}

ArchiveReplaced ==
  /\ changes < MaxChanges
  /\ changes' = changes + 1
  /\ archive' \in Versions \ {archive}
  /\ raced' = (raced \/ \E c \in Calls : Exposed(c))
  /\ call' = [c \in Calls |->
       [call[c] EXCEPT !.seen = IF call[c].pc \in {"idle", "misled"} THEN @
                                ELSE @ \cup {Content[archive']}]]
  /\ UNCHANGED <<snapshot, tmps, orphans>>

\* clearListingCache() unlinks whatever is in the directory.
ClearFiles == snapshot' = {} /\ tmps' = {} /\ orphans' = FALSE

\* sweepListingCache(): a temporary file is swept once it is old, which none
\* of a call under way is, a snapshot when it has expired.
sweepListingCache ==
  /\ orphans' = FALSE
  /\ snapshot' \in {snapshot, {}}
  /\ UNCHANGED <<archive, changes, tmps, call, raced>>

CallStep(c) ==
  \/ StatSource(c) \/ ReadSnapshot(c) \/ Verify(c) \/ ListArchive(c)
  \/ StatListed(c) \/ HashListed(c) \/ Rename(c) \/ WriteFails(c)

\* The host is gone with its calls; what they had written stays.
HostGone ==
  /\ call' = [c \in Calls |-> NoCall]
  /\ orphans' = (orphans \/ tmps # {})
  /\ tmps' = {}
  /\ UNCHANGED <<archive, changes, snapshot, raced>>
=============================================================================
