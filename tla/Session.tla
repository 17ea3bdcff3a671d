------------------------------- MODULE Session -------------------------------
(***************************************************************************)
(* The life of the extension in its host (extension.ts): the host process  *)
(* is launched, the extension is activated and deactivated in it, and it   *)
(* exits at any time, gracefully or not; an update is installed while the  *)
(* extension does not run.  The listing cache outlives the host, the       *)
(* directory it is in is known from activate() on, and deactivate()        *)
(* deletes the session's passwords from the keychain                       *)
(* (providers/passwordVault.ts).  The keychain does what it is asked to,   *)
(* in its own time.                                                        *)
(***************************************************************************)
EXTENDS ListingCache

CONSTANTS
  MaxRelease,   \* bound on updates
  Locked        \* the archives with a password: each has one key per session

ASSUME SessionAssumption == MaxRelease \in Nat \ {0}

VARIABLES
  host,      \* off, loaded, active, closing (in deactivate) or parked
  release,   \* the installed version of the extension
  lastSeen,  \* CACHE_VERSION_KEY in the global state, 0 before the first
  dir,       \* the cache directory is set in this process
  teardown,  \* the pending cache teardown is armed
  format,    \* the release that wrote the snapshot, 0 without one
  stored,    \* the keys of this session that are in the keychain
  noted,     \* _secretKeys
  saving,    \* how far the save of each key is
  deleting   \* the keys that disposePasswordVault() still awaits

hostVars == <<host, release, lastSeen, dir, teardown>>
vaultVars == <<stored, noted, saving, deleting>>
vars == <<cacheVars, hostVars, format, vaultVars>>
-----------------------------------------------------------------------------
Init ==
  /\ CacheInit
  /\ host = "off"
  /\ release = 1
  /\ lastSeen = 0
  /\ dir = FALSE
  /\ teardown = FALSE
  /\ format = 0
  /\ stored = {} /\ noted = {} /\ deleting = {}
  /\ saving = [k \in Locked |-> "no"]

Alive == host # "off"

\* A snapshot that was put into place is one of this release.
Formatted ==
  format' = IF snapshot' = {} THEN 0
            ELSE IF snapshot' = snapshot THEN format ELSE release

Launch ==
  /\ host = "off"
  /\ host' = "loaded"
  /\ UNCHANGED <<cacheVars, release, lastSeen, dir, teardown, format, vaultVars>>

\* initPasswordVault(): the keys carry a random session id, and those of an
\* older session, also one whose save is still under way, are never read again.
NewSession ==
  /\ stored' = {} /\ noted' = {} /\ deleting' = {}
  /\ saving' = [k \in Locked |-> "no"]

\* The host is gone, after a deactivate() or without one.
Exit ==
  /\ Alive
  /\ host' = "off"
  /\ dir' = FALSE
  /\ teardown' = FALSE
  /\ HostGone
  /\ NewSession
  /\ UNCHANGED <<release, lastSeen, format>>

Update ==
  /\ host \in {"off", "parked"}
  /\ release < MaxRelease
  /\ release' = release + 1
  /\ UNCHANGED <<cacheVars, host, lastSeen, dir, teardown, format, vaultVars>>

cacheVersionChanged == lastSeen # 0 /\ lastSeen # release

\* On an update the caches are cleared, which does nothing before the directory
\* is set; then initListingCache() sets it and sweeps.
Caches ==
  IF cacheVersionChanged /\ dir
  THEN ClearFiles
  ELSE /\ snapshot' \in {snapshot, {}}
       /\ orphans' \in {FALSE, orphans}
       /\ UNCHANGED tmps

activate ==
  /\ host \in {"loaded", "parked"}
  /\ host' = "active"
  /\ teardown' = FALSE
  /\ Caches
  /\ lastSeen' = release
  /\ dir' = TRUE
  /\ NewSession
  /\ Formatted
  /\ UNCHANGED <<archive, changes, call, raced, release>>

\* disposePasswordVault() asks for the deletion of the noted keys.
deactivate ==
  /\ host = "active"
  /\ host' = "closing"
  /\ deleting' = noted
  /\ UNCHANGED <<cacheVars, release, lastSeen, dir, teardown, format, stored, noted, saving>>

\* The deletions are awaited; then the noted keys and the storage are forgotten.
deactivated ==
  /\ host = "closing"
  /\ deleting = {}
  /\ host' = "parked"
  /\ noted' = {}
  /\ teardown' = TRUE
  /\ UNCHANGED <<cacheVars, release, lastSeen, dir, format, stored, saving, deleting>>

pendingCacheTeardown ==
  /\ teardown
  /\ teardown' = FALSE
  /\ ClearFiles
  /\ Formatted
  /\ UNCHANGED <<archive, changes, call, raced, host, release, lastSeen, dir,
                 vaultVars>>

clearCachesCommand ==
  /\ host = "active"
  /\ ClearFiles
  /\ Formatted
  /\ UNCHANGED <<archive, changes, call, raced, hostVars, vaultVars>>

dailyCacheSweep ==
  /\ host = "active"
  /\ sweepListingCache
  /\ Formatted
  /\ UNCHANGED <<hostVars, vaultVars>>
-----------------------------------------------------------------------------
(* passwordVault.ts *)

\* The storage is severed when deactivate() is through; a save that has begun
\* goes on, whatever the host does meanwhile.
saveArchivePassword(k) ==
  /\ host \in {"active", "closing"}
  /\ saving[k] = "no"
  /\ saving' = [saving EXCEPT ![k] = "store"]
  /\ UNCHANGED <<stored, noted, deleting>>

Store(k) ==
  /\ saving[k] = "store"
  /\ saving' = [saving EXCEPT ![k] = "note"]
  /\ stored' = stored \cup {k}
  /\ UNCHANGED <<noted, deleting>>

StoreFails(k) ==
  /\ saving[k] = "store"
  /\ saving' = [saving EXCEPT ![k] = "no"]
  /\ UNCHANGED <<stored, noted, deleting>>

Note(k) ==
  /\ saving[k] = "note"
  /\ saving' = [saving EXCEPT ![k] = "no"]
  /\ noted' = noted \cup {k}
  /\ UNCHANGED <<stored, deleting>>

Delete(k) ==
  /\ k \in deleting
  /\ deleting' = deleting \ {k}
  /\ stored' = stored \ {k}
  /\ UNCHANGED <<noted, saving>>

Vault ==
  /\ \E k \in Locked :
       saveArchivePassword(k) \/ Store(k) \/ StoreFails(k) \/ Note(k) \/ Delete(k)
  /\ UNCHANGED <<cacheVars, hostVars, format>>
-----------------------------------------------------------------------------
FetchFileList(c) ==
  /\ host = "active"
  /\ fetchFileList(c)
  /\ UNCHANGED <<hostVars, format, vaultVars>>

Call(c) ==
  /\ Alive
  /\ CallStep(c)
  /\ Formatted
  /\ UNCHANGED <<hostVars, vaultVars>>

Replace == ArchiveReplaced /\ UNCHANGED <<hostVars, format, vaultVars>>

Next ==
  \/ Launch \/ Exit \/ Update
  \/ activate \/ deactivate \/ deactivated
  \/ pendingCacheTeardown \/ clearCachesCommand \/ dailyCacheSweep
  \/ Vault
  \/ Replace
  \/ \E c \in Calls : FetchFileList(c) \/ Call(c)

Spec == Init /\ [][Next]_vars
-----------------------------------------------------------------------------
\* A listing that was served, from the cache or not, is that of a content the
\* archive had while it was asked for, as the hash that is "the single source
\* of truth" of listingCache.ts has it;
HashIsTruth == \A c \in Calls : call[c].pc # "misled"

\* what the code keeps of it: across replacements, also by older copies with
\* their old mtime, restarts, sweeps and cleared directories, unless another
\* listing was being stated or hashed while the archive was replaced.
ServedRight == raced \/ HashIsTruth

\* A session that was closed leaves no password in the keychain, as the head of
\* passwordVault.ts has it.
KeysDeleted == host = "parked" => stored = {}

\* No listing written by another release survives an update.
UpdateClears == host = "active" => format \in {0, release}
=============================================================================
