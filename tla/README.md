# Smart Archiver in TLA+

Smart Archiver is a VS Code extension that compresses, extracts, browses and
edits archives.  This directory holds a verification project for it: TLA+
modules translated from the TypeScript source, TLC configurations that
model-check them on small instances, and proofs that hold for every value of
the constants.  `PROJECT.json` records, for every definition, the source lines
it stands for, and for every property the bug that would break it.

## 1. Inventory

The extension host is one JavaScript thread: a callback runs to its end, or to
an `await`, before the next one starts.  What runs beside it are the worker
threads, child processes (7-Zip, rar5), other windows of the editor with their
own extension host, and the user's file system.

| component | state it keeps | operations | talks to |
|---|---|---|---|
| Worker pool runner (`engines/worker/runner.ts`) | request queue, slots (worker, ready, failed, current), the `draining` flag | run, cancel, reconfigure, dispose, drain, message/error/exit listeners, ready timer | worker threads by messages; every command and provider calls `runArchiveOp` |
| Worker handler (`engines/worker/handler.ts`) | request chain, set of cancelled ids, engine configuration | init, reconfigure, request, cancel, shutdown | the runner, `dispatchOp` |
| Preview cache (`providers/previewCache.ts`) | cache files (hard-linked when equal), `index.json`, time of the last sweep | store, hit, sweep, orphan reclamation, merge, clear | `previewFileFromArchive`, the file system, other windows |
| Listing cache (`providers/listingCache.ts`) | one snapshot per archive (stat, sha256, entries) | read, write, prune, sweep, clear | `fetchFileList` |
| Extension lifecycle (`extension.ts`) | caches' directories, teardown timer, active runner | activate, deactivate, configuration change, daily sweep | everything above |
| Password vault, expanded state | secret keys of the session, storage handle | save, get, dispose | the OS key chain (asynchronous) |
| Webview operations (`providers/webview/*`) | one state per webview with password, entries, cancel source | start/end operation, set-up, message handlers | runner, caches, vault |
| File replacement (`utils/fs.ts`), RAR rebuild (`rar5-modify.ts`) | archives on disk, temporary outputs | atomic write, atomic output with volumes, rename-overwrite, secure delete | every operation that writes |
| Add, copy/paste, temporary files | pending adds, the clipboard, session directory | init/run add, copy, paste, clean-up | webview, commands |
| Engine selection (`select-engine.ts`, `system7z.ts`, `bundled7z.ts`) | detection caches, child processes | select, detect, spawn, time-out, kill | commands, modification |
| WASM pipelines, codecs, tar | virtual file system of an engine instance | compress, extract, list, modify | `dispatchOp` |
| Archive tree and webview UI | lazily loaded tree, selection | expand, select, search | webview operations |
| Dialogs of the commands (`commands/*`) | the answers given so far | ask, go back, skip, leave | the user, the operations |
| Pure helpers (`utils/*`) | none | path, volume size, exclusion, progress arithmetic | all |

What is hard here, and what makes each component correct:

* **Runner.**  `drain` is suspended in the middle while anything else happens;
  crashes, time-outs and cancellation race with replies; listeners close over
  slots that later belong to other threads.  Correct when each request is held
  in one place until it is answered once, none waits while it could be served,
  and no thread works for nobody or with old settings.
* **Caches.**  Several windows share a directory; a store reads the index,
  awaits, and writes it back; hard links share bytes that deletion overwrites;
  the process may die between two writes.  Correct when nothing wrong is ever
  served, and what is lost can be rebuilt.
* **Lifecycle.**  Deactivation is asynchronous and may be overtaken by an
  activation.  Correct when secrets do not outlive their session and caches
  are dropped only when the extension is really gone.
* **Webview operations.**  A handler captures its state before an await; a
  second operation replaces the cancel source the first will dispose.
  Correct when the cancel button always reaches the running operation.
* **File replacement and archive edits.**  Correct when after a crash or failure
  at any point either the old archive or the new one is complete, and an edit
  that is reported as failed is not in it.
* **Pipelines.**  A function of the engines is a chain of calls, each of which
  can throw, inside `try`/`finally`/`catch` blocks that clean up, fall back to
  another engine or translate errors; a child process may hang or be abandoned;
  all 7-Zip instances of a thread share one virtual file system.  Correct when
  success means that everything was written, failure leaves nothing behind, and
  a cancellation ends as one.
* **Dialogs.**  An answer outlives a step taken back.  Correct when what the
  operation is started with is what the user last agreed to.

`PROJECT.json` lists the hazards one by one with their lines.

## 2. Plan

Order: what matters most first.  Done:

| step | modules | abstract specification | theorems |
|---|---|---|---|
| 1 worker pool | `WorkerRunner` | `JobService`, refined | `WorkerRunnerProofs`, `WorkerThreadsProofs` |
| 2 preview cache | `PreviewCache`, `MCPreviewCache` | | `PreviewCacheProofs` |
| 3 webview panel | `Panel`, `MCPanel` | | `PanelProofs` |
| 4 archive files and edits | `FileReplace`, `ArchiveEdit`, `MCArchiveEdit` | `ArchiveStore`, refined | `ArchiveEditProofs` |
| 5 pipelines | `Steps`, `WasmPrograms`, `HostPrograms`, `Operations`, `Pipeline`, `MCPipeline` | `Conventions`, `Outcomes`: conditions on program texts | `PipelineProofs`, with `MCOperations`, `MCWizard` |
| 6 session and listing cache | `ListingCache`, `Session`, `MCSession` | | `SessionProofs` |
| 7 dialogs | `CompressWizard` | | `CompressWizardProofs` |

`ArchiveEdit` extends `FileReplace` and runs its calls inside the operations;
`Session` runs the calls of `ListingCache` inside the life of the extension;
`Pipeline` gives the programs of `WasmPrograms` and `HostPrograms` a meaning.

Every safety property the runs check is now a theorem.  Worth doing next: the
fairness half of the two refinements cannot be proved here, but lemmas on the
enabledness of single steps could narrow what is left to TLC; and the components of
section 12 that a model could still reach.

## 3. The worker pool

### Modules

* `JobService` states what `run()` promises its callers: accepted jobs start in
  order, at most `Capacity` at a time, each is answered once, a waiting job may
  be withdrawn, closing cancels the rest.
* `WorkerRunner` is the detailed model: `runner.ts`, `handler.ts` and the two
  channels between them.
* `WorkerRunnerProofs` holds the theorems about requests, wakeups and the job
  service; `WorkerThreadsProofs` those about threads and their channels.

### State and actions

The host's variables are the fields of `WorkerThreadRunner` and its slots.
`pc` says where `drain()` is: `idle` (not running), `loop`, `wait` (suspended in
`await ensureSlotReady`), and `ready`/`fail` (the await has ended and the
microtask is about to continue).  While `pc` is `loop`, `ready` or `fail` only
`drain()` steps, because no other callback can run; everywhere else any
callback may.  `starting` is the thread whose listeners will end the await, and
`slotOf` is the slot object that a thread's listeners close over: when
`slots.pop()` drops a slot its thread keeps a slot nobody looks at (`None`).

Each thread has a phase: `boot` until it has taken `init`, `live`, `crashed`
(an `error` event is to come), `stopped` (only `exit` is to come), `gone`.
`chain` is the promise chain of the handler and `cancelled` its set.

One action is one callback or one turn of the loop of `drain()`: `Run`,
`CancelQueued`, `CancelAssigned`, `Reconfigure`, `Dispose`; `DrainAssign`,
`DrainRespawn`, `DrainGrow`, `DrainAllBusy`, `ResumeAssign`, `RespawnFailed`,
`GrowFailed`; `OnReady`, `OnReply`, `OnStaleReply`, `OnError`,
`OnUnexpectedExit`, `OnIgnoredExit`; `ReadyTimeout`, `TerminateDoomed`; and in
the threads `TakeInit` ... `TakeShutdown`, `Report`, `Finish`, `Crash`.
`Finished` lets the runner rest when every request is settled, so that TLC's
deadlock check means what it says.

### What is abstracted

Payloads, results, log and notify messages and error texts.  What the archive
operation does is its outcome: a result, an error, or a cancellation if the
thread knows of one.  The ids of requests start at 1 in each life of the
runner.  One assumption about the environment is a constant:

* `Punctual = TRUE`: events of threads come in time and in order.  The ready
  timer does not fire while a `ready` message or an event of the thread is on its
  way, and the thread does nothing in the turn between the timer and the
  `terminate()` of the catch that follows it (`GivenUp`); the `error` event does
  not overtake messages; and every thread that a slot had before is gone when its
  successor comes up (`PredecessorsGone`).  Node promises none of this (messages
  and events use different ports), so `LateGhost.cfg` and `LateHang.cfg`
  (section 10) show what happens without it.

Settings may change at any time, also while a thread starts.

### Runs

| run | question | result |
|---|---|---|
| `pool_of_one` | Does what threads do always belong to a waiting caller?  Does only a thread that is starting miss a change of settings?  Is every request answered, every thread ended, the job service implemented? | holds, 82 403 states |
| `pool_of_two` | Are requests conserved, wakeups kept, busy slots answered, and live threads never forgotten? | holds, 866 179 states |

Three more questions have the answer no (section 10).  Does an idle worker always have
the current settings (`FreshConfig`, `StaleConfig.cfg`)?  With events of threads in any
order, does no thread work for nobody (`NoGhostWork`, `LateGhost.cfg`), and can someone
still answer each request at work (`SomeoneAnswers`, `LateHang.cfg`)?

`MissedOnlyWhileStarting` is what remains of `FreshConfig`: a thread comes to stale
settings only by a change that fell into its start, never by a message that is
overtaken or by one `reconfigure()` did not send, and the next change mends it.

Bounds.  Two requests on one slot give every race of a request with its
predecessor; three on two slots give a queue behind a full pool.  `MaxFaults`
is 2: one loss to enter a recovery and one inside it.  `MaxThreads` is
`PoolSize + MaxFaults`, so a spawn is never disabled for want of threads.
`NoLeakedThread` is checked with three requests and two slots: an earlier,
weaker reading of `Punctual` passed with two requests, failed in the proof, and
was then refuted here.  One settings change shows
that only a start misses it; that the next change mends what the last one missed
needs `MaxConfig = 2`, which holds as well (275 647 states, four minutes, not a run)
and is proved.
`Cancellable`, `Polled` (tokens without an event, runner.ts:196) and
`Reporting` select the requests that can be cancelled, polled and that report
progress.

Fairness.  Event loops keep turning (`Drain`, `Listen`, `Handler`), timers
fire (`Timers`) and an archive operation ends (`Finish`).  Callers, faults and
progress are not fair.

### What is proved

Every safety property of the two runs, for all constants that satisfy
`RunnerAssumption`.

*Requests* (`WorkerRunnerProofs`, late events included).  `TypeCorrect`,
`RequestsConserved` and `WakeupsNotLost` have one inductive invariant, `IInv`: the
type invariant; `AwaitInv`, which says what `drain()` still knows after its await
(`starting` and `waitSlot` are set exactly while it is suspended, the slot it
waits for is not busy, and when it is growing that slot is the last one);
`RequestConserved`; and `NoLostWakeup`.  `AwaitInv` is needed because conservation
at `ResumeAssign` rests on the waited-for slot being free, which only the whole
history of the await guarantees.

*The job service* (`ImplementsService`, late events included): `Spec` implies the
safety part of `JobService`.  Each action is mapped to one action of it or to a
stutter; the one step that needs an argument is a start, where a slot that serves
nobody leaves room for one more job (`RoomForOne`, by cardinalities, since
`Running` is the set of the slots' requests).

*Threads* (`WorkerThreadsProofs`).  The invariant comes in two layers, because
they rest on different assumptions:

* `ShapeInv` holds however late events are: `ThreadShape` (what a thread holds at
  each phase), `SlotShape` (a slot and its thread know each other), `QueuedPolled`
  and `CancelTrail` (nobody speaks of a cancellation that was not asked for).  From
  it follows `CancelledWhenAsked`.
* `PunctualInv` adds what needs `Punctual`: `Closed` and `Held` (live threads have
  a slot, or after `dispose()` its timer), `Silent` (a thread that has lost its slot
  has nothing left to say, and until its exit is handled no successor is up),
  `AwaitEnds` (the await of `drain()` ends with a ready thread or one that never
  spoke), and `OneJob`, which joins all channels of a thread: it has at most one
  piece of work, its slot's current request, which is in its inbox, on its chain or
  answered.  From it follow `ThreadsNotLeaked`, `BusySlotsAnswered`, `WorkIsWanted`,
  `ProgressIsOwned` and `CancelsArrive`.  None of these parts is inductive alone:
  `OneJob` needs `Silent`, since a thread that is replaced while it speaks would
  answer for its successor, and `Silent` needs `AwaitEnds`.

`SettingsMissedAtStart` (`MissedOnlyWhileStarting`, late events included) needs
`ShapeInv` and one thing more (`Definite`): it is always known which settings a thread
is about to have.  The last ones in its inbox count, so what `reconfigure()` appends to
the inbox of a thread in service is what it will work with, and no other step of any
actor changes the last settings in an inbox.

`Punctual` is needed: without it `LateGhost.cfg` breaks `NoGhostWork` and
`LateHang.cfg` leaves a busy slot without a thread (section 10).

Model-checked only: liveness, and the fairness of the refinement.

The late exit of `LateGhost.cfg` also makes the slot forget its live thread, and
after a failed growth (`GrowFailed`) the oldest request is rejected even if a
worker became free meanwhile; `JobService` allows that as an answer.

## 4. The preview cache

### Modules

* `PreviewCache` models `providers/previewCache.ts` together with its user
  `previewFileFromArchive` (`providers/archive/modify.ts`) and the staging
  files of `providers/tempFiles.ts`.
* `MCPreviewCache` gives it two archives: `a`, which may be modified and then
  has another file, and `b`, a backup with the same file as the first `a`.
* `PreviewCacheProofs` holds its theorems.

### State and actions

The disk is `dir` (the inode of each cache name), `bytes` (the content of each
inode) and `index` (the content hash recorded for each name; a hash stands for
the content).  A cache name is the pair of an archive and its version, because
the code hashes path, mtime and size; the previewed file is one per archive.
`staged` is the session's staging file per key.  Each preview has its place
`pc`, its `key`, the bytes it read (`data`) and the copy of the index it
carries over the await of the write (`snap`); the sweep has `sweepSnap`.

The host is single-threaded.  Code that runs to its end without an await is
split into the steps a crash may separate (`Promote`, `Reclaim`,
`ReclaimIndex`, `Link`, `LinkIndex`; `SweepRead`, `SweepFiles`, `SweepMerge`,
`SweepIndex`), and `HostFree` keeps every other callback out while one of them
is under way.  Inside their loops the host may die as well: `CrashUnlinking`,
`CrashMerging` (a file may then be unlinked and not yet linked again) and
`CrashClearing` leave any part of the loop done.  Between `StartWrite`, `Rename` and `StoreIndex`, and during an
extraction, anything may happen.  `Clear` is atomic unless the host dies in it.
`Unlinked` is `secureUnlink`: it overwrites the inode, and so every hard link
to it.  `SweepMerge` takes every order in which the directory may be listed.

A record is `NoHash` when it is absent; an index without records is the absent
index, as `writeIndex` removes it.  Beyond `IndexCap` records it is too long to
be read.

### What is abstracted

Contents have one size, so that the size groups of `mergeDuplicates` are one
group.  Age and budget are a free choice of victims, except that a file stored
a moment ago survives.  Changes of archives, and the rename of the temporary
file, that fall into a synchronous section are ordered after it.  A version
never returns.  Not modelled: another window on the same directory, callers
that pass no origin, the index files of the first schema, left-over temporary
files, the sweep of a foreign directory, files tampered with from outside, and
previews of encrypted or large files, which never touch the cache.

### Runs

| run | question | result |
|---|---|---|
| `cache_faults` | Is a hit right, and a sweep complete, through crashes, failed writes and changing archives? | holds, 847 022 states |
| `cache_concurrent` | Do two overlapping previews keep records and links sound? | holds, 1 204 828 states |
| `cache_served_wrong` | Is a wrong file never served, beside an unreadable index either? | no (a finding) |

Three more have the answer no (section 10): does reclaiming one entry leave the bytes of
the others alone (`CopiesIndependent`, `CacheZeros.cfg`), does every stored file have a
record (`EveryFileRecorded`, `CacheRecords.cfg`), and is the file a preview opens there
(`PreviewOpens`, `CacheOpens.cfg`)?

Bounds. Two archives with equal contents are what deduplication needs, one
modification makes an entry an orphan with other contents, and `b` may be moved
away, which makes an orphan that can come back. `IndexCap` is out of reach
except in `cache_served_wrong`, where the second record makes the index
unreadable (`INDEX_MAX_BYTES`, which the writer does not observe). Two
concurrent previews give the races of stores, of staging files and of sweeps;
faults are checked with one preview, whose every step a crash may follow.
Concurrent previews are interchangeable, and no liveness is checked under that
symmetry. No fairness is assumed: an interrupted preview owes nothing.

### What is proved

`TypeCorrect` and `HitsTrusted` (`[]TrustedHit`) hold for all constants that
satisfy `CacheAssumption`: any archives, versions, contents, number of
concurrent previews, crashes and failed writes.  The types need `DataRead`
(what is being stored has been read).  `TrustedHit` needs `HonestInv`: every
hash in the system, be it in the index, in a staging file, in a preview's copy
or in the sweep's, is honest for its name, that is, it speaks of no version to
come and, if the archive still has that version, it is the hash of its file.
Honesty survives a modification because versions only grow, and a lost or stale
copy of the index because every copy is honest; what is on the disk need not be
considered at all, since a hit re-hashes it.  That is the strength of the
design, and `cache_served_wrong` shows where it ends: without a readable index
nothing is hashed again.

`LinksAreServed` and `SweepsSettle` (action properties) rest on `ThreadInv`, on
what the host's single thread keeps together.  `AloneInv`: no two previews are in
synchronous code.  `LinkedInv`: between the link and the write of its record no
sweep is under way and the bytes behind the link are the verified ones.
`SweptInv`: a sweep that could read the index works on the index that is on disk,
and from its merging on only records of unchanged archives, with a file each, are
left; a merge unlinks tampered files and zeroes shared inodes, but every file that
it keeps was a recorded one.  (That a merge may zero a file it keeps is why the
theorem speaks of files and records, not of their bytes: `CacheZeros.cfg`.)

## 5. Archive files and edits

### Modules

* `FileReplace` models `utils/fs.ts`: `renameOverwrite`, `atomicWriteFile` and
  `withAtomicOutput`, one system call a step.
* `ArchiveEdit` extends it with the operations on one archive: add, delete,
  rename, new folder, convert, merge and split, through every engine.
* `ArchiveStore` is what a user may expect of them, and is refined.
* `MCArchiveEdit` chooses the operations of two writers.

### State and actions

`disk` gives every path its content: the writer that made it, the edits it
holds, whether it is whole.  `call` is where a writer's `FileReplace` call
stands and which renames it has left; `op` is where the operation stands.  What
`selectEngine` and the dispatchers decide is `Engine` and `FirstStage`:

* worker: `Load`, then `WriteBack` (the pipelines of `modify-core.ts`), then the
  steps of `atomicWriteFile`;
* system 7-Zip: `NativeReads`, `NativeApplies` or `NativeAborts`,
  `NativeReturns`: the process may end before or after its timer;
* RAR binding: `BindingBegins` ... it edits the archive in place;
* RAR rebuild: `Extract`, `Mutate`, `Compressed`, then the swap `DropOldBackup`,
  `BackUp`, `Install`, `DropBackup` or `Restore`;
* conversions: `Unpack`, `Pack`, `PublishOutput`, `DiscardOutput`.

Threads and processes run beside each other.  The swap and the publication are
synchronous code of the extension host (`HostFree`), so no other host code runs
inside them, but a crash may follow any of their system calls, and an engine
may run there.

### Run

`archive_edits` (144 448 states) asks whether, of two overlapping operations, one
crash and two failing file operations, the archive or a whole copy of it
survives (`ArchiveOrCopy`), nothing torn stands under a name the user knows
(`OnlyBindingTears`), a failed operation has not edited (`FailedLeavesNoEdit`),
temporary files go (`NoLeftovers`), a split is complete (`SetIsComplete`), every
operation ends, and the edits implement `ArchiveStore`.  They do.

`Lost.cfg` asks for `ArchiveOrCopy` where a rename cannot replace a file that is
open, and `Overwrite.cfg` whether a conversion never replaces what another has
written (`NoSilentOverwrite`).  Neither holds (section 10).

Not caught by these properties, though the model has it: the tear of the archive the
binding edits (`OnlyBindingTears` only says that nothing else is torn), the part of a
set that a failed split has already moved, and an edit that a concurrent one drops.

`ArchiveStore` states what is given up as well.  Nothing makes two operations
wait for each other, so a commit drops the edits made since it read; a rebuild
that fails after its commit puts back what it had set aside (`Undo`); after more
mishaps than `Tolerated` the archive may be lost (`Lose`).

Bounds.  One writer adds or deletes, the other adds, merges or splits: an edit
against an edit, an edit against a rewrite of the archive under it, and an edit
against a reader that publishes a set elsewhere.  Rename and new folder take the
stages of an addition that has no binding.  Kinds `plain` and `rar5` bring in
every engine: a RAR4 archive or a RAR set uses the rebuild or the binding that
`rar5` uses, a wrapped one the worker.  Two volumes are a first and a last.  Two
faults are one and one inside its recovery.  `Fragile = FALSE` is a POSIX file
system; `Lost.cfg` (section 10) is the other one.

Fairness.  `WF(Step(w))`: promises settle, processes end or are given up, and
synchronous code runs on.  Starting, cancelling and crashing are not fair.

### Details of the abstraction

`Listings` is every order in which a directory may list the volumes that
`withAtomicOutput` collects.  `Erased` is said of an archive whose last member was
deleted.  For `ArchiveStore`, the content of the archive while its name is missing
is `Held`: that of the file a retried rename is about to bring, or of the backup of
a swap that is under way or was cut by a crash; `Based` is what each running
operation has read.

### What is proved

Every safety property of the run, and the refinement, for any operations of any
number of writers, any number of volumes, faults and crashes, and every kind of
archive, from `FileAssumption` and `EditAssumption` (names differ: a writer is no
stem, `Absent` is no content).

`ArchiveEditProofs` has the invariant `IInv`.  `StageInv` says what an operation can
be doing at each stage, `CallInv` and `MoveInv` that a file call belongs to an
operation that waits for it and moves its own files to where it puts them,
`OutputInv` and `TempsWhole` what those files hold, `Exclusive` that the host's
synchronous code is not shared, `SwapInv`, `TornInv` and `BackupInv` what lies in
the work directory, under the binding's hands and in the backup, `SilentInv` that
the edit of an operation is nowhere but in its own temporary files until its
commit.

* `TypeCorrect`, `BindingTears`: parts of it.
* `NoEditLeft` (an action property): `SilentInv` for a failure before the commit,
  `BackupInv` for one after it, which puts the backup back.
* `ArchiveKept` needs `CopyInv` beside it, which names the place where the content
  is while the archive's name is missing (a temporary file that a retry brings, the
  backup of a swap, or what a crash left of either), and why nobody then swaps over
  it.  It assumes `~Fragile`; `Lost.cfg` (section 10) shows that it must.
* `ImplementsStore`: the invariant `RInv` adds how mishaps are counted
  (`MishapInv`: who stands in a recovery has had a fault) and where a backup may come
  from after one mishap at most (`BackupFrom`, `CutInv`), which excludes that two
  interrupted replacements hold the content at once.  Then every action is mapped by
  the kind of step it is, to `Read`, `Commit` or `Rewrite` (`ArriveMapped`,
  `NativeMapped`, `BindingMapped`, `SwapMapped`), `Undo`, `Erase`, `Lose`, `End`, `Stop`
  or a stutter;
  `HeldSame` is the lemma that what moves between places does not change.  It holds
  for both kinds of file system, since `Tolerated` is 0 on the fragile one.

The last part of the module has the invariant `FInv`, on what operations leave behind.
`TempsLeft` says for each stage which temporary files there are.  Its hard part is
the publication of a set: `PackedOK` (the output has exactly the files of one
layout: the single file, or a numbered row of either naming), `PublishingOK` (each
of them either is where it was written and has its one turn in the list of renames,
or is where it was to go, with no other file there) and `CompleteOK`.  Renaming a
file takes it from the first group to the second (`MovedOn`); removing a destination
for the retry removes only the one whose turn it is (`StuckLeft`).  `PublishMoves`
shows that the listing, in whatever order, yields every file of the layout once; it
rests on a surjection between finite sets of equal size being injective.  `UsedInv`
says that a folder is empty until a split comes to its renames.  `NothingLeft` and
`SplitsComplete` follow.

TLC checked the strengthened invariants, this one on 690 000 states with two splits,
before they were proved.  Model-checked only: `EveryOperationEnds`.

## 6. Pipelines

### Modules

* `Steps` is a vocabulary: one step for each call that can fail, be cancelled or
  change something outside its function, and `Either`, `Loop`, `TryFinally`,
  `TryCatch`, `Worker` for the control around them.
* `WasmPrograms` writes down with it what the WASM engine does (`modify-core.ts`,
  `js7z-*.ts`, `codecs`), `HostPrograms` what the host does (`system7z.ts`,
  `rar5-engine.ts`, the commands, the conversion service, the API).  A function
  of the code is a definition, and a call is a use of it.
* `Pipeline` gives the steps their meaning: an exception unwinds the scopes and
  runs their handlers, a child process runs, closes, hangs, is killed or given
  up, the caller cancels, the worker thread is lost.
* `Operations` lists 26 operations with how each can be cancelled (`never`, by a
  `token` that calls late listeners too, by an AbortSignal, which does not) and
  what it promises: `delivers` (success means the whole output), `keeps` (a
  failure or cancellation leaves the archive), `keepsIfFailed`, `tidies`,
  `copiesOut` (it reads its files before the next `JS7z()`).  `MCPipeline` gives them to `Pipeline`.
* `Conventions` and `Outcomes` state what such programs keep to, as conditions on
  their texts; `PipelineProofs` proves what follows from each; `MCOperations` computes
  for the 26 operations the sets the conditions speak of, and `MCWizard` has TLC
  evaluate the conditions on them.

### State

`todo` is the rest of the program, `scopes` the try blocks around it; `vfs` the
files of the 7-Zip instance since the last `JS7z()`; `temps` the temporary files
and directories; `child` the awaited process or promise; `out` and `staged` the
output and the copy being written elsewhere.  Every choice on data is free.
Failures are not bounded: every step that can fail may fail, every time.

### Run

`pipelines` (23 002 states) checks each operation to its end: none that is to copy
its files out first reads one after a reset (`VirtualFilesKept`), nothing
is left behind (`NothingLeftBehind`), success is whole (`OkMeansWhole`), failure
keeps the archive (`FailedKeepsArchive`), a compressed archive that is one file
is removed when it is incomplete (`NoPartialOutput`), and a cancellation ends as
one (`CancelIsFinal`) without waiting for a process that hangs (`CancelEnds`).

`SecondTar.cfg` asks on the same programs whether no operation at all reads a file after
a reset (`CopiedOutFirst`).  One does, the preview of an archive with two inner tars:
its loop looks into the second after the look into the first has emptied the file
system (section 10).  That program, `previewFileCore`, is the one that does not promise
`copiesOut`; `previewOfOneTar` is the preview of the archives that hold one.

The properties exempt what the code gives up, each by a note the run sets:

* `gaveUp`: a timer or the output limit settles the promise without waiting for
  the process, which may then go on writing; what it does later is not modelled;
* `workerLost`: a thread that crashes or is terminated runs no `finally`, so its
  temporary directories stay;
* `leaked`: where the tar of a wrapped format was never written, its `unlink`
  throws and the `rmSync` of the directory in the same try block is skipped.

`addToArchiveSystem7z` and `renameInArchiveSystem7z` do not look at the exit
code and so do not promise to deliver; a deletion by 7-Zip may be done when it
is reported cancelled.  `NoPartialOutput` is promised for one file only: the
clean-up of the compress command knows no volumes.  An API caller whose signal
was aborted before the process is spawned waits for the timer.

Bounds.  Loops take no, one or two rounds; the second round is what reads a
file system the first has reset.  Operations are checked one at a time: a worker
thread runs one request after the other, and in the host they share no state
but the files, which section 5 covers.

Fairness.  The code runs on (`WF(Step)`); a token kills the process it was wired
to (`WF(KillChild)`), and a killed one closes; a process no token can kill ends
by itself or by its timer.  Nothing is assumed of a process that hangs.

### What is proved

Every invariant of the run, for every set of programs that keeps to the convention the
property depends on: programs of any length and nesting, whatever fails, hangs, is
cancelled or is lost.  The run visits every state of 26 programs; the theorems say why
those properties hold, and what the text of an operation that is changed or added has
to be like for them to hold of it too.

The control they share (`Control`, with the shape of each kind of step in `Moves`):
inside blocks a text ends by leaving the innermost one or with an exception, so a
handler is only ever run for its own block, and an exception ends the operation or
goes on with the handler of the innermost block that takes it (`Thrown`).

| theorem | convention (`Conventions`, `Outcomes`) | invariant |
|---|---|---|
| `CancellationIsFinal` | `PassesCancellation`: finally blocks only clean up; a catch block that takes a cancellation cleans up and throws it again | `CancelInv`: once thrown, it will be thrown again before anything else can happen |
| `VirtualFilesAreKept` | `KnowsFiles`: what is read was put or made since the last reset, and nothing counts as put behind a try block | `FileInv`: the text that is left is a known one whose files are there, and so is what each open block goes on with |
| `NothingIsLeftBehind` | `TidiesUp`: what is made is made inside, or right in front of, a try block whose finally block removes it; a staged copy by one outside of the worker thread | `TidyInv` (the text that is left stands in a context the open blocks guarantee), `TempInv` and `StageInv` (a block that removes it is open, or about to run, or to be entered) and `ChildInv` |
| `SuccessMeansWhole`, `FailureKeepsTheArchive`, `NoPartStaysBehind` | `Compositional`, and `Whole`, `KeptIfFailed`, `KeptIfCancelled`, `NeverTorn` of the endings | `OutcomeInv` |

The last three need to know what the output can be at each point.  `Outcomes` reads it
off the text, block by block: `Ends` gives for a text, and the output it begins with,
how it can end and with which output.  `OutcomeInv` says that this reading is sound
for the steps of `Pipeline`: around each open block there is a set of endings, each
block handles the endings of its body as its text says, an ending that comes out of
blocks that do not take it is one of theirs, and the text that is left ends in no way
but those of the innermost set.  Entering a block adds a set (`OutcomeEnters`), leaving
it and exceptions take sets away (`OutcomeLeaves`, `OutcomeLands`), and losing the
worker thread, at whatever depth, is an ending every text has (`OutcomeLost`).
`OutcomesAreTabled` is what follows: every operation ends as the table says.

That the operations of the extension keep to the conventions is a question about 26
given texts, not about runs.  The assumptions of `MCWizard` state it, hypothesis by
hypothesis, and TLC evaluates them in run `wizard`.  `KnowsFiles` is asked of the
operations that promise `copiesOut`, all but one.  Each of the changed programs that
`PROJECT.json` gives for these properties breaks the condition of its property.

From assumptions: `PipelineAssumption` and the conventions.  Model-checked only:
`CancelEnds`.

## 7. The webview panel

### Modules

* `Panel` models `providers/webview/*`: one panel of an encrypted archive, its
  handlers, set-ups and password attempts, with the page that sends the messages.
* `MCPanel` makes the messages interchangeable; `PanelProofs` holds its theorems.

### State and actions

A handler keeps the state it was dispatched with (`op[o].state`) over its
awaits, while `current` may become another; `states` holds password, listing and
cancel source of each.  A source is named by the operation that made it and is
`cancelled` or `disposed`.  `view` is what the page shows as a result of the
messages it was posted: the overlay blocks toolbar and tree, but not keyboard
shortcuts (`CanSend`); it is `locked` when the page put the overlay up itself.  The thirteen handlers are records that say when they
ask, whether they start a cancellable operation, put up the overlay, and edit;
`Dispatch`, `Dismiss`, `Accept`, `Work`, `WorkFails`, `Worked` is a handler,
`Setup` ... `Install`, `Expand` is `setupWebview`, `Submit`, `Try`, `TryFails`,
`Tried`, `Saved` is the submission of a password.  `Refuse` is a message the router
drops because it names a path like `../evil` or `a:b`, which the tree does show:
nothing is posted, and the lock of a deletion stays.  `Misdirect` is a target
directory that the handler refuses with an error.

### Runs

| run | question | result |
|---|---|---|
| `panel` | Is only a verified password kept?  Is every source settled, the overlay accounted for, an edit shown? | holds, 2 690 616 states |
| `superseded` | Does a new operation cancel every pending one? | no (a finding) |

Whether the overlay is always taken away (`OverlayClears`, `Refused.cfg`), and whether only
a verified password is kept for a `.7z` too (`Unverified.cfg`), has the answer no
(section 10).

`OverlayAccounted` is what remains of `OverlayClears`: when no operation is at work,
no overlay of the host is up, and a lock of the page only if its message was refused.

`EditShown` speaks of one edit; it exempts an edit that another operation
superseded, which leaves the panel alone (`left`), and an unlock that renders
the listing it had read before the edit (`unlocked`).

Bounds.  Three operations besides the opening of the panel: the first, the one
that supersedes it, and the one that should supersede both.  `HiddenNames` is
FALSE in the runs, so that the archive can be listed before it is unlocked.
`SevenZip` is FALSE because passwords of `.7z` archives are not tested at all
(`Unverified.cfg`).  No liveness and no fairness: a prompt may stay
open for ever.

### What is proved

Every safety property of the run, for any number of operations and with encrypted
names too, from `PanelAssumption` (an operation has a name other than `Nobody`, the
name of no operation).

* `VaultKept`: `VaultInv` adds to the types that an operation about to save has the
  right password (`Tested`), which depends on the value having been tested in the
  step before and on no later step exchanging it, and that messages come only from a
  panel that has a state (`Opened`), without which a handler would keep the state of
  nobody.  It holds for `.7z` archives too; `VaultHoldsVerified` (`OnlyVerifiedKept`)
  is what it gives where passwords are tested.
* `SourcesEndSettled`: `SourceInv` says that the source of an operation at work is the
  one its state holds, or is settled.  A source leaves a state in three ways: its
  successor cancels it, its own clean-up disposes it, or the state is replaced by a
  set-up; the last is harmless because the set-up makes a state of its own and
  handlers keep the one they were dispatched with (`StageInv`, `Placed`).
* `OverlayTakenAway` (`OverlayAccounted`): `OverlayInv` says that while the overlay is
  up some operation still promises to take it down (`Clears`), or it is the page's own
  lock and some message was refused.  The operation will render a page, post
  `loading: false`, or post an outcome, which only a cancelled one keeps back.  Who
  cancels it puts the overlay up and makes the promise in its place.
* `EditsAreShown`: `EditInv` says that a page with an older listing is owed a new one
  by an operation that has changed the archive (`Unshown`), or is excused
  (`Excused`); `Listed`, that a refresh installs a listing of the edited archive.

The last three have one lemma per handler, on what a step does to sources
(`Resources`), the overlay (`Overlaid`) and the listing (`Showing`).

## 8. Session and listing cache

### Modules

* `ListingCache` models `listingCache.ts` and its caller `fileListing.ts`: the
  look-up by stat, then by hash, the listing and the snapshot, each await a step.
* `Session` runs it inside the life of the extension (`extension.ts`) and adds
  the password vault (`passwordVault.ts`): launch, exit, update, `activate`,
  `deactivate` (which awaits the vault), the teardown timer, the daily sweep, the
  clear command.
* `MCSession` gives the archive two versions of different content;
  `SessionProofs` holds the theorems.

The module stays loaded when the extension is deactivated and activated again in
the same host, so `dir`, the directory of the caches, survives it; a new host
starts without.  VS Code awaits `deactivate`.  A host may exit at any step.

### Runs

| run | question | result |
|---|---|---|
| `session` | Is what the listing cache serves a listing the archive had while it was asked for? | holds, 3 448 872 states |
| `update_keeps_caches` | Are listings of another release gone after an update? | no (a finding) |

Two more have the answer no (section 10): does the content hash decide, also when the
archive is replaced meanwhile (`HashIsTruth`, `Raced.cfg`), and does a graceful shutdown
leave no password in the keychain (`KeysDeleted`, `LateKey.cfg`)?

`ServedRight` exempts `raced`: the archive was replaced while another call
stated or hashed it, and then snapshot.  The code takes the stat and the hash
one after the other with nothing to join them, and no order of the two would
exclude it; `Raced.cfg` is the case.

A save has three steps: asked for, stored in the keychain (or refused by it), noted.
`deactivate` asks for the deletion of what is noted, each deletion lands in its own
time, and then the extension is parked.  A save that this overtakes leaves its key
(`LateKey.cfg`).  The keychain is assumed to delete what it is asked to, and the keys of
an older session are not followed, since no session reads them; so what `deactivate`
does for the keys that are noted is not stated as a property of its own.

Bounds.  Two calls, so that one may snapshot while the other looks up; two
replacements, so that an old version may come back; two releases.  No fairness.

### What is proved

`ListingsServedRight`, for any versions, contents, calls, replacements and updates.
It rests on `CacheInv`: unless `raced`, the
snapshot and every temporary copy are of one version (its stat, hash and
listing agree), and each call still knows only what its stage allows.  That a
snapshot found by hash is rewritten with a new stat is why the invariant must
speak of the temporary files of every other call.

## 9. Dialogs

`CompressWizard` is the loop of numbered prompts of `commands/compress.ts`; what
is answered is kept in variables that outlive a step taken back.  `MCWizard` adds the
conditions on the operations that section 6 needs.  `wizard` (1 296 states) walks through it in every way: a RAR archive with a password hides its
names (`HeadersHidden`), and without going back, volumes, a password and recovery
volumes are only where they were asked for (`StraightAnswersAgree`).  Formats
`7z`, `rar`, `tar.gz` and `tar.lz4` are one of each class the code tells apart.
With going back, an earlier password stays: `WizardNo.cfg` (section 10).

Proved for any set of formats: `HeadersAreHidden` (by `YesInv`: a "Yes" turns
header encryption on for good, and the password step is reached only after a
"Yes", also by going back) and `StraightAnswersHold` (by `StraightInv`, which
says for each step what cannot have been answered yet).

## 10. Divergences

Seventeen configurations each end in a violation of one property, which states what a
comment, a test or a text of the source says.  The first three are runs of `PROJECT.json`,
with findings that quote the lines.  The others are beside the modules to be run by hand
with `tlc -config X.cfg M`; each finds its counterexample within seconds.

| configuration (module) | property | what the source says | what the run shows |
|---|---|---|---|
| `CacheServed.cfg` (`MCPreviewCache`): run `cache_served_wrong` | `NeverServedWrongly` | both reuse points re-hash the bytes (previewCache.ts:45) | not beside an index that is too long to be read (previewCache.ts:268) |
| `Superseded.cfg` (`MCPanel`): run `superseded` | `OneLiveOperation` | a new operation cancels any pending one (state.ts:29-31) | the end of one takes the source of the next away (state.ts:40) |
| `UpdateClears.cfg` (`MCSession`): run `update_keeps_caches` | `UpdateClears` | "stale-format leftovers never survive an update" (extension.ts:75-77) | the caches are cleared before they know their directories (extension.ts:80) |
| `StaleConfig.cfg` (`WorkerRunner`) | `FreshConfig` | "so the worker never runs with stale values" (runner.ts:94-95; also 155-156, extension.ts:139-141) | a thread that is starting was given the old ones and is passed over (runner.ts:161) |
| `LateGhost.cfg` (`WorkerRunner`) | `NoGhostWork` | "The request settles when the worker replies done/error (or crashes)" (runner.ts:308) | the late exit of a replaced thread finds the slot ready again (runner.ts:377) and rejects the request of its live thread |
| `LateHang.cfg` (`WorkerRunner`) | `SomeoneAnswers` | as above | the `ready` of a crashed thread makes the slot ready (runner.ts:333) without a worker; the next request waits for ever |
| `CacheZeros.cfg` (`MCPreviewCache`) | `CopiesIndependent` | "deduped copies are reclaimed independently per origin" (test/preview-cache.test.ts:776) | the shared inode is overwritten before one name is unlinked (previewCache.ts:361) |
| `CacheRecords.cfg` (`MCPreviewCache`) | `EveryFileRecorded` | "the whole index is always consistent or absent" (previewCache.ts:111-112) | of two stores the later write of the index drops the record of the earlier (previewCache.ts:444) |
| `CacheOpens.cfg` (`MCPreviewCache`) | `PreviewOpens` | "A failed promote (race, IO) degrades to temp — the preview still works" (archive/modify.ts:232-233) | two previews share the staging file; the first to be promoted removes it (archive/modify.ts:247) |
| `WizardNo.cfg` (`MCWizard`) | `NoMeansNo` | "No encryption" (i18n.ts:211-212) | the password of an earlier "Yes" is kept (compress.ts:442-451) |
| `SecondTar.cfg` (`MCPipeline`) | `CopiedOutFirst` | "data is copied out before the next JS7z() call" (js7z-factory.ts:21-25) | with two inner tars the preview reads after a reset (modify-core.ts:780-797) |
| `Unverified.cfg` (`MCPanel`) | `OnlyVerifiedKept` | "passwords are only written after a successful unlock" (passwordVault.ts:20-21, 59) | the password of a `.7z` is saved without a test (password.ts:48) |
| `Overwrite.cfg` (`MCArchiveEdit`) | `NoSilentOverwrite` | "converting must never silently overwrite" (convert.ts:30-31) | two conversions find the same free name (webview/helpers.ts:37-46), the second replaces the first |
| `Lost.cfg` (`MCArchiveEdit`) | `ArchiveOrCopy` | "a crash or failed write midway leaves the original file untouched" (utils/fs.ts:493-494) | the original is unlinked, the rename that follows fails too, and the clean-up deletes the copy (utils/fs.ts:481-513) |
| `LateKey.cfg` (`MCSession`) | `KeysDeleted` | "normal close/update does not leave the session's keys in the keychain" (passwordVault.ts:16-18) | a save that deactivate() overtakes stores a key nobody deletes (passwordVault.ts:64) |
| `Raced.cfg` (`MCSession`) | `HashIsTruth` | "The content hash is the single source of truth" (listingCache.ts:12-14) | an archive replaced between listing and hash gets the entries of another content (listingCache.ts:211-212) |
| `Refused.cfg` (`MCPanel`) | `OverlayClears` | the host's message replaces the overlay's text, or the dialog is shown (webview-ui/src/composables/archiveOps.ts:78-79) | a message the router refuses has no answer (router.ts:162-168) |

## 11. Proved and model-checked

| property | model-checked | proved for every instance |
|---|---|---|
| `WorkerRunner`: `TypeOK`, `RequestConserved`, `NoLostWakeup`, `CancelledOnRequest` | yes | yes |
| `WorkerRunner`: `NoLeakedThread`, `CurrentInFlight`, `NoGhostWork`, `ProgressReachesOwner`, `CancelReachesThread` | yes | yes, if `Punctual` |
| `WorkerRunner`: `MissedOnlyWhileStarting` | yes | yes |
| `WorkerRunner` implements `JobService` | yes | its safety part |
| `PreviewCache`: `TypeOK`, `TrustedHit`, `LinksServe`, `SweepSettles` | yes | yes |
| `Panel`: `SourcesSettled`, `OverlayAccounted`, `EditShown` | yes | yes |
| `Panel`: `OnlyVerifiedKept` | yes | yes, if not `SevenZip` |
| `ArchiveEdit`: `TypeOK`, `OnlyBindingTears`, `FailedLeavesNoEdit`, `NoLeftovers`, `SetIsComplete` | yes | yes |
| `ArchiveEdit`: `ArchiveOrCopy` | yes | yes, if not `Fragile` |
| `ArchiveEdit` implements `ArchiveStore` | yes | yes |
| `Session`: `ServedRight` | yes | yes |
| `CompressWizard`: `HeadersHidden`, `StraightAnswersAgree` | yes | yes |
| `Pipeline`: `CancelIsFinal`, `VirtualFilesKept`, `NothingLeftBehind`, `OkMeansWhole`, `FailedKeepsArchive`, `NoPartialOutput` | yes | yes, for programs that keep to the conventions, as TLC finds the operations do |
| liveness, the fairness of `JobService` | yes | no: fairness and ENABLED are out of the prover's reach |

Proofs assume the named assumptions on the constants and nothing else
(`RunnerAssumption`, `CacheAssumption`, `PanelAssumption`, `FileAssumption`,
`EditAssumption`, `ListingAssumption`, `SessionAssumption`, `WizardAssumption`,
`PipelineAssumption`),
besides the conditions in the table; a configuration of section 10 shows that
each of these cannot simply be dropped.  An invariant that turned out too weak was strengthened and
checked by TLC before it was proved; a proof that failed for a good reason corrected
the model twice, in `PredecessorsGone` (section 3) and in the end of a panel's
operations.

## 12. Not modelled

* The tables by which an engine is found and chosen (`detect`, capabilities of a
  format, versions): decisions on data without state.  `ArchiveEdit` and
  `HostPrograms` model what follows from each choice.
* The archive tree, its search, selection and lazy loading, and the folders
  remembered as expanded: synchronous state of a view that nothing else reads.
* Pure helpers (paths, sizes, exclusion, progress, parsing of 7-Zip output and
  of RAR headers): functions of strings that unit tests enumerate.
* Prompts' wording, translations, logging, packaging scripts.
* The clipboard of copy and paste and the temporary directory of a session: one
  await each, around the user's own order of actions; their two hazards are
  listed without a property.
* A second window of the editor on the same cache directory, and files tampered
  with from outside.
* Registration of commands and configuration listeners, apart from the change of
  settings in the runner.
* What a child process does after its timer gave it up.
