---------------------------- MODULE HostPrograms ----------------------------
(***************************************************************************)
(* The operations of the extension host: those that spawn 7-Zip            *)
(* (engines/system7z.ts), call the RAR binding (engines/rar5-engine.ts) or *)
(* hand the work to a worker thread, and the dispatchers, commands and     *)
(* services that choose among them, as programs of Steps.                  *)
(***************************************************************************)
EXTENDS Steps

Wasm == INSTANCE WasmPrograms

\* A cleanup that runs when the body throws; the error goes on.
OnError(body, cleanup) ==
  << TryCatch(<< TryCatch(body, Failure, cleanup \o << Throw("failed") >>) >>,
              {"cancelled"}, cleanup \o << Throw("cancelled") >>) >>

----------------------------------------------------------------------------
\* system7z.ts: two ways to run 7-Zip.

\* The token kills it, ten minutes or 500 MB of output end it, a bad exit
\* code rejects, and a cancelled token rejects whatever the exit code.
run7zAnyCode(writes) == << Child(TRUE, TRUE, FALSE, writes) >>
run7z(writes) == << Child(TRUE, TRUE, TRUE, writes) >>
\* The same timer and limit, no token, and the exit code is the caller's.
spawnCapture(writes) == << Child(FALSE, TRUE, FALSE, writes) >>
spawnCaptureInCwd(writes) == spawnCapture(writes)

\* A listing that fails is ignored; what it lists may be refused.
preflightSystem7z ==
  << TryCatch(spawnCapture("none") \o << Either(<< << >>, << Throw("unsafe") >> >>) >>,
              {"failed"}, << >>) >>
walkDir == << >>
moveEntry == << Write >>
moveMerge == << Check >> \o moveEntry
\* A link or an escaping path removes the staging directory.
verifyStagingDir(staging) ==
  walkDir \o << Either(<< << >>, << Drop(staging), Throw("unsafe") >> >>) >>

\* An existing output is unlinked first: `7z a` would merge into it.
compressWithSystem7z ==
  << Check, Remove,
     Either(<< << Temp("sat_"),
                  TryFinally(Wasm!collectTarPaths \o << Temp("tar") >> \o run7z("none")
                               \o run7z("create"),
                             << Drop("tar"), Drop("sat_") >>) >>,
               << Check >> \o run7z("create") >>) >>

decompressWithSystem7z ==
  << Check >> \o preflightSystem7z
    \o << Temp(".sa7z_"),
          TryFinally(run7z("none") \o verifyStagingDir(".sa7z_") \o moveMerge,
                     << Drop(".sa7z_") >>) >>
extractSelectedWithSystem7z ==
  << Check >> \o preflightSystem7z
    \o << Temp(".sa7zs_"),
          TryFinally(run7z("none") \o verifyStagingDir(".sa7zs_") \o moveMerge,
                     << Drop(".sa7zs_") >>) >>
unwrapInnerTarsWithSystem7z ==
  << Check,
     Loop(<< Poll >> \o preflightSystem7z
            \o << Temp(".sa7zu_"),
                  TryFinally(run7z("none") \o verifyStagingDir(".sa7zu_") \o << Check >>
                               \o moveMerge,
                             << Drop(".sa7zu_") >>) >>) >>

\* Exit codes are not looked at: what the listing shows is the answer.
listWithSystem7z == << Check >> \o spawnCapture("none")
isEncryptedSystem7z ==
  << Check,
     TryCatch(spawnCapture("none"), Failure,
              << TryCatch(spawnCapture("none"), Failure, << >>) >>) >>
testArchiveWithSystem7z == << Check >> \o spawnCapture("none")

\* The staged copy of the added files; nothing to add is not an error.
copyDirRecursive == << Check >>
addToArchiveSystem7z ==
  << Check, Temp("saa_"),
     TryFinally(copyDirRecursive \o spawnCaptureInCwd("replace"), << Drop("saa_") >>) >>
slowSolidLzma2DictExp == << TryCatch(spawnCaptureInCwd("none"), Failure, << >>) >>
deleteFromArchiveSystem7z == << Check >> \o slowSolidLzma2DictExp \o run7z("replace")
renameInArchiveSystem7z == << Check >> \o spawnCaptureInCwd("replace")

----------------------------------------------------------------------------
\* rar5-engine.ts: promises of the binding, with an abort signal or without.

loadNativeBinding == << Check >>
loadWasmBinding == << Check >>
\* "auto" tries the native binding first.
loadBinding ==
  << Either(<< loadWasmBinding, loadNativeBinding,
               << TryCatch(loadNativeBinding, Failure, loadWasmBinding) >> >>) >>
collectEntries == << Check >>
totalBytes == << Check >>

cleanupPartialOutput == << Remove >>
\* A token that was cancelled while the binding finished counts.
compressWithRar5 ==
  loadBinding \o collectEntries \o totalBytes
    \o << TryCatch(<< Binding(TRUE, TRUE), Poll >>, {"cancelled"},
                   cleanupPartialOutput \o << Throw("cancelled") >>) >>
listRar5Entries == loadBinding \o << Check >>
extractWithRar5 == loadBinding \o << Binding(TRUE, TRUE) >>
appendWithRar5 == loadBinding \o collectEntries \o << Binding(TRUE, TRUE) >>
expandRarSelection == << Check >>
deleteWithRar5 ==
  loadBinding \o << Binding(FALSE, FALSE) >> \o expandRarSelection \o << Binding(FALSE, TRUE) >>
repairWithRar5 == loadBinding \o << Binding(FALSE, TRUE) >>
rebuildMissingVolumesWithRar5 == loadBinding \o << Binding(FALSE, TRUE) >>

----------------------------------------------------------------------------
\* js7z-compress.ts, js7z-decompress.ts, js7z-list.ts: choice of the engine.
\* Under backend.7z = "auto" a failure of 7-Zip falls back to WASM; under
\* "native" and "bundled" it is final.

fallback(program) == << Either(<< << Throw("failed") >>, << Worker(program) >> >>) >>
\* The fallback takes every error, the cancellation too.
compressWith7zRetrying ==
  << TryCatch(compressWithSystem7z, AnyError, fallback(Wasm!compressWith7z)) >>
compressWith7z ==
  << Either(<< compressWithRar5,
               << TryCatch(compressWithSystem7z, Failure, fallback(Wasm!compressWith7z)) >>,
               << Worker(Wasm!compressWith7z) >> >>) >>
decompressWith7z ==
  << Either(<< << TryCatch(decompressWithSystem7z \o unwrapInnerTarsWithSystem7z, Failure,
                           fallback(Wasm!decompressWith7z)) >>,
               << Worker(Wasm!decompressWith7z) >> >>) >>
isEncrypted == << Either(<< isEncryptedSystem7z, << Worker(Wasm!isEncryptedWasm) >> >>) >>

----------------------------------------------------------------------------
\* Commands, providers and services.

\* commands/compress.ts from line 709: the dialogs of the command are in
\* CompressWizard.  Any error removes the output file; the volumes of a split
\* archive have other names and stay.
compressCommandUntidy(split) == compressWith7z
compressCommand(split) == OnError(compressWith7z, IF split THEN << >> ELSE << Remove >>)
\* api/compress.ts leaves the output to its caller.
compress == << Check >> \o compressWith7z

\* Detection errors only skip the password; a prompt may be dismissed.
promptPassword == << Either(<< << >>, << Throw("cancelled") >> >>) >>
confirmDestinationConflicts ==
  << TryCatch(listWithSystem7z, Failure, << >>),
     Either(<< << >>, << Throw("cancelled") >> >>) >>
\* The output folder is dropped again only when it is empty.
decompressSingleFile ==
  << Check, TryCatch(isEncrypted \o promptPassword, Failure, << >>),
     Optional(confirmDestinationConflicts), Check >>
    \o OnError(decompressWith7z, << >>)
\* A batch goes on with the next archive.
decompressCommand == decompressSingleFile
decompress == << Check >> \o decompressWith7z

extractSelected ==
  << Either(<< extractSelectedWithSystem7z, << Worker(Wasm!extractSelectedCore) >> >>) >>

\* A repair and a rebuild cannot be cancelled.
repairCommand == << Check >> \o repairWithRar5 \o << Check >>
missingVolumeNumbers == << Check >>
rebuildVolumesCommand == missingVolumeNumbers \o << Check >> \o rebuildMissingVolumesWithRar5

\* services/archiveService.ts: everything is extracted to a temporary
\* directory and packed again beside the target (utils/fs.ts).
withOutputInPlace(write) == << Unstage >> \o write
withAtomicOutput(write) ==
  << Stage, TryFinally(write \o << Publish >>, << Unstage >>) >>
convertArchive ==
  << Temp("sa_cvt_"),
     TryFinally(<< Stage >> \o decompressWith7z \o << Poll, Check >>
                  \o withAtomicOutput(compressWith7z),
                << Drop("sa_cvt_"), Unstage >>) >>
=============================================================================
