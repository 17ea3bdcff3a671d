---------------------------- MODULE Operations -----------------------------
(***************************************************************************)
(* Every operation of the extension: its program, how its caller can       *)
(* cancel it and what it promises, as Pipeline takes them.                 *)
(***************************************************************************)
EXTENDS HostPrograms

\* Every operation but the preview of an archive with two inner tars reads its
\* files of the 7-Zip instance before it asks for the next instance.
Op(steps, token, promises) ==
  [steps |-> steps, token |-> token, promises |-> promises \cup {"copiesOut"}]
OnWorker(steps, promises) == Op(<< Worker(steps) >>, "token", promises)
Edit == {"delivers", "keeps"}

HostOps ==
  [compressCommand |-> Op(compressCommand(FALSE), "token", {"delivers", "tidies"}),
   compressToVolumes |-> Op(compressCommand(TRUE), "token", {"delivers"}),
   decompressCommand |-> Op(decompressCommand, "token", {"delivers"}),
   extractSelected |-> Op(extractSelected, "token", {"delivers"}),
   compress |-> Op(compress, "signal", {"delivers"}),
   decompress |-> Op(decompress, "signal", {"delivers"}),
   convertArchive |-> Op(convertArchive, "token", Edit),
   listWithSystem7z |-> Op(listWithSystem7z, "never", {}),
   testArchiveWithSystem7z |-> Op(testArchiveWithSystem7z, "never", {}),
   addToArchiveSystem7z |-> Op(addToArchiveSystem7z, "never", {"keeps"}),
   deleteFromArchiveSystem7z |->
     Op(deleteFromArchiveSystem7z, "token", {"delivers", "keepsIfFailed"}),
   renameInArchiveSystem7z |-> Op(renameInArchiveSystem7z, "never", {"keeps"}),
   listRar5Entries |-> Op(listRar5Entries, "never", {}),
   extractWithRar5 |-> Op(extractWithRar5, "token", {"delivers"}),
   appendWithRar5 |-> Op(appendWithRar5, "token", {"delivers"}),
   deleteWithRar5 |-> Op(deleteWithRar5, "never", {"delivers"}),
   repairCommand |-> Op(repairCommand, "never", {"delivers"}),
   rebuildVolumesCommand |-> Op(rebuildVolumesCommand, "never", {"delivers"})]

WorkerOps ==
  [addToArchiveCore |-> OnWorker(Wasm!addToArchiveCore, Edit),
   deleteFromArchiveCore |-> OnWorker(Wasm!deleteFromArchiveCore, Edit),
   renameInArchiveCore |-> OnWorker(Wasm!renameInArchiveCore, Edit),
   createFolderInArchiveCore |-> OnWorker(Wasm!createFolderInArchiveCore, Edit),
   previewFileCore |-> [steps |-> << Worker(Wasm!previewFileCore(2)) >>, token |-> "token",
                        promises |-> {"delivers"}],
   previewOfOneTar |-> OnWorker(Wasm!previewFileCore(1), {"delivers"}),
   testArchiveCore |-> OnWorker(Wasm!testArchiveCore, {}),
   fetchFileListCore |-> OnWorker(Wasm!fetchFileListCore, {})]

AllOps == [p \in DOMAIN HostOps \cup DOMAIN WorkerOps |->
             IF p \in DOMAIN HostOps THEN HostOps[p] ELSE WorkerOps[p]]
=============================================================================
