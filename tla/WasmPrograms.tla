---------------------------- MODULE WasmPrograms ----------------------------
(***************************************************************************)
(* The operations that run on a worker thread with the 7-Zip WASM engine   *)
(* (engines/*-core.ts and the codecs), as programs of Steps.  All instances*)
(* a function calls js7z, js7z2, js7z3 are the one instance of the thread, *)
(* and every await JS7z() empties its file system.  Dispose is a no-op.    *)
(***************************************************************************)
EXTENDS Steps

\* js7z-factory.ts: load the engine once, rebind the callbacks, resetFS.
JS7z == << Reset >>
\* vfs-io.ts: the volumes of a split set, or one file, into the file system.
streamToVFS(f) == << Check, Put(f) >>
checkArchiveInputSize == << Check >>
copyInputsToFS == << Poll, Put("in") >>
\* js7z-helpers.ts: exit codes 0 and 1 resolve, others and a throw reject.
run7z(reads, makes) == << Main(reads, makes) >>

----------------------------------------------------------------------------
\* Codecs.

wasmCompressFile ==
  JS7z \o streamToVFS("input.bin") \o run7z({"input.bin"}, {"coded"})
    \o << Get("coded"), Check >>

wasmDecompressFile ==
  JS7z \o streamToVFS("coded") \o run7z({"coded"}, {"output.bin"})
    \o << Check, Get("output.bin"), Check >>

wasmCompressUntidy ==
  << Temp("sawc_"), Check >> \o wasmCompressFile \o << Check, Drop("sawc_") >>
wasmCompress ==
  << Temp("sawc_"),
     TryFinally(<< Check >> \o wasmCompressFile \o << Check >>, << Drop("sawc_") >>) >>

wasmDecompress ==
  << Temp("sawd_"),
     TryFinally(<< Check >> \o wasmDecompressFile \o << Check >>, << Drop("sawd_") >>) >>

\* The child is spawned without a token or a timer.  A failing child is not
\* an error: the functions answer false or null and the caller falls back.
run7zz == << Child(FALSE, FALSE, TRUE, "none") >>
nativeCompressFile(fallback) ==
  << TryCatch(<< Child(FALSE, FALSE, TRUE, "none") >>, Failure, fallback) >>
nativeDecompressFile(fallback) ==
  << Temp("sa7zn_"),
     TryCatch(<< TryFinally(run7zz \o << Check >>, << Drop("sa7zn_") >>) >>,
              Failure, fallback) >>
nativeCompress(fallback) ==
  << TryCatch(<< Temp("sa7nzc_"),
                 TryFinally(<< Check >> \o nativeCompressFile(<< Throw("null") >>)
                              \o << Check >>, << Drop("sa7nzc_") >>) >>,
              {"null"}, fallback) >>
nativeDecompress(fallback) ==
  << TryCatch(<< Temp("sa7nzd_"),
                 TryFinally(<< Check >> \o nativeDecompressFile(<< Throw("null") >>)
                              \o << Check >>, << Drop("sa7nzd_") >>) >>,
              {"null"}, fallback) >>

\* The zstd executable comes first, then the bundled 7zz, then WASM.
systemCompressBuffer(fallback) == << TryCatch(<< Check >>, Failure, fallback) >>
systemDecompressBuffer(fallback) == << TryCatch(<< Check >>, Failure, fallback) >>
zstdCompress ==
  << Either(<< wasmCompress, nativeCompress(wasmCompress),
               systemCompressBuffer(nativeCompress(wasmCompress)) >>) >>
zstdDecompress ==
  << Either(<< wasmDecompress, nativeDecompress(wasmDecompress),
               systemDecompressBuffer(nativeDecompress(wasmDecompress)) >>) >>
fallbackNativeThenWasm == nativeCompressFile(wasmCompressFile)
zstdCompressFile ==
  << Either(<< wasmCompressFile, fallbackNativeThenWasm,
               << TryCatch(<< Child(FALSE, TRUE, TRUE, "none") >>, Failure,
                           fallbackNativeThenWasm) >> >>) >>

lz4CompressFile == << Either(<< wasmCompressFile, nativeCompressFile(wasmCompressFile) >>) >>
lz4Compress == << Either(<< wasmCompress, nativeCompress(wasmCompress) >>) >>
lz4Decompress == << Either(<< wasmDecompress, nativeDecompress(wasmDecompress) >>) >>
lz4DecompressFile ==
  << Either(<< wasmDecompressFile, nativeDecompressFile(wasmDecompressFile) >>) >>

\* Brotli prefers Node's zlib; "bundled" falls back to it, not to WASM.
nodeCompressFile == << Check >>
nodeDecompressFile == << Check >>
brotliCompress == << Either(<< << Check >>, nativeCompress(<< Check >>), wasmCompress >>) >>
brotliDecompress == << Either(<< << Check >>, nativeDecompress(<< Check >>), wasmDecompress >>) >>
brotliCompressFile ==
  << Either(<< nodeCompressFile, nativeCompressFile(nodeCompressFile), wasmCompressFile >>) >>
brotliDecompressFile ==
  << Either(<< nodeDecompressFile, nativeDecompressFile(nodeDecompressFile),
               wasmDecompressFile >>) >>

\* Snappy is a binding and never touches the 7-Zip instance.
snappyCompressFile == << Check >>
snappyCompress == << Check >>
snappyDecompress == << Check >>
snappyDecompressFile == << Check >>

\* The in-memory codecs of the wrapped formats the 7-Zip engine cannot open.
codecDecompress == << Either(<< brotliDecompress, lz4Decompress, snappyDecompress >>) >>

----------------------------------------------------------------------------
\* Compressing and extracting.

\* tar-writer.ts: walk and total the inputs, polling, then stream the tar.  A
\* failed or cancelled walk leaves no file at all.
collectTarPaths == << Poll, Check >>
computeTotalBytes == << Poll, Check >>
createTarFile(saved) == << Check >> \o computeTotalBytes \o collectTarPaths \o << saved, Poll >>

writeVolumeFiles == << Get("archive"), Write >>

\* The two branches of the tar backend of a wrapped format.
wasmTarBackend ==
  << Check, Poll >> \o copyInputsToFS \o run7z({"in"}, {"tar"})
    \o << Get("tar"), Temp("tar") >>
compressWrapped ==
  << Temp("sat_"),
     TryFinally(<< Either(<< wasmTarBackend, createTarFile(Temp("tar")) >>), Poll,
                   Either(<< zstdCompressFile \o << Check >>,
                             lz4CompressFile \o << Check >>,
                             brotliCompressFile \o << Check >>,
                             snappyCompressFile \o << Check >>,
                             JS7z \o streamToVFS("tar") \o run7z({"tar"}, {"archive"})
                               \o << Get("archive") >> >>),
                   Poll, Write >>,
                << DropAfter("tar", "sat_") >>) >>
\* The volumes are written without a last look at the token.
compressPlain ==
  copyInputsToFS \o << Poll >> \o run7z({"in"}, {"archive"})
    \o << Either(<< writeVolumeFiles, << Get("archive"), Poll, Write >> >>) >>
compressWith7z ==
  JS7z \o << Check, Either(<< compressWrapped, createTarFile(Write), compressPlain >>) >>

\* Up to UNWRAP_MAX_DEPTH rounds over the tars of the output directory.
unwrapInnerTar ==
  << Check,
     Loop(<< Poll >> \o JS7z \o streamToVFS("tar") \o run7z({"tar"}, {"inner"})
            \o << Get("inner"), WriteTree >>) >>
decompressCodecWrapper(codec) ==
  checkArchiveInputSize
    \o << Temp("sa?_"),
          TryFinally(codec \o JS7z \o streamToVFS("tar") \o run7z({"tar"}, {"out"})
                       \o << Poll, Get("out"), WriteTree >>,
                     << Drop("sa?_") >>) >>
    \o unwrapInnerTar
decompressWith7z ==
  << Check,
     Either(<< decompressCodecWrapper(brotliDecompressFile),
               decompressCodecWrapper(lz4DecompressFile),
               decompressCodecWrapper(snappyDecompressFile),
               decompressCodecWrapper(<< Check >> \o zstdDecompress \o << Check >>),
               JS7z \o checkArchiveInputSize \o streamToVFS("archive")
                 \o run7z({"archive"}, {"out"}) \o << Poll, Get("out"), WriteTree >>
                 \o unwrapInnerTar >>) >>

copyFromFSWithStrip(dir) == << Get(dir), WriteTree >>
\* A selection that matched nothing is extracted again in full.
extractWrapped ==
  JS7z
    \o << Either(<< << Check >> \o codecDecompress \o << Put("tar") >>,
                    streamToVFS("archive") \o << Main({"archive"}, {"tar"}), Check >> >>),
          Poll, Get("tar") >>
    \o JS7z
    \o << Put("tar"), Main({"tar"}, {"_x2"}), Optional(<< Main({"tar"}, {"_x2"}) >>),
          Poll, Check >>
    \o copyFromFSWithStrip("_x2")
extractSelectedCore ==
  << Either(<< extractWrapped,
               JS7z \o streamToVFS("archive")
                 \o << Main({"archive"}, {"out"}), Optional(<< Main({"archive"}, {"out"}) >>),
                       Poll, Check >>
                 \o copyFromFSWithStrip("out") >>) >>

----------------------------------------------------------------------------
\* Modifying, previewing and listing.

\* The codec may call JS7z() itself, so the inner tar is written after it; the
\* modified tar is read before the archive is compressed again.
outerTarEarly ==
  << Put("_w1") >> \o codecDecompress \o << Get("_w1") >>
outerTar ==
  << Either(<< codecDecompress \o << Put("_w1") >>,
               << Put("archive"), Main({"archive"}, {"_w1"}), Check >> >>),
     Get("_w1") >>
withWrappedArchiveCore(innerOp) ==
  << Check >> \o JS7z \o outerTar \o JS7z \o << Put("inner") >> \o innerOp
    \o << Get("inner"),
          Either(<< zstdCompress, lz4Compress, brotliCompress, snappyCompress,
                    JS7z \o << Put("_re.tar"), Main({"_re.tar"}, {"_re"}), Get("_re") >> >>),
          Poll, Replace >>

copyLocalToFSWithPrefix == << Poll, Check, Put("in") >>

addToArchiveCore ==
  << Either(<< withWrappedArchiveCore(copyLocalToFSWithPrefix
                                        \o << Main({"inner", "in"}, {"inner"}) >>),
               << Check >> \o JS7z \o streamToVFS("archive") \o copyLocalToFSWithPrefix
                 \o << Main({"archive", "in"}, {"archive"}), Poll, Get("archive"), Replace >> >>) >>
\* No poll: a deletion that reached callMain is written back.
deleteFromArchiveCore ==
  << Either(<< withWrappedArchiveCore(<< Main({"inner"}, {"inner"}) >>),
               JS7z \o streamToVFS("archive")
                 \o << Main({"archive"}, {"archive"}), Get("archive"), Replace >> >>) >>
renameInArchiveCore ==
  << Either(<< withWrappedArchiveCore(<< Check, Main({"inner"}, {"inner"}) >>),
               << Check >> \o JS7z \o streamToVFS("archive")
                 \o << Check, Main({"archive"}, {"archive"}), Poll, Get("archive"), Replace >> >>) >>
createFolderInArchiveCore ==
  << Either(<< withWrappedArchiveCore(<< Put("dot"), Main({"inner", "dot"}, {"inner"}) >>),
               << Check >> \o JS7z \o streamToVFS("archive")
                 \o << Put("dot"), Main({"archive", "dot"}, {"archive"}), Poll,
                       Get("archive"), Replace >> >>) >>

unwrapArchives(tar) ==
  << Get(tar) >> \o JS7z \o << Put("inner"), Main({"inner"}, {"_pv2"}), Get("_pv2") >>
notFound == << Throw("failed") >>
\* One turn of the loop over the inner tars: an error leads on to the next.
unwrapOr(tar, next) == << TryCatch(unwrapArchives(tar), Failure, next) >>
\* The previewed file is read directly or, if it is not there, out of the inner
\* tars the archive holds, at most tars (1 or 2) of them, in turn.
previewFileCore(tars) ==
  << Check >> \o JS7z
    \o << Either(<< << Check >> \o codecDecompress \o << Put("archive") >>,
                    streamToVFS("archive") >>),
          Main({"archive"}, {"_pv/file", "_pv/1.tar", "_pv/2.tar"}),
          Optional(<< Main({"archive"}, {"_pv/file", "_pv/1.tar", "_pv/2.tar"}) >>),
          Either(<< << Get("_pv/file") >>,
                    notFound,
                    unwrapOr("_pv/1.tar", notFound),
                    unwrapOr("_pv/1.tar", IF tars = 1 THEN notFound
                                          ELSE unwrapOr("_pv/2.tar", notFound)) >>),
          Check, Write >>
testArchiveCore ==
  << Check >> \o JS7z \o << Put("archive"), Main({"archive"}, {}) >>

writeLargeVFS(f) == << Put(f) >>
readDirEntries(dir) == << Get(dir) >>
listFilesWasm == JS7z \o streamToVFS("archive") \o << Main({"archive"}, {}), Check >>
isEncryptedWasm ==
  << Check >> \o JS7z \o streamToVFS("archive")
    \o << TryCatch(<< Main({"archive"}, {}) >>, Failure, << >>) >>
extractAndList ==
  JS7z \o writeLargeVFS("tar") \o << Main({"tar"}, {"_lx"}) >> \o readDirEntries("_lx")
listViaExtract ==
  checkArchiveInputSize \o << Check >> \o JS7z
    \o << Either(<< codecDecompress \o extractAndList,
                    << Put("archive"), Main({"archive"}, {"_ls"}),
                       Either(<< << Get("_ls") >> \o extractAndList,
                                 readDirEntries("_ls") >>) >> >>) >>
\* A listing that fails answers the empty list; a missing volume is an error.
fetchFileListCore ==
  << Either(<< listViaExtract,
               << TryCatch(listFilesWasm, Failure, << Optional(<< Throw("failed") >>) >>) >> >>) >>
=============================================================================
