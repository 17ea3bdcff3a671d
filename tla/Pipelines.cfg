SPECIFICATION FairSpec
CONSTANTS
  Programs <- AllOps
INVARIANTS
  VirtualFilesKept
  NothingLeftBehind
  OkMeansWhole
  FailedKeepsArchive
  NoPartialOutput
  CancelIsFinal
PROPERTIES
  CancelEnds
