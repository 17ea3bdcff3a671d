SPECIFICATION FairSpec
CONSTANTS
  v = v
  w = w
  Absent = Absent
  Writer = {v, w}
  Stem = {"arc", "bak", "out", "out1", "dir", "dir1"}
  SetStem = {"dir", "dir1"}
  MaxVolumes = 2
  MaxFaults = 2
  MaxCrashes = 1
  Fragile = FALSE
  Kinds = {"plain", "rar5"}
  Acts <- MCActs
INVARIANTS
  TypeOK
  OnlyBindingTears
  ArchiveOrCopy
  NoLeftovers
  SetIsComplete
PROPERTIES
  FailedLeavesNoEdit
  ImplementsArchiveStore
  EveryOperationEnds
CHECK_DEADLOCK FALSE
