SPECIFICATION Spec
CONSTANTS
  v = v
  w = w
  Absent = Absent
  Writer = {v, w}
  Stem = {"arc", "bak", "out", "out1", "dir", "dir1"}
  SetStem = {"dir", "dir1"}
  MaxVolumes = 1
  MaxFaults = 1
  MaxCrashes = 0
  Fragile = TRUE
  Kinds = {"wrapped"}
  Acts <- MCActs
INVARIANTS
  ArchiveOrCopy
CHECK_DEADLOCK FALSE
