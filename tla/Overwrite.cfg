SPECIFICATION Spec
CONSTANTS
  v = v
  w = w
  Absent = Absent
  Writer = {v, w}
  Stem = {"arc", "bak", "out", "out1", "dir", "dir1"}
  SetStem = {"dir", "dir1"}
  MaxVolumes = 1
  MaxFaults = 0
  MaxCrashes = 0
  Fragile = FALSE
  Kinds = {"plain"}
  Acts <- MCConverts
PROPERTIES
  NoSilentOverwrite
CHECK_DEADLOCK FALSE
