SPECIFICATION Spec
CONSTANTS
  Ops = {o1, o2, o3}
  Open = Open
  HiddenNames = FALSE
  SevenZip = TRUE
CHECK_DEADLOCK FALSE
INVARIANTS
  OnlyVerifiedKept
SYMMETRY MCSymmetry
