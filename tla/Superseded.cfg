SPECIFICATION Spec
CONSTANTS
  Ops = {o1, o2, o3}
  Open = Open
  HiddenNames = FALSE
  SevenZip = FALSE
CHECK_DEADLOCK FALSE
SYMMETRY MCSymmetry
INVARIANTS
  OneLiveOperation
