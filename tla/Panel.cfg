SPECIFICATION Spec
CONSTANTS
  Ops = {o1, o2, o3}
  Open = Open
  HiddenNames = FALSE
  SevenZip = FALSE
INVARIANTS
  OnlyVerifiedKept
  SourcesSettled
  OverlayAccounted
  EditShown
SYMMETRY MCSymmetry
CHECK_DEADLOCK FALSE
