SPECIFICATION Spec
CONSTANTS
  Ops = {o1, o2}
  Open = Open
  HiddenNames = FALSE
  SevenZip = FALSE
CHECK_DEADLOCK FALSE
INVARIANT
  OverlayClears
