SPECIFICATION Spec
CONSTANTS
  v1 = v1
  v2 = v2
  Calls = {c1, c2}
  Versions <- MCVersions
  Content <- MCContent
  MaxChanges = 1
  MaxRelease = 2
  Locked = {}
INVARIANT UpdateClears
CHECK_DEADLOCK FALSE
SYMMETRY MCSymmetry
