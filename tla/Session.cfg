SPECIFICATION Spec
CONSTANTS
  v1 = v1
  v2 = v2
  Calls = {c1, c2}
  Versions <- MCVersions
  Content <- MCContent
  MaxChanges = 2
  MaxRelease = 2
  Locked = {k}
INVARIANT
  ServedRight
CHECK_DEADLOCK FALSE
SYMMETRY MCSymmetry
