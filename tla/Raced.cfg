SPECIFICATION Spec
CONSTANTS
  v1 = v1
  v2 = v2
  Calls = {c1}
  Versions <- MCVersions
  Content <- MCContent
  MaxChanges = 1
  MaxRelease = 1
  Locked = {}
INVARIANT
  HashIsTruth
CHECK_DEADLOCK FALSE
