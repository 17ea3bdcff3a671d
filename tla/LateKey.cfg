SPECIFICATION Spec
CONSTANTS
  v1 = v1
  v2 = v2
  Calls = {}
  Versions <- MCVersions
  Content <- MCContent
  MaxChanges = 0
  MaxRelease = 1
  Locked = {k}
INVARIANT
  KeysDeleted
CHECK_DEADLOCK FALSE
