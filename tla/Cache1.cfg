SPECIFICATION Spec
CONSTANTS
  a = a
  b = b
  p = p
  q = q
  Archives = {a, b}
  Movable = {b}
  MaxVersion <- MCModified
  Content <- MCContent
  Contents <- MCContents
  Calls = {p}
  Engines = {"system7z"}
  IndexCap = 9
  Faults = {"crash", "write"}
INVARIANTS
  TrustedHit
PROPERTIES
  SweepSettles
