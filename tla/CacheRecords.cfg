SPECIFICATION Spec
CONSTANTS
  a = a
  b = b
  p = p
  q = q
  Archives = {a, b}
  Movable = {a, b}
  MaxVersion <- MCUnmodified
  Content <- MCContent
  Contents <- MCContents
  Calls = {p, q}
  Engines = {"system7z"}
  IndexCap = 9
  Faults = {}
INVARIANT
  EveryFileRecorded
SYMMETRY
  MCSymmetry
