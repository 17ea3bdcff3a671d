SPECIFICATION Spec
CONSTANTS
  a = a
  b = b
  p = p
  q = q
  Archives = {a, b}
  Movable = {a}
  MaxVersion <- MCUnmodified
  Content <- MCContent
  Contents <- MCContents
  Calls = {p, q}
  Engines = {"worker"}
  IndexCap = 9
  Faults = {}
INVARIANTS
  TypeOK
PROPERTIES
  LinksServe
SYMMETRY
  MCSymmetry
