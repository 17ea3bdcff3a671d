SPECIFICATION Spec
CONSTANTS
  Programs <- AllOps
INVARIANT
  CopiedOutFirst
