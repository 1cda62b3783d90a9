CONSTANTS
  Words = {w1, w2}
  Rdata = rdata
  ParamsChained = TRUE
  NestedFunctions = FALSE
  Forms = {"params"}
  MaxSyms = 9
  MaxFrames = 4
SPECIFICATION Spec
PROPERTY ImplementsScopes
SYMMETRY WordSymmetry
CHECK_DEADLOCK FALSE
