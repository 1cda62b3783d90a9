CONSTANTS
  Words = {w1}
  Rdata = rdata
  ParamsChained = TRUE
  NestedFunctions = FALSE
  Forms = {"struct", "pointer", "array", "params", "list", "sizeof"}
  MaxSyms = 8
  MaxFrames = 5
SPECIFICATION Spec
INVARIANTS ChainsThreaded MarkersKept TypesAlive ParamsListed
CHECK_DEADLOCK FALSE
