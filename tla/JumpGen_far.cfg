SPECIFICATION FairSpec
CONSTANTS
  ExprSizes <- SizesEdge
  Conds <- TwoConds
  ParamBytes <- FourBytes
  MaxStmts = 2
  MaxDepth = 2
  MaxFuncs = 2
INVARIANTS
  CodeTiles
  JumpsLandInFunction
  BackwardJumpsHit
PROPERTIES
  PatchedStays
  BackpatchTerminates
