SPECIFICATION Spec
CONSTANTS
  ExprSizes <- SizesNear
  Conds <- OneCond
  ParamBytes <- NoParams
  MaxStmts = 4
  MaxDepth = 3
  MaxFuncs = 1
INVARIANTS
  ListsThreaded
  NoJumpForgotten
  PatchedJumpsHit
PROPERTY ImplementsLabels
