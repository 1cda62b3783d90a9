SPECIFICATION Spec
CONSTANTS
  ExprSizes <- SizesNear
  Conds <- OneCond
  ParamBytes <- NoParams
  MaxStmts = 2
  MaxDepth = 2
  MaxFuncs = 1
INVARIANT IncrementReturnsToTest
