SPECIFICATION Spec
CONSTANTS
  MaxIndexRK = 2
  MaxArgC = 2
  LFieldsPerFlush = 2
  StackSize = 40
  MaxTagLoop = 3
  Programs <- MCPrograms
INVARIANTS
  Meaning
  AssertionsHold
  OpenUpvaluesAreLocals
