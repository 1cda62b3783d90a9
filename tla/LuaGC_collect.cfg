SPECIFICATION Spec
CONSTANT Shapes <- MCShapes
INVARIANTS
  NoDangling
  BlackNotToWhite
  OnOneList
  GarbageCollected
PROPERTIES
  FinalizedOnce
  OnlyGarbage
