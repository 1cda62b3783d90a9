SPECIFICATION Spec
CONSTANTS
  Nil = Nil
  x = x
  y = y
  z = z
  s = s
  a = a
  b = b
  Uses <- MCUses
  Sizes <- MCSizes
  MaxInt = 4
  MAXASIZE = 8
  MaxStart = 1
INVARIANTS
  TableIsMap
  CollidingAtHome
  TraversalComplete
  LengthIsBorder
  RoomForAll
CHECK_DEADLOCK FALSE
