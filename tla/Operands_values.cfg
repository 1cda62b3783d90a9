SPECIFICATION Spec
CONSTANT Programs <- MCPrograms
INVARIANTS
  OneOperandPerRegister
  ValuesHeld
  UsesRight
