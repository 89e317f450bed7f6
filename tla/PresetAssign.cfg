SPECIFICATION Spec
CONSTANTS
  Limit = 32768
  N = 2
  MaxC = 1
  Cap = 2
  Operands <- AllAtoms
  Inner = 2
  Outer = 5
PROPERTIES
  PresetToIsInverse
