SPECIFICATION Spec
CONSTANTS
  Limit = 32768
  N = 3
  MaxC = 1
  Inner = 2
  Outer = 2
  l1 = l1
  l2 = l2
  Invariants <- MCInvariants
  Inputs <- MCInputs
INVARIANTS
  GuardExact
  EnteringExact
CHECK_DEADLOCK FALSE
