CONSTANTS
  X = X
  Y = Y
  Z = Z
  a = a
  b = b
  NoParent = NoParent
  Predicate = {X, Y, Z}
  Loc = {a, b}
  Point = {0}
  Block = {1, 2, 3}
  Formula <- MCFormula
  Systems <- Cached
  Transitions <- MCTransitions
  Inv <- MCInv
  Later <- MCLater
  Beyond = {0}
  Bound <- MCBound
  MaxDepth = 40
SPECIFICATION Spec
INVARIANT Sound
CHECK_DEADLOCK FALSE
