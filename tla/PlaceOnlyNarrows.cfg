CONSTANTS
  X = X
  Y = Y
  a = a
  b = b
  NoParent = NoParent
  Predicate = {X, Y}
  Loc = {a, b}
  Point <- MCPoint
  Block = {1, 2}
  Formula <- MCFormula
  Systems <- FlatInputs
  Transitions <- MCTransitions
  Inv <- MCInv
  Later <- MCLater
  Strictly <- MCStrictly
  Beyond = {3}
  Bound <- MCBound
  Presets <- MCPresets
  MaxDepth = 200
SPECIFICATION TwoSpec
INVARIANTS PlaceOnlyNarrows
CHECK_DEADLOCK FALSE
