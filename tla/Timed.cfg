CONSTANTS
  X = X
  Y = Y
  a = a
  b = b
  NoParent = NoParent
  Predicate = {X, Y}
  Loc = {a, b}
  Point <- MCPoint
  Block <- MCBlock
  Formula <- MCFormula
  Systems <- MCSystems
  Transitions <- MCTransitions
  Inv <- MCInv
  Later <- MCLater
  Beyond <- MCBeyond
  Bound <- MCBound
  MaxDepth = 40
SPECIFICATION FairSpec
INVARIANTS Right TypeOK CyclesAreOpenCalls CyclesMakeProgress
INVARIANTS ParentIsInnermost ParentsAreSequents CachesConsistent
PROPERTY Termination
CHECK_DEADLOCK FALSE
