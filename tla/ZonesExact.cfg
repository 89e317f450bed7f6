SPECIFICATION FairSpec
CONSTANTS
  Limit = 48
  N = 2
  MaxC = 1
  Cap = 2
  Operands <- AllAtoms
  Inner = 2
  Outer = 5
INVARIANTS
  TypeOK
  NoOverflow
  FlagMeansCanonical
  ClosuresKeepCanonical
  EmptinessExact
  InclusionExact
PROPERTIES
  EmptyStaysEmpty
  CfTerminates
  CfKeepsZone
  DelaysExact
  ResetsExact
  PresetsExact
  BoundOfLowerBounds
