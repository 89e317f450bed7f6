SPECIFICATION Spec
CONSTANTS
  Limit = 32768
  N = 2
  MaxC = 1
  Arguments <- FewArguments
  Calls = 3
  MaxSize = 3
  Inner = 3
  Outer = 3
INVARIANTS
  FlagMeansNormal
  CombinationsExact
  UnionExact
  ComparisonsExact
  IntersectionIdempotent
CHECK_DEADLOCK FALSE
