CONSTANTS
  Point = {1, 2}
  Block = {1, 2}
  num_hash_bins = 2
  Atomic = {v}
  Value = {0, 1, 2}
  MaxZones = 4
SPECIFICATION StackSpec
PROPERTIES ImplementsTable
