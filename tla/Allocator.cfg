\* Two configurations of parsers with up to three buffers, small and large.
SPECIFICATION Spec
CONSTANTS
  Plans <- MCPlans
  Reps = 2
  Large = 2
  Huge = 2
  TableSize = 6
  Sizes = {1, 3, 4, 6}
  MaxBuffers = 3
  Modes = {"huge", "pool"}
  MaxConfigs = 2
INVARIANTS
  TypeOK
  BuffersApart
  WarmPoolMapsNothing
  TableSuffices
