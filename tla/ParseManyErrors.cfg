\* Both ways to claim slices; every slice can be opened, and documents may fail.
\* Commas are documents' bytes in one format and end them in the other.
SPECIFICATION Spec
CONSTANTS
  SUCCESS = SUCCESS
  E1 = E1
  E2 = E2
  ErrorCodes <- MCErrorCodes
  StreamErrors = {}
  Calls <- MCCalls
  HardwareConcurrency = 3
  DefaultSliceBytes = 3
  WordSize = 64
  MaxLength = 5
  Cells = {"lf", "comma", "e1", "e2"}
  MaxThreads = 2
  SliceSizes = {0, 1, 2}
  CallFormats = {"whitespace_delimited", "comma_delimited"}
  Modes = {TRUE, FALSE}
INVARIANTS
  StaticShardsAreRuns
  StaticFirstErrorIsEarliest
  ErrorsAreCounted
  IInv
