\* Both ways to claim slices, in steps whose multiples may overflow size_t;
\* a slice may fail to open.  The separator of one format is a byte of the other's
\* documents.
SPECIFICATION FairSpec
CONSTANTS
  SUCCESS = SUCCESS
  E1 = E1
  E2 = E2
  ErrorCodes <- MCErrorCodes
  StreamErrors <- MCStreamErrors
  Calls <- MCCalls
  HardwareConcurrency = 3
  DefaultSliceBytes = 8
  WordSize = 16
  MaxLength = 4
  Cells = {"lf", "rs", "e2"}
  MaxThreads = 2
  SliceSizes = {0, 1, 2}
  CallFormats = {"newline_delimited", "json_sequence"}
  Modes = {TRUE, FALSE}
INVARIANTS
  TypeOK
  NeverSplitsADocument
  EachDocumentOnce
  OrderWithinShard
  NothingIsLost
  LossIsReported
  ParallelAgrees
PROPERTIES
  ResultIsFinal
  Returns
  ImplementsExactlyOnce
