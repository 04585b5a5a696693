\* Both ways to claim bytes, by up to three workers, in the smallest word all calls fit.
SPECIFICATION FairSpec
CONSTANTS
  Runs <- MCRuns
  DefaultSliceBytes = 3
  WordSize = 16
  MaxLength = 4
  Cells = {"lf", "blank", "ok", "bad"}
  MaxThreads = 3
  SliceSizes = {0, 1, 2}
  Modes = {TRUE, FALSE}
INVARIANTS
  TypeOK
  WholeLines
  SlicesAbut
  ArenaSuffices
  AgreesWithSerial
PROPERTIES
  Returns
