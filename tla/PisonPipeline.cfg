\* Streams of up to three records, loaded by up to three threads and queried by as
\* many, which claim two records at a time.
SPECIFICATION PipelineSpec
CONSTANTS
  Loads <- MCLoads
  PadTo = 2
  MinRecordBytes = 0
  LengthSize = 16
  Filler = Filler
  Chunk = 2
  Broken = {2}
  MaxLength = 6
  Cells = {"lf", "cr", "ok"}
  MaxThreads = 3
INVARIANTS
  PipelineTypeOK
  SameAsReference
  PisonLayout
  QueriesTheStream
PROPERTIES
  WriteOnce
  Returns
