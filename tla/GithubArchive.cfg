\* Any extraction in any run of any configuration.
SPECIFICATION Spec
CONSTANTS
  Reps = 2
  Counts = {0, 1, 2, 3}
  Nothing = Nothing
  Names = Names
  OtherNames = OtherNames
  Extractions <- MCExtractions
INVARIANTS
  ReportedAgree
