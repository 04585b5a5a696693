\* A serial stream that disagrees with the driver.
SPECIFICATION Spec
CONSTANTS
  Reps = 2
  Counts = {1}
  Nothing = Nothing
  Names = Names
  OtherNames = OtherNames
  Extractions <- MCExtractions
INVARIANTS
  EveryConfigurationOrFailure
