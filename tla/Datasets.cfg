\* Three runs of the script, any of which may fail or be killed.
SPECIFICATION ScriptSpec
CONSTANTS
  Names = {twitter, nspl}
  NoName = NoName
  Attempts = 2
  MaxRuns = 3
INVARIANTS
  ReadySkipsNone
PROPERTIES
  WholeStaysWhole
