\* Whether a run that ends well has the whole of OpenAlex.
SPECIFICATION ScriptSpec
CONSTANTS
  Names = {twitter, nspl}
  NoName = NoName
  Attempts = 2
  MaxRuns = 3
INVARIANTS
  ReadyHasOpenAlex
