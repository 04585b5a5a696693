\* What a run prints and returns, whatever its options and what its engines compute.
SPECIFICATION Spec
CONSTANTS
  Libraries <- MCLibraries
  Invocations <- MCInvocations
  Worlds <- MCWorlds
INVARIANTS
  AgreeBeforeTiming
  StatusTellsAgreement
