\* --verify with every list of sections.
SPECIFICATION Spec
CONSTANTS
  Libraries <- MCLibraries
  Invocations <- VerifyInvocations
  Worlds <- MCWorlds
INVARIANTS
  VerifyChecks
