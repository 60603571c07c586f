SPECIFICATION Spec
CONSTANTS
  None = None
  Micro = 6
  Name <- Names
  Lower <- Lowered
  Inputs <- SwapCalls
INVARIANT
  MatchApplied
