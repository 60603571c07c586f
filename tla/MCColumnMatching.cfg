SPECIFICATION Spec
CONSTANTS
  None = None
  Micro = 6
  Name <- Names
  Lower <- Lowered
  Inputs <- Calls
INVARIANTS
  TypeInv
  SaysWhatItAssumes
  AliasFaithfulUnchained
  SameNameRendersAlike
