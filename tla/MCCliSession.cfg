SPECIFICATION FairSpec
CONSTANTS
  Calls <- AllCalls
  Attempts = 3
INVARIANTS
  TypeInv
  ConnectionsBracketed
  ExitCodeTruthful
  ReportsAgree
  ShortOutagesSurvived
PROPERTY
  Ends
