SPECIFICATION FairSpec
CONSTANTS
  Calls <- AllCalls
  Attempts = 3
INVARIANT JsonHoldsEveryStatement
