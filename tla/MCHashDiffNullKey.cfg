SPECIFICATION Spec
CONSTANTS
  None = None
  FloatBits = 6
  FloatFraction = 4
  a = a
  b = b
  Key <- ThreeKeys
  Val <- AB
  Lead <- NullLeads
  KeyRules = {TRUE, FALSE}
  RowThreshold = 1
  MaxDiffRows = 2
  MaxDepth = 4
  TargetRowsPerSegment = 100
  MinSegments = 2
  SampleCap = 3
  EmptyHashAgrees = TRUE
  InitTables <- AllPairs
  MaxWrites = 0
INVARIANT
  MatchIsTrue
