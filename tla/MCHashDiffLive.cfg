SPECIFICATION Spec
CONSTANTS
  None = None
  FloatBits = 6
  FloatFraction = 4
  a = a
  b = b
  Key <- FourKeys
  Val <- AB
  Lead <- UniqueLeads
  KeyRules = {TRUE, FALSE}
  RowThreshold = 1
  MaxDiffRows = 1
  MaxDepth = 3
  TargetRowsPerSegment = 100
  MinSegments = 2
  SampleCap = 3
  EmptyHashAgrees = TRUE
  InitTables <- LivePairs
  MaxWrites = 2
INVARIANTS
  MatchIsTrue
  StableRowsExact
  CountedAtMostOnce
