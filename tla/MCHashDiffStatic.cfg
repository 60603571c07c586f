SPECIFICATION FairSpec
CONSTANTS
  None = None
  FloatBits = 6
  FloatFraction = 4
  a = a
  b = b
  Key <- FourKeys
  Val <- AB
  Lead <- FourLeads
  KeyRules = {TRUE, FALSE}
  RowThreshold = 1
  MaxDiffRows = 2
  MaxDepth = 4
  TargetRowsPerSegment = 3
  MinSegments = 2
  SampleCap = 3
  EmptyHashAgrees = FALSE
  InitTables <- StaticPairs
  MaxWrites = 0
INVARIANTS
  TypeInv
  CapExact
  RecursionBounded
PROPERTIES
  ImplementsDiffSpec
  Terminates
