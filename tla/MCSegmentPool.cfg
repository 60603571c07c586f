SPECIFICATION FairSpec
CONSTANTS
  None = None
  Worker = {w1, w2}
  SrcConn = {s1, s2}
  TgtConn = {t1, t2, t3}
  NumTasks = 3
  Diff <- FiveDiffs
  Batches <- ThreeTasks
  MayFail = {1, 3}
  MaxDiffRows = 3
INVARIANTS
  TypeInv
  ConnectionsExclusive
  NeverWaitsForConnection
  CountsExact
  QueriesExact
  CleanExit
PROPERTY
  Ends
