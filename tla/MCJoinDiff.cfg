SPECIFICATION Spec
CONSTANTS
  a = a
  b = b
  Key <- ThreeKeys
  Val <- AB
  NullLead <- NoKeys
  NullPart <- NoKeys
  MaxDiffRows = 1
  InitTables <- Pairs
  MaxWrites = 2
  Shared = Shared
  Absent = Absent
  Namesakes <- Nothing
INVARIANTS
  TypeInv
  MatchIsTrue
  StableRowsListed
  ExactWhenQuiet
  DuplicatesRejected
