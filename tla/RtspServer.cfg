SPECIFICATION FairSpec
CONSTANTS
  LookupTables <- MCTables
  LookupKeys <- MCKeys
  Requests <- MCRequests
  MaxRequests = 2
  HBuf = 6
  NumAt = 68
  TBuf = 1024
  RBuf = 1024
  TextSize <- MCTextSize
  Longest = 60
INVARIANTS
  RequestsServed
  FoundWhereSorted
  ValuesKept
  ChoicesAnswered
PROPERTY EveryRequestEnds
CHECK_DEADLOCK FALSE
