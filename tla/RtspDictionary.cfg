SPECIFICATION Spec
CONSTANTS
  LookupTables <- MCTables
  LookupKeys <- MCKeys
  Requests <- MCRows
  MaxRequests = 1
  HBuf = 6
  NumAt = 68
  TBuf = 1024
  RBuf = 1024
  TextSize <- MCTextSize
  Longest = 60
INVARIANT EveryRowFound
CHECK_DEADLOCK FALSE
