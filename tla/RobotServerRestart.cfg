SPECIFICATION Spec
CONSTANTS
  Clients = {c1}
  None = None
  MaxRuns = 2
  Backlog = 1
  SockBuf = 1
  ForeignBytes <- MCForeignBytes
INVARIANTS
  TypeOK
  AtMostOneLateUnit
  NoOrderlyEnd
CHECK_DEADLOCK FALSE
