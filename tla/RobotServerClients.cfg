SPECIFICATION FairSpec
CONSTANTS
  Clients = {c1, c2}
  None = None
  MaxRuns = 1
  Backlog = 2
  SockBuf = 2
  ForeignBytes <- MCForeignBytes
INVARIANT ConnectionsServed
PROPERTIES
  ImplementsSwitch
  StopEndsSession
  AbandonedSessionEnds
CHECK_DEADLOCK FALSE
