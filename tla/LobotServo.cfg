SPECIFICATION Spec
CONSTANTS
  RingSize = 8
  BufSize = 8
  Groups <- MCGroups
  Times <- MCTimes
  Voltages <- MCVoltages
  Moves <- MCMoves
  StackBytes <- MCStackBytes
  MaxCalls = 2
INVARIANTS
  TypeOK
  CommandsRead
  BoardShown
  Resynchronised
  OverrunOnlyAfterLoss
CHECK_DEADLOCK FALSE
