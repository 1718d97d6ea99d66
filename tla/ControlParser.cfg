SPECIFICATION Spec
CONSTANTS
  BufSize = 16
  Datagrams <- MCDatagrams
  MaxDatagrams = 2
INVARIANTS
  TypeOK
  CommandsObeyed
  BoardInOrder
  ReplyIsPorts
PROPERTY StopOnlyOnRequest
CHECK_DEADLOCK FALSE
