SPECIFICATION GoSpec
CONSTANTS
  Distances <- MCDistances
  MaxLaps = 2
INVARIANT HeadSettled
PROPERTY StopsAtWall
CHECK_DEADLOCK FALSE
