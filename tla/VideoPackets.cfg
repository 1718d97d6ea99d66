SPECIFICATION Spec
CONSTANTS
  ChunkMax = 3
  ByteMod = 5
  EndMark = 3
  Lengths <- MCLengths
  MaxFrames = 3
INVARIANTS
  TypeOK
  FrameTiled
  EndMarkLast
  ReaderInStep
CHECK_DEADLOCK FALSE
