SPECIFICATION DeviceSpec
CONSTANTS
  NBufs = 3
  Methods = {"mmap", "userptr"}
  Size = 3
  Used <- MCUsed
  Dht = 1
  Chunks = 2
  MaxPictures = 6
  MaxInterrupts = 1
  Controls = {0, 2}
  Formats = {1, 2}
INVARIANTS
  TypeOK
  EachBufferOnce
  TornOnlyWhenBehind
  ChunksForward
  MemoryAccounted
  OverrunExplained
PROPERTIES
  PicturesInOrder
  EveryCaptureReturns
  SetUpEnds
CHECK_DEADLOCK FALSE
