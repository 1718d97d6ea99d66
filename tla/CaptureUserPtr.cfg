SPECIFICATION Spec
CONSTANTS
  NBufs = 2
  Methods = {"userptr"}
  Size = 3
  Used <- MCUsed
  Dht = 1
  Chunks = 2
  MaxPictures = 4
  MaxInterrupts = 1
INVARIANT BufferFound
CHECK_DEADLOCK FALSE
