SPECIFICATION SendSpec
CONSTANTS
  Pictures <- MCPictures
  MaxPictures = 2
  PacketMax = 38
  Base = 4
  Hosts = {"little", "big"}
  Channels <- MCChannels
  Sizes = {0}
  TableSizes = {0, 1}
  TableLength = 1
  MaxFrames = 2
INVARIANTS
  PictureDecodable
  DetailsUsable
  FrameCarried
CHECK_DEADLOCK FALSE
