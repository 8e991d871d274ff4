SPECIFICATION Spec
CONSTANTS
  Frames <- GoodFrames
  MaxFrames = 2
  MaxPacket = 4
  Pieces = TRUE
  MayFail = FALSE
CHECK_DEADLOCK FALSE
INVARIANT PacketsAsSent
