SPECIFICATION Spec
CONSTANTS
  HeaderLen = 2
  FrameMax = 2
  PacketSizes = {1}
  Threshold = 4
  Capacity = 3
  MayFail = FALSE
  MaxCalls = 4
CHECK_DEADLOCK FALSE
INVARIANT OnlyGivenBytes
