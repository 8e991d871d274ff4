SPECIFICATION MCSpec
CONSTANTS
  HeaderLen = 2
  FrameMax = 2
  PacketSizes = {1, 3}
  Threshold = 3
  Capacity = 3
  MayFail = TRUE
  MaxCalls = 4
  MaxFrames = 3
  MaxPacket = 4
  Pieces = FALSE
  MaxQueue = 6
  x1 = x1
  x2 = x2
  x3 = x3
  x4 = x4
  None = None
  Clients = {x1, x2}
  Files = {1}
  Wins = {2, 3, 4}
  Owner <- OwnerOf
  Docs = {11, 12, 13, 14}
  Depth = 2
  Lapses = {"box", "load", "file"}
  Windows = {x1, x2}
  Widgets = {x2}
  Documents = {x3, x4}
  Target <- TargetOf
  OneWrite = 2
  Lengths = {1, 4}
  MaxOps = 3
  MaxOdd = 2
  Null = Null
INVARIANTS TypesOK WholeInOrder QueuedIsWatched PacketsAsSent
  OwnedOnce MapFollowsWindows NoFault MapSound BatchInStep LoadedWasEnded
PROPERTIES Drained OrderKept BatchEnds
CHECK_DEADLOCK FALSE
