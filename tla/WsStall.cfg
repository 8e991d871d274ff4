SPECIFICATION Spec
CONSTANTS
  Sizes = {1, 3}
  Threshold = 3
  Capacity = 2
  MaxSends = 2
  MaxFrames = 2
  MaxQueue = 6
INVARIANT QueuedIsWatched
CHECK_DEADLOCK FALSE
