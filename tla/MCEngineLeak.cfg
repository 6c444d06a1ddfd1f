CONSTANTS
  Peers = {1, 2}
  NumShards = 2
  ForwardMultiplier = 1
  NumData = 1
  BitmapThreshold = 100
  DisableBitmap = TRUE
  Priorities <- MCPriorities
  Messages = {1}
  QueueCap = 8
  SinkCap = 1
  MaxParked = 2
  ActiveSessionTtl = 1
  ReconstructedLinger = 1
  TombstoneTtl = 1
  CleanupInterval = 1
  ParkedChunkTtl = 1
  Preambles = {"consistent"}
  EventKinds = {"subscribe", "publish", "peer_subscribe", "unlink"}
  MaxEvents = 5
  MaxTime = 0
SPECIFICATION Spec
INVARIANT EveryDispatchResolved
CHECK_DEADLOCK FALSE
