CONSTANTS
  Peers = {1, 2}
  NumShards = 1
  ForwardMultiplier = 1
  NumData = 1
  BitmapThreshold = 100
  DisableBitmap = TRUE
  Priorities <- MCPriorities
  Messages = {1}
  QueueCap = 8
  SinkCap = 1
  MaxParked = 2
  ActiveSessionTtl = 1
  ReconstructedLinger = 1
  TombstoneTtl = 1
  CleanupInterval = 1
  ParkedChunkTtl = 1
  Preambles = {"consistent"}
  EventKinds = {"subscribe", "publish", "peer_subscribe", "peer_unsubscribe"}
  MaxEvents = 6
  MaxTime = 2
SPECIFICATION Spec
INVARIANT ResultsNameTheirSend
CHECK_DEADLOCK FALSE
