CONSTANTS
  Peers = {1}
  NumShards = 1
  ForwardMultiplier = 1
  NumData = 1
  BitmapThreshold = 50
  DisableBitmap = TRUE
  Priorities <- MCPriorities
  Messages = {1}
  QueueCap = 1
  SinkCap = 1
  MaxParked = 2
  ActiveSessionTtl = 1
  ReconstructedLinger = 0
  TombstoneTtl = 1
  CleanupInterval = 1
  ParkedChunkTtl = 1
  Preambles = {"consistent", "inconsistent", "rejected"}
  EventKinds = {"subscribe", "connect", "publish", "handshake", "routing", "open", "chunk"}
  MaxEvents = 7
  MaxTime = 3
SPECIFICATION Spec
INVARIANTS TablesAgree SweptOnTime ParkedInOrder
PROPERTY NoRedelivery
CHECK_DEADLOCK FALSE
