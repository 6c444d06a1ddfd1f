CONSTANTS
  Peers = {1, 2}
  NumShards = 2
  ForwardMultiplier = 1
  NumData = 1
  BitmapThreshold = 100
  DisableBitmap = FALSE
  Priorities <- MCPriorities
  Messages = {1}
  QueueCap = 2
  SinkCap = 1
  MaxParked = 2
  ActiveSessionTtl = 1
  ReconstructedLinger = 1
  TombstoneTtl = 1
  CleanupInterval = 1
  ParkedChunkTtl = 1
  Preambles = {"consistent"}
  EventKinds = {"subscribe", "publish", "peer_subscribe", "peer_unsubscribe", "session_reset", "open", "chunk", "unlink", "write_failure"}
  MaxEvents = 5
  MaxTime = 0
SPECIFICATION FairSpec
INVARIANTS TypeOK AttachedAreSubscribers PendingAwaitsResult
  ResultsNameTheirSend SessionsSound ChunksFollowOpen DecodedByTheSameHandler
  QuietMeansServed
PROPERTY EventuallyServed
CHECK_DEADLOCK FALSE
