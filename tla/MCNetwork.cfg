SPECIFICATION FairSpec
CONSTANTS
  Peers <- MCPeers
  Messages <- MCMessages
  NumShards = 3
  NumData = 2
  ForwardMultiplier = 2
  BitmapThreshold = 50
  DisableBitmap = FALSE
  Priorities <- MCPriorities
  SinkCap = 1
  MaxParked = 2
  Scenarios <- MCScenarios
  Seeds <- MCSeeds
INVARIANTS TypeOK SubscribersServed RelaysServe OpenersTold ResubscribeRepairs TimeAndOrder
PROPERTIES Settles
CHECK_DEADLOCK FALSE
