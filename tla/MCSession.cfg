CONSTANTS
  Peers = {1, 2}
  NumShards = 2
  ForwardMultiplier = 1
  NumData = 2
  BitmapThreshold = 50
  DisableBitmap = FALSE
  Modes = {"origin", "relay"}
  Updates = {{1}}
  MaxFaults = 2
  Priorities <- MCPriorities
SPECIFICATION Spec
INVARIANTS TypeOK EveryShardLive MarksMatchDispatches HandlesResolvable
  AllocationCoversSends RelayBudget CompletesAtNumData HeapGrowsByRefunds
PROPERTY ImplementsBudget
CONSTRAINT FaultBound
