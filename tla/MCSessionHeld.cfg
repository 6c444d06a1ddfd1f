CONSTANTS
  Peers = {1, 2}
  NumShards = 2
  ForwardMultiplier = 1
  NumData = 2
  BitmapThreshold = 50
  DisableBitmap = FALSE
  Modes = {"relay"}
  Updates = {}
  MaxFaults = 2
  Priorities <- MCPriorities
SPECIFICATION Spec
INVARIANT AllocatesOnlyHeldShards
