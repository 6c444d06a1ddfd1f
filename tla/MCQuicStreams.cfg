SPECIFICATION FairSpec
CONSTANTS
  NumMessages = 2
  QueueCap = 1
  MaxUniStreams = 3
  MaxTracked = 1
  MaxSends = 4
  MaxFaults = 1
INVARIANTS TypeOK ToldTruthfully PinHolds
PROPERTIES OpenerTold ChunksArrive PumpMoves ImplementsPeerQueues
CHECK_DEADLOCK FALSE
