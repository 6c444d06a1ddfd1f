SPECIFICATION Spec
CONSTANTS
  ByteBits = 2
  LimbBytes = 2
  Configs <- MCConfigs
  Lengths = {0, 1, 2, 3, 4, 5, 6}
  Variants = {"as_encoded", "longer", "other_hash", "fewer_hashes", "negative"}
  MaxLength = 5
  MaxTotalShards = 6
  MaxChunkData = 3
  MaxCuts = 2
INVARIANTS TypeOK WholeChunks DecodesToPayload HavelistFaithful
CHECK_DEADLOCK FALSE
