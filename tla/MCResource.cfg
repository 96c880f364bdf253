SPECIFICATION FairSpec
CONSTANTS
  N = 5
  HashOf <- DistinctHashes
  WINDOW = 2
  WINDOW_MIN = 1
  WINDOW_MAX = 3
  MAX_RETRIES = 1
  HASHMAP_MAX_LEN = 2
  REQUEST_TIMEOUT_SECS = 1
  PACKET_HASH_TTL_SECS = 2
  Worlds <- TwoWorlds
INVARIANTS TypeOK NeverIdle CompleteMeansDelivered OneOutcome DedupHarmless FailsAfterRetries
PROPERTIES ReceiverEnds TransferCompletes
CHECK_DEADLOCK FALSE
