SPECIFICATION Spec
CONSTANTS
  o = o
  a = a
  b = b
  c = c
  NoNode = NoNode
  Nodes = {o, a, b, c}
  Media <- Ring
  Origin = o
  Transports = {a, b, c}
  PATHFINDER_MAX_HOPS = 5
  PATH_EXPIRY_SECS = 1
  PACKET_HASH_TTL_SECS = 1
  Stamps = {0}
  MaxAnnounces = 1
  MaxRequests = 1
  Requesters = {a}
  Senders = {b}
  Lossy = TRUE
  Ageing = TRUE
  prove = TRUE
INVARIANTS TypeOK ForwardsBounded DeliveredMeansReceived
CHECK_DEADLOCK FALSE
