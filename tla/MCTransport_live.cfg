SPECIFICATION FairSpec
CONSTANTS
  o = o
  a = a
  b = b
  c = c
  NoNode = NoNode
  Nodes = {o, a, b, c}
  Media <- Diamond
  Origin = o
  Transports = {a, b}
  PATHFINDER_MAX_HOPS = 2
  PATH_EXPIRY_SECS = 1
  PACKET_HASH_TTL_SECS = 1
  Stamps = {0, 1}
  MaxAnnounces = 2
  MaxRequests = 0
  Requesters = {a, b, c}
  Senders = {a, c}
  Lossy = FALSE
  Ageing = FALSE
  prove = TRUE
INVARIANTS RoutesDescend
PROPERTIES MessagesArrive PathsSpread
CHECK_DEADLOCK FALSE
