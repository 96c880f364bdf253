SPECIFICATION FairSpec
CONSTANTS
  o = o
  a = a
  b = b
  c = c
  NoNode = NoNode
  Nodes = {o, a, b, c}
  Media <- Shared
  Origin = o
  Transports = {a, b}
  PATHFINDER_MAX_HOPS = 4
  PATH_EXPIRY_SECS = 1
  PACKET_HASH_TTL_SECS = 1
  Stamps = {0}
  MaxAnnounces = 1
  MaxRequests = 0
  Requesters = {a, b, c}
  Senders = {c}
  Lossy = FALSE
  Ageing = FALSE
  prove = FALSE
PROPERTIES MessagesArrive
CHECK_DEADLOCK FALSE
