SPECIFICATION FairSpec
CONSTANTS
  Keys = {k1, k2}
  Msgs = {m1}
  NoKey = NoKey
  NoMsg = NoMsg
  LINK_KEEPALIVE_SECS = 2
  LINK_STALE_SECS = 4
  PACKET_HASH_TTL_SECS = 1
  Worlds <- ThreeWorlds
INVARIANTS TypeOK KeyAgreement EventProtocol NoSpuriousStale
PROPERTIES ImplementsSession HalfOpenEnds
CHECK_DEADLOCK FALSE
