SPECIFICATION FairSpec
CONSTANTS
  a = a
  b = b
  l1 = l1
  l2 = l2
  m1 = m1
  m2 = m2
  x = x
  Nodes = {a, b}
  NoNode = NoNode
  Links = {l1, l2}
  Payloads = {m1, m2, x}
  Caller <- Callers
  Callee <- Callees
  Source <- Sources
  Dest <- Dests
  Worlds <- TwoWorlds
INVARIANTS TypeOK OneFate LinkTakesLetter KnownByAnnounce
PROPERTIES DirectArrives
CHECK_DEADLOCK FALSE
