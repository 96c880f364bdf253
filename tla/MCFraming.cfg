SPECIFICATION Spec
CONSTANTS
  Lines <- SmallLines
  MaxPackets = 3
  READ_CHUNK = 3
INVARIANTS TypeOK Intact Recovers
CHECK_DEADLOCK FALSE
