SPECIFICATION Spec
CONSTANTS
  Hosts = {1, 2, 3}
  Group <- TwoGroups
  Networks <- OneOrBothWays
  MaxRestarts = 2
CHECK_DEADLOCK FALSE
INVARIANTS TypeOK OwnGroup
PROPERTIES PeeringConverges
