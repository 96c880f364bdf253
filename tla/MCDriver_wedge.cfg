SPECIFICATION FairSpec
CONSTANTS
  Ifaces = {i1}
  Initial = {i1}
  INTERFACE_CAPACITY = 2
  EVENT_CAPACITY = 2
  COMMAND_CAPACITY = 1
  REGISTRATION_CAPACITY = 1
  Burst = 1
  Calls = {}
PROPERTIES ReturnsToSelect
CHECK_DEADLOCK FALSE
