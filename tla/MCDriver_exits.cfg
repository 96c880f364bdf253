SPECIFICATION FairSpec
CONSTANTS
  Ifaces = {i1, i2}
  Initial = {i1, i2}
  INTERFACE_CAPACITY = 1
  EVENT_CAPACITY = 1
  COMMAND_CAPACITY = 1
  REGISTRATION_CAPACITY = 1
  Burst = 1
  Calls = {}
PROPERTIES ExitsWhenAlone TasksEnd
CHECK_DEADLOCK FALSE
