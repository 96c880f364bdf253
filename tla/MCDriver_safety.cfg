SPECIFICATION Spec
CONSTANTS
  Ifaces = {i1, i2}
  Initial = {i1}
  INTERFACE_CAPACITY = 1
  EVENT_CAPACITY = 1
  COMMAND_CAPACITY = 1
  REGISTRATION_CAPACITY = 1
  Burst = 2
  Calls = {"Send", "Ask", "Shutdown"}
INVARIANTS TypeOK EndIsReported
CHECK_DEADLOCK FALSE
