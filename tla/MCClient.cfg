SPECIFICATION FairSpec
CONSTANTS
  NoThread = "nobody"
  Threads = {"t1", "t2"}
  Callback = "callback"
  NoHandler = "none"
  Handlers = {"h1"}
  Dests = {"d1"}
  COMMAND_CAPACITY = 1
  EVENT_CAPACITY = 1
  MaxCalls = 6
  MaxEvents = 3
CHECK_DEADLOCK FALSE
INVARIANTS TypeOK Served QuietWhenClosed OneLateCallback
PROPERTIES CallsReturn
