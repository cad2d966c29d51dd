SPECIFICATION ClientSpec
CONSTANTS
  MaxRequests = 2
  MaxInbox = 1
  Habits = {"closeChannel"}
  Fibers = {f1}
  Names = {n1}
PROPERTIES
  HeardIsKept
CHECK_DEADLOCK FALSE
