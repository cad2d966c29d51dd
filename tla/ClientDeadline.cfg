SPECIFICATION ClientSpec
CONSTANTS
  MaxRequests = 1
  MaxInbox = 1
  Habits = {"closeChannel"}
  Fibers = {f1}
  Names = {}
INVARIANTS
  NoFault
CHECK_DEADLOCK FALSE
