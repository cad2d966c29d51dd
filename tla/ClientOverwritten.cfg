SPECIFICATION ClientSpec
CONSTANTS
  MaxRequests = 2
  MaxInbox = 1
  Habits = {}
  Fibers = {}
  Names = {n1}
PROPERTIES
  UnsubscribedIsSilent
CHECK_DEADLOCK FALSE
