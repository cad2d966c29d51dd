SPECIFICATION Spec
CONSTANTS
  MaxRequests = 1
  MaxInbox = 0
  Habits = {"rejectMatch"}
INVARIANTS
  NoFault
CHECK_DEADLOCK FALSE
