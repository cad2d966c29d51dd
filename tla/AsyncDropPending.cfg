SPECIFICATION Spec
CONSTANTS
  MaxRequests = 2
  MaxInbox = 1
  Habits = {"dropPending", "dropConn"}
INVARIANTS
  NoFault
CHECK_DEADLOCK FALSE
