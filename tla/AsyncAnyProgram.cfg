SPECIFICATION Spec
CONSTANTS
  MaxRequests = 3
  MaxInbox = 0
  Habits = {"dropPending", "releaseFinished", "closeChannel", "rejectMatch", "hangup", "dropConn"}
INVARIANTS
  Ownership
  LinksOrdered
CHECK_DEADLOCK FALSE
