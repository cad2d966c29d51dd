SPECIFICATION FairClientSpec
CONSTANTS
  MaxRequests = 2
  MaxInbox = 1
  Habits = {"dropPending", "releaseFinished"}
  Fibers = {f1}
  Names = {n1}
PROPERTIES
  EveryCallMethodReturns
CHECK_DEADLOCK FALSE
