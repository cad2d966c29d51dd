SPECIFICATION FairClientSpec
CONSTANTS
  MaxRequests = 3
  MaxInbox = 1
  Habits = {"dropPending", "closeChannel", "dropChannel"}
  Fibers = {f1, f2}
  Names = {n1}
INVARIANTS
  QueueExact
  NoWaiterForgotten
PROPERTIES
  OnlyPendingFaults
  CloseTellsPending
  EveryCallMethodReturns
  SignalsStopAtUnsubscribe
CHECK_DEADLOCK FALSE
