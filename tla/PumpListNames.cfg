SPECIFICATION FairSpec
CONSTANTS
  Calls = {c1}
  Rules = {r1}
  Plain = Plain
  MaxArrivals = 2
  MaxQueue = 1
  Room = 1
  MaxClock = 2
  Habits = {"blockingCall"}
PROPERTIES
  EveryMessageHandled
CHECK_DEADLOCK FALSE
