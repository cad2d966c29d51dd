SPECIFICATION FairSpec
CONSTANTS
  Calls = {c1}
  Rules = {}
  Plain = Plain
  MaxArrivals = 1
  MaxQueue = 1
  Room = 1
  MaxClock = 2
  Habits = {"sendWhenFull"}
PROPERTIES
  EveryMessageSent
CHECK_DEADLOCK FALSE
