SPECIFICATION FairSpec
CONSTANTS
  Calls = {c1}
  Rules = {r1}
  Plain = Plain
  MaxArrivals = 1
  MaxQueue = 1
  Room = 1
  MaxClock = 2
  Habits = {}
PROPERTIES
  EveryRuleEnds
CHECK_DEADLOCK FALSE
