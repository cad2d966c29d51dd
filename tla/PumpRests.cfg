SPECIFICATION FairSpec
CONSTANTS
  Calls = {c1}
  Rules = {r1}
  Plain = Plain
  MaxArrivals = 2
  MaxQueue = 1
  Room = 1
  MaxClock = 2
  Habits = {"disconnect"}
INVARIANTS
  TypeOK
  NoLostWakeup
PROPERTIES
  OnlyDisconnectStops
  EveryMessageHandled
  EveryMessageSent
CHECK_DEADLOCK FALSE
