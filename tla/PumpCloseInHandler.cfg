SPECIFICATION Spec
CONSTANTS
  Calls = {c1}
  Rules = {r1}
  Plain = Plain
  MaxArrivals = 2
  MaxQueue = 1
  Room = 1
  MaxClock = 2
  Habits = {"closeInHandler"}
PROPERTIES
  OnlyDisconnectStops
CHECK_DEADLOCK FALSE
