SPECIFICATION Spec
CONSTANTS
  Calls = {c1}
  Rules = {}
  Plain = Plain
  MaxArrivals = 1
  MaxQueue = 1
  Room = 1
  MaxClock = 2
  Habits = {}
INVARIANTS
  QueuedIsWatched
CHECK_DEADLOCK FALSE
