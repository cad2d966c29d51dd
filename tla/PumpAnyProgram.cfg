SPECIFICATION FairSpec
CONSTANTS
  Calls = {c1, c2}
  Rules = {}
  Plain = Plain
  MaxArrivals = 1
  MaxQueue = 1
  Room = 1
  MaxClock = 2
  Habits = {"blockingCall", "noTimeout", "sendWhenFull", "closeInHandler", "disconnect"}
INVARIANTS
  NoCallStranded
PROPERTIES
  EveryCallEnds
CHECK_DEADLOCK FALSE
