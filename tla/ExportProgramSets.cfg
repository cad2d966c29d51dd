SPECIFICATION Spec
CONSTANTS
  Calls = {c1}
  Values = {v1, v2}
  Misfits = {}
  ReadsBack = FALSE
  Unknown = Unknown
  MaxWire = 1
INVARIANTS
  ChangesReachCaches
CHECK_DEADLOCK FALSE
