SPECIFICATION Spec
CONSTANTS
  Calls = {c1}
  Values = {v1, v2}
  Misfits = {}
  ReadsBack = FALSE
  Unknown = Unknown
  MaxWire = 2
INVARIANTS
  OnlyProgramStops
CHECK_DEADLOCK FALSE
