SPECIFICATION FairSpec
CONSTANTS
  Calls = {c1}
  Values = {v1, v2}
  Misfits = {}
  ReadsBack = TRUE
  Unknown = Unknown
  MaxWire = 1
PROPERTIES
  SuspendedFunctionsAnswer
CHECK_DEADLOCK FALSE
