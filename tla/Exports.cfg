SPECIFICATION FairSpec
CONSTANTS
  Calls = {c1}
  Values = {v1, v2}
  Misfits = {m1}
  ReadsBack = TRUE
  Unknown = Unknown
  MaxWire = 2
INVARIANTS
  TypeOK
  RepliesAgree
  NoCallerSkipped
  CacheFollows
  OnlyProgramStops
  StateOwned
PROPERTIES
  EveryCallerHears
  StateFreed
CHECK_DEADLOCK FALSE
