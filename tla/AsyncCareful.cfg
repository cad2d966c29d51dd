SPECIFICATION FairSpec
CONSTANTS
  MaxRequests = 3
  MaxInbox = 1
  Habits = {}
INVARIANTS
  TypeOK
  NoFault
  AnsweredOnce
PROPERTIES
  ImplementsApi
  EveryCallHeard
  RecordsFreed
CHECK_DEADLOCK FALSE
