SPECIFICATION FairSpec
CONSTANTS
  Commands <- MCCommands
  DirectStop = TRUE
  CallbackRaises = TRUE
  CommandRaises = TRUE
  StartRaises = TRUE
  MaxServers = 2
  MaxStarts = 2
  MaxRequests = 2
INVARIANTS
  TypeOK
  RunningServerIsUp
  PortsReleasedUnlessLeaked
  CrashOnlyIfRaced
  RepliesMatchUnlessRaced
  OwesOnlyWorkedOnRequests
  ServedUnlessReused
PROPERTIES
  DispatchThreadsEnd
  RequestsAreAnswered
CHECK_DEADLOCK FALSE
