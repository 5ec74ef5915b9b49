SPECIFICATION Spec
CONSTANTS
  Commands <- MCCommands
  DirectStop = TRUE
  CallbackRaises = FALSE
  CommandRaises = FALSE
  StartRaises = FALSE
  MaxServers = 2
  MaxStarts = 2
  MaxRequests = 2
INVARIANT RunningServerIsServed
CHECK_DEADLOCK FALSE
