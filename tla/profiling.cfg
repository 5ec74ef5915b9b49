SPECIFICATION Spec
CONSTANTS
  NULL = NULL
  MaxServers = 2
  MaxStarts = 2
INVARIANTS
  TypeOK
  NeverKilled
  TimersMatchProfiler
  StatusIsTrueUnlessChanged
  TracepointsHaveLogger
PROPERTY SamplesAreTaken
CHECK_DEADLOCK FALSE
