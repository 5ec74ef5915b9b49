SPECIFICATION Spec
CONSTANTS
  main = main
  dispatch = dispatch
  Threads <- MCThreads
  MESSAGE_BATCH_SIZE = 2
  Callbacks = TRUE
  TestMode = FALSE
  MaxEvents = 3
  MaxJobs = 2
  MaxRepublished = 0
CHECK_DEADLOCK FALSE
INVARIANT AllEventsAreSent
