SPECIFICATION Spec
CONSTANTS
  main = main
  dispatch = dispatch
  Threads <- MCThreads
  MESSAGE_BATCH_SIZE = 2
  Callbacks = TRUE
  TestMode = TRUE
  MaxEvents = 3
  MaxJobs = 2
  MaxRepublished = 1
CHECK_DEADLOCK FALSE
SYMMETRY ThreadSymmetry
INVARIANTS
  TypeOK
  LostOnlyByCallbackStopOrRetry
  SentTwiceOnlyIfUncleared
  CollectionsAreRuns
PROPERTY NothingSentWhenStopped
