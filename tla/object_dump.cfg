SPECIFICATION Spec
CONSTANTS
  RBKIT_OBJECT_DUMP_PAGE_SIZE = 2
  MAX_OBJECT_DUMPS_IN_MESSAGE = 3
  MaxObjects = 7
  MaxDumps = 2
INVARIANTS
  TypeOK
  NextReadIsSafe
  EveryObjectDumpedOnce
  MessagesAreFull
  FreedExactlyOnce
CHECK_DEADLOCK FALSE
