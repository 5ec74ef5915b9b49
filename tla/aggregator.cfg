SPECIFICATION FairSpec
CONSTANTS
  small = small
  large = large
  Messages <- MCMessages
  SizeOf <- MCSizeOf
  initial_size = 2
  MaxQueued = 4
  None = None
  Garbage = Garbage
INVARIANTS
  TypeOK
  WithinCapacity
  CollectionIsFaithful
PROPERTIES
  QueueReturns
  ImplementsMessageList
