CONSTANTS
  RingDepth = 4
  TableCount = 5
  ConcealCount = 6
  MaxMessages = 5
SPECIFICATION FairSpec
INVARIANTS
  TypeOK
  NailedUp
  RingHasConnection
  NoLostWakeup
  ConnectionStream
PROPERTIES
  FeedSpec
  QueuedMessagesLeave
  Redials
