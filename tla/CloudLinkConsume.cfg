CONSTANTS
  RingDepth = 4
  TableCount = 5
  ConcealCount = 6
  MaxMessages = 2
SPECIFICATION Spec
PROPERTY ConsumesOnlyWhatWasWritten
