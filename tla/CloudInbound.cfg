CONSTANTS
  RingDepth = 2
  TableCount = 1
  ConcealCount = 1
  MaxMessages = 1
  BufferSize = 5
  RxSize = 2
  MaxLength = 5
  MaxFrames = 3
SPECIFICATION InboundSpec
INVARIANTS
  InboundTypeOK
  OnlyFirstFrameTorn
