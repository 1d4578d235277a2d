CONSTANTS
  Letters = {a, b}
  CR = CR
  LF = LF
  Nul = Nul
  BUFFER_SIZE = 4
  MaxRead = 5
  MaxInput = 6
SPECIFICATION Spec
INVARIANTS
  BufferTypeOK
  LinesIntact
  NoneHeldBack
