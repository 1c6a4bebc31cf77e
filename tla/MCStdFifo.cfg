CONSTANTS
  FIFO_DEPTH = 4
  Data = {w1, w2}
  Undefined = undef
SPECIFICATION Spec
INVARIANTS TypeOK FlagsExact
PROPERTIES IsBoundedFifo
