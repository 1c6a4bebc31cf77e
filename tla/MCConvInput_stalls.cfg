CONSTANTS
  LAYER_HIGHT = 2
  LAYER_WIDTH = 3
  AXI4_STREAM_INPUT = 0
  AXI_WIDTH_MUL = 2
  Debugging = FALSE
  Images = {i1}
  NoImage = none
  Stalls = TRUE
SPECIFICATION InputSpec
INVARIANT WindowsInOrder
