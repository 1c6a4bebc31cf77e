CONSTANTS
  MEM_CTRL_NUMBER = 4
  Controllers = {1, 2}
  LAYER_WIDTH <- Widths
  LAYER_HIGHT <- Widths
  IN_CHANNEL_NUMBER <- Channel_numbers
  Layers = {0, 1, 2, 3, 4, 5}
  Channels = {0, 4, 15}
SPECIFICATION Spec
INVARIANT SelectedLayerActive
