CONSTANTS
  Heights = {2, 3}
  Widths = {2, 3, 4}
  Channels = {1, 2}
SPECIFICATION Spec
INVARIANT IsConvolution
CHECK_DEADLOCK FALSE
