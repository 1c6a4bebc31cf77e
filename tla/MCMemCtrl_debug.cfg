CONSTANTS
  LAYER_HIGHT = 2
  LAYER_WIDTH = 2
  AXI4_STREAM_INPUT = 0
  AXI_WIDTH_MUL = 2
  Debugging = TRUE
SPECIFICATION FairSpec
INVARIANTS TypeOK NoOverwrite StreamsFullBlock ReleasedAfterLastRow
PROPERTY ReadSideRecovers
