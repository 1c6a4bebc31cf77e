CONSTANTS
  LAYER_HIGHT = 4
  LAYER_WIDTH = 4
  NoPixel = none
  LastPerLine = TRUE
SPECIFICATION FairSpec
INVARIANTS ResultsAreTaken PatchesInOrder
PROPERTIES EveryPatchIsPooled
