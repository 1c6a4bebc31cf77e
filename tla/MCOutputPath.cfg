CONSTANTS
  INPUT_CHANNELS = 2
  Pixels = 2
  Images = 2
  OUTPUT_COUNT_L1 = 2
  OUTPUT_COUNT = 5
  OutputsPerWord = 2
  Zero = zero
SPECIFICATION FairSpec
INVARIANTS ValuesAreTaken SumsAreComplete ResultsInOrder OneInterruptPerResult SteadyTransfersAreExact
PROPERTIES EveryImageHasAResult
