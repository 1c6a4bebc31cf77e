CONSTANTS
  s1 = s1
  s2 = s2
  s3 = s3
  r1 = r1
  r2 = r2
  n1 = n1
  n2 = n2
  Senders = {s1, s2, s3}
  Receivers = {r1, r2}
  Networks = {n1, n2}
  NetworkOf <- SharedNetwork
  ImageSize = 2
  Images = 1
  NoThread = none
  Blank = blank
SPECIFICATION FairSpec
INVARIANTS ImagesIntact CodesAreTrue ResultsInOrder StoresFit
PROPERTIES EveryResultIsStored EveryCallReturns
CHECK_DEADLOCK FALSE
