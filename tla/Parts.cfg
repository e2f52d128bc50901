CONSTANTS
  Worker = {w1, w2}
  NoWorker = nobody
  MaxMined = 1
  MaxTransactions = 3
  RefusalPossible = TRUE
  CrashPossible = TRUE
  MaxBlocks = 5
  MaxTime = 6
  Value = {1, 2}
  DailyLimit = 3
  MaxFailures = 2
  MaxDay = 3
  MaxTotal = 4
  Body <- MCBody
  MaximumLength = 4
  MaxFrames = 3
SPECIFICATION PartsSpec
CHECK_DEADLOCK FALSE
INVARIANTS
  NoncesDiffer
  NoncesHaveNoGap
  FirstLaterBlockIsFound
  LatestAreLimited
  FramesComeInOrder
  WholeFramesArrive
PROPERTIES
  SearchEnds
  ServiceDecides
