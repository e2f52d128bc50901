CONSTANTS
  CMT = 1
  FAT = 1
  AVCT = 1
  LeadIn = 1
  UploadRate = 1
  Multiplier = 2
  Threads = 1
  SourceSize = 3000
  ResultSize = 1000
  Timestamp = 0
  ComputationDeadline = 1
  MaxTime = 16
  FrameCount = 2
  Deliveries <- MCDeliveries
SPECIFICATION FairVerifierSpec
CHECK_DEADLOCK FALSE
INVARIANTS
  UploadIsNotRefused
  ShutdownWaitsForDownloads
  MatchIsDeserved
  MismatchIsDeserved
  FailureIsByVerdict
PROPERTIES
  ImplementsOrder
  OrderEnds
