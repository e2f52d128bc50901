CONSTANTS
  Subtask = {s1}
  Worker = {w1, w2}
  NULL = NULL
  MaxReports = 2
SPECIFICATION FairSpec
CHECK_DEADLOCK FALSE
INVARIANT FinishedMeansAllFiles
INVARIANT VerifiedOnce
PROPERTY UploadIsAnnounced
