SPECIFICATION Spec
CONSTANTS
  Package = {small}
  Subtask = {s1}
  s1 = s1
  alice = alice
  bob = bob
  w1 = w1
  w2 = w2
  Client = {alice, bob}
  Worker = {w1, w2}
  RequestorOf <- OneRequestor
  ProviderOf <- OneProvider
  TaskDeadline <- Deadlines
  CMT = 1
  FAT = 1
  AVCT = 1
  MDT <- DownloadTime
  SVT <- SubtaskTime
  CVT <- RenderingTime
  ProviderIsCharged = TRUE
  MessageKind = {"ForceSubtaskResults", "ForceSubtaskResultsResponse"}
  CrashPossible = FALSE
  ShutdownPossible = FALSE
  MaxForcePayments = 1
  MaxTime = 11
INVARIANT PaidAtMostOnce
