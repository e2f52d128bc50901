SPECIFICATION Spec
CONSTANTS
  c1 = c1
  c2 = c2
  Call = {c1, c2}
  MaxAttempts <- Attempts
  MaxLinks = 3
  MaxFailures = 0
INVARIANTS SignedOncePerAttempt ActiveIsServed AnsweredOnce
PROPERTY ImplementsSigning
CHECK_DEADLOCK FALSE
