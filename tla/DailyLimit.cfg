SPECIFICATION Spec
CONSTANTS
  Value = {1, 2}
  DailyLimit = 3
  MaxFailures = 2
  MaxDay = 3
  MaxTotal = 4
INVARIANT LimitHolds
