SPECIFICATION OrderlySpec
CONSTANTS
  Subtask = {s1, s2}
  ProviderIsCharged = TRUE
  s1 = s1
  s2 = s2
  alice = alice
  bob = bob
  w1 = w1
  w2 = w2
  Account = {alice, bob}
  Worker = {w1, w2}
  RequestorOf <- AliceAsks
  ProviderOf <- BobComputes
  Price <- Prices
  PaymentTs <- Timestamps
  VerificationCost = 2
  PaymentDueTime = 1
  ConfirmationTime = 1
  Funds <- Deposits
  UseCaseOffered <- BothVerified
  AccountSettled = {bob}
  SubtaskPaid = {s1}
  AbortPossible = TRUE
  MaxTime = 2
SYMMETRY Workers
INVARIANTS TypeOK SentIsCovered SettlementsMatchChain ProviderIsNotOverpaid
PROPERTIES ImplementsClaims ProviderPaysInFull
