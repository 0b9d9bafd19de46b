CONSTANTS
  Credits = {2}
  Value <- CreditValue
  MaxPayouts = 1
  MaxAttempts = 2
  MaxRetries = 1
  Reviews = {"retry", "release"}
  Asks = {1, 2, 3}
  Workers = {w1, w2}
  NoTask = NoTask
SPECIFICATION Spec
SYMMETRY SymmetrySets
INVARIANT TypeOK
INVARIANT SuccessIsPaid
PROPERTY KeepsPromise
CHECK_DEADLOCK FALSE
