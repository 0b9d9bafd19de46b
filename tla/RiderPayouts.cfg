CONSTANTS
  Credits = {2}
  Value <- CreditValue
  MaxPayouts = 2
  MaxAttempts = 1
  MaxRetries = 1
  Reviews = {}
  Asks = {1, 2}
  Workers = {w1}
  NoTask = NoTask
SPECIFICATION FairSpec
INVARIANT CarriesItsAmount
PROPERTY KeepsPromise
PROPERTY CreatedIsSent
CHECK_DEADLOCK FALSE
