CONSTANTS
  Credits = {2}
  Value <- CreditValue
  MaxPayouts = 1
  MaxAttempts = 3
  MaxRetries = 2
  Reviews = {}
  Asks = {}
  Workers = {w1}
  NoTask = NoTask
SPECIFICATION Spec
INVARIANT PaidOnce
CHECK_DEADLOCK FALSE
