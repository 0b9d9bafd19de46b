CONSTANTS
  Shops = 2
  Sessions = {s1}
  Workers = {w1}
  MaxAttempt = 1
  InitialStock = 2
  NoTask = NoTask
  Outcomes = {"EXPIRED","CAPTURED"}
SPECIFICATION Spec
CHECK_DEADLOCK FALSE
INVARIANT OnePaymentOnRecord
