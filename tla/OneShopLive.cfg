CONSTANTS
  Shops = 1
  Sessions = {s1}
  Workers = {w1}
  MaxAttempt = 2
  InitialStock = 1
  NoTask = NoTask
  Outcomes = {"AUTHORIZED", "FAILED", "EXPIRED", "CAPTURED", "OTHER_AMOUNT"}
SPECIFICATION FairSpec
PROPERTY CapturedIsNoticed
PROPERTY PendingEnds
CHECK_DEADLOCK FALSE
