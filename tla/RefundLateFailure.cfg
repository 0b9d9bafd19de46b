CONSTANTS
  Refunds = {cancel}
  CancelRefund = cancel
  Workers = {w1}
  NoTask = NoTask
  Price = 1
  PartAmount = 1
  Methods = {"ORIGINAL", "WALLET"}
  MaxGatewayAttempts = 2
  Answers = {"PENDING", "SUCCESS", "FAILED"}
  LateAnswers = {"SUCCESS", "FAILED"}
  MaxFaults = 0
SPECIFICATION FairSpec
PROPERTY FailureFallsBack
CHECK_DEADLOCK FALSE
