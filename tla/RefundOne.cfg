CONSTANTS
  Refunds = {cancel}
  CancelRefund = cancel
  Workers = {w1, w2}
  NoTask = NoTask
  Price = 1
  PartAmount = 1
  Methods = {"ORIGINAL", "WALLET"}
  MaxGatewayAttempts = 2
  Answers = {"PENDING", "SUCCESS"}
  LateAnswers = {"SUCCESS"}
  MaxFaults = 1
SPECIFICATION FairSpec
INVARIANT NotLeftWaiting
INVARIANT RefundedMeansGivenBack
PROPERTY RefundArrives
CHECK_DEADLOCK FALSE
