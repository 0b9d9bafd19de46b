CONSTANTS
  Refunds = {cancel, line}
  CancelRefund = cancel
  Workers = {w1, w2}
  NoTask = NoTask
  Price = 2
  PartAmount = 1
  Methods = {"ORIGINAL", "WALLET"}
  MaxGatewayAttempts = 2
  Answers = {"PENDING", "SUCCESS", "FAILED"}
  LateAnswers = {"SUCCESS", "FAILED"}
  MaxFaults = 0
SPECIFICATION Spec
SYMMETRY SymmetrySets
INVARIANT TypeOK
INVARIANT MoneyBackWithinPrice
INVARIANT RefundedIsSettled
INVARIANT NotRefundedTwice
CHECK_DEADLOCK FALSE
