CONSTANTS
  Shops = 1
  Sessions = {s1, s2}
  Workers = {w1, w2}
  MaxAttempt = 2
  InitialStock = 1
  NoTask = NoTask
  Outcomes = {"AUTHORIZED", "FAILED", "EXPIRED", "CAPTURED", "OTHER_AMOUNT"}
SPECIFICATION Spec
SYMMETRY SymmetrySets
INVARIANT TypeOK
INVARIANT StockConserved
INVARIANT AttemptsInTurn
INVARIANT OnePaymentOnRecord
INVARIANT ConfirmedIsPaid
PROPERTY BookedMoneyBuys
CHECK_DEADLOCK FALSE
