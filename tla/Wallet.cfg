CONSTANTS
  TopUps = {p1, p2}
  TopUpAmount = 3
  Bonus = 2
  PerCustomerLimit = 1
  Budget = 5
  Price = 4
  LineAmount = 1
  Charges = {0, 1}
  Workers = {w1, w2}
  NoTask = NoTask
  MaxRefunds = 3
SPECIFICATION Spec
INVARIANT TypeOK
INVARIANT MoneyConserved
INVARIANT BonusWithinRules
INVARIANT AffordableIsAccepted
SYMMETRY SymmetrySets
CHECK_DEADLOCK FALSE
