CONSTANTS
  LastDay = 2
  Workers = {w1, w2}
  Money = 1
  Supply = 2
  MaxBalance = 1
  MaxDeeds = 2
SPECIFICATION FairSpec
INVARIANT TypeOK
PROPERTY KeepsLedger
PROPERTY FinalIsFinal
PROPERTY RowNotPulledBack
PROPERTY CancelledStopsCharging
CHECK_DEADLOCK FALSE
