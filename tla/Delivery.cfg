CONSTANTS
  Riders = {r1, r2}
  NoRider = NoRider
  Workers = {w1}
  MaxAttempts = 2
  Steps = 2
  MaxTaps = 1
  MaxRequests = 2
  MaxDeeds = 1
  MaxTries = 2
  MaxResends = 1
SPECIFICATION FairSpec
INVARIANT TypeOK
INVARIANT OrderAgrees
INVARIANT OneWinner
INVARIANT MoneyFollowsGoods
INVARIANT TriesWithinLimit
PROPERTY DeliveredByLiveCode
PROPERTY NoRiderDisplaced
 
PROPERTY CancelledGoesQuiet
CHECK_DEADLOCK FALSE
