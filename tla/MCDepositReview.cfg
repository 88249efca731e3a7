SPECIFICATION FairDepositSpec
CONSTANTS
  Requests = {r1, r2}
  Workers = {w1, w2}
  Reports <- FiveReports
  Required = 2
  Counts = {2}
  MaxHooks = 2
  MaxStops = 1
PROPERTY CreditsAreReviewed
CHECK_DEADLOCK FALSE
