SPECIFICATION FairSpec
CONSTANTS
  Trades = {"t1", "t2"}
  Accounts = {"a1", "b1"}
  Owner <- TwoOwners
  Funding = {"a1", "b1"}
  Amounts = {1}
  Funds <- TwoFunds
  Operators = {"op"}
  Approvers = {"op", "chief"}
  MaxKeys = 3
  OfferTimes = {1}
  PayTime = 1
  Lag = 1
  BatchLimit = 1
  MaxTime = 2
INVARIANTS EscrowCovered ReleaseJustified
PROPERTIES OverdueEnds EscrowSpec
CHECK_DEADLOCK FALSE
