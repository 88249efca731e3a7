SPECIFICATION Spec
CONSTANTS
  MaxTrades = 4
  MaxFaults = 0
  MaxReplays = 0
  Orders = {"o1", "o2"}
  Accounts = {"alice", "bob"}
  Callers = {c1, c2}
  CancelKeys = {"x1", "x2"}
  Request <- IocRequests
  Funding <- TwoAccounts
  Rules <- Tenths
  TierFeeBPS = 4000
  MakerFeeBPS = 2500
  TakerFeeBPS = 5000
  Bounds <- IocBounds
INVARIANTS NextTradeSettles
