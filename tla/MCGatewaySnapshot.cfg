SPECIFICATION Spec
CONSTANTS
  MaxTrades = 4
  MaxFaults = 1
  MaxReplays = 0
  Orders = {"o1", "o2", "o3"}
  Accounts = {"alice", "bob"}
  Callers = {c1, c2}
  CancelKeys = {"x1"}
  Request <- MixedRequests
  Funding <- TwoAccounts
  Rules <- Tenths
  TierFeeBPS = 4000
  MakerFeeBPS = 2500
  TakerFeeBPS = 5000
  Bounds <- MixedBounds
SYMMETRY CallerSymmetry
INVARIANTS HeldNeverNegative
