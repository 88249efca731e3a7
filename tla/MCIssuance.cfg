SPECIFICATION Spec
CONSTANTS
  Calls = {c1, c2}
  Owner <- Owners
  Subaccounts = {"sub"}
  Limit = 1
  Opening <- Start
  Rank <- Ranks
  Dollar = "usdt"
  Price = 2
  Transfers <- SomeTransfers
  Conversions <- SomeConversions
  ConfirmKeys = {"k1"}
  RoleChanges <- SomeRoles
  Staff <- Staffed
  MaxCalls = 4
  Proposals <- SomeProposals
  Before <- Made
  Recipients = {"alice"}
  Pilots <- SomePilots
  TesterLimit = 8
  FirstLimit = 6
  Tickers <- Venues
  MaxDivergence = 100
SYMMETRY CallSymmetry
INVARIANTS NotOverdrawn KnownCircles AdministratorRemains WithinLimits
PROPERTY StopHolds
CHECK_DEADLOCK FALSE
