SPECIFICATION MakerSpec
CONSTANTS
  Pairs = {1}
  Base <- OneBase
  Quote <- OneQuote
  MakerAccounts = {"m1"}
  Inputs <- Payloads
  Operators = {"op"}
  Approvers = {"op", "chief"}
  Treasury <- Holdings
  Servers = {s1, s2}
  MaxInventory = 2
  MaxSlot = 1
  MaxRequests = 3
INVARIANTS LiveFunded OneQuoter
PROPERTIES InventoryBounded
SYMMETRY Processes
CHECK_DEADLOCK FALSE
