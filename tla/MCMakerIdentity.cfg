SPECIFICATION FairMakerSpec
CONSTANTS
  Pairs = {1}
  Base <- OneBase
  Quote <- OneQuote
  MakerAccounts = {"m1", "m2"}
  Inputs <- Changes
  Operators = {"op"}
  Approvers = {"op", "chief"}
  Treasury <- Holdings
  Servers = {"s1"}
  MaxInventory = 2
  MaxSlot = 0
  MaxRequests = 4
PROPERTIES StopClearsAll
CHECK_DEADLOCK FALSE
