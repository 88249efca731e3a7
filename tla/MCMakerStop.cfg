SPECIFICATION FairMakerSpec
CONSTANTS
  Pairs = {1}
  Base <- OneBase
  Quote <- OneQuote
  MakerAccounts = {"m1", "m2"}
  Inputs <- Changes
  Operators = {"op"}
  Approvers = {"op", "chief"}
  Treasury <- Holdings
  Servers = {"s1", "s2"}
  MaxInventory = 2
  MaxSlot = 0
  MaxRequests = 3
PROPERTIES StopClears
CHECK_DEADLOCK FALSE
