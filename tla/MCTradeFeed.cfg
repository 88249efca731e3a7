SPECIFICATION FairFeed
CONSTANTS
  MaxTrades = 4
  MaxFaults = 2
  MaxReplays = 1
INVARIANTS SettledInOrder GapHaltsPair
PROPERTIES GapHeals
