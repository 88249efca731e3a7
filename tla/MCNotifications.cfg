SPECIFICATION FairPipelineSpec
CONSTANTS
  Scenarios <- Mixed
  Length = 2
  Publishers = {p1, p2}
  BatchSize = 2
  MaxFaults = 1
  Consumers = {"c1"}
  Customers = {"ann", "bob"}
  Party <- Parties
  Unreadable = {"x1", "bob"}
  MaxMessages = 2
  MaxCalls = 1
PROPERTIES KeptUntilReceived Told
CHECK_DEADLOCK FALSE
