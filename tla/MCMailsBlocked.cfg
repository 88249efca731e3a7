SPECIFICATION FairPipelineSpec
CONSTANTS
  Scenarios <- Beside
  Length = 2
  Publishers = {p1}
  BatchSize = 2
  MaxFaults = 0
  Consumers = {"c1"}
  Customers = {"ann", "bob"}
  Party <- Parties
  Unreadable = {"x1", "bob"}
  MaxMessages = 2
  MaxCalls = 0
PROPERTIES MailsGetThrough
CHECK_DEADLOCK FALSE
