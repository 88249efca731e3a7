SPECIFICATION FairSpec
CONSTANTS
  Ids = {"w1", "w2"}
  Amount <- TwoAmounts
  Cost <- TwoCosts
  OwnAddress = {"w1"}
  Approvers = {a1, a2}
  Processes = {p1, p2}
  Modes = {FALSE}
  Production = FALSE
  Deposited = 2
  Grant = 2
  Vault <- Funds
  Outcomes = {"COMPLETED", "CANCELLED"}
  MaxFaults = 1
INVARIANTS LedgerFollowsStatus CalledOnce OutcomeIsTrue PaidFromDeposits
PROPERTIES OutcomeReachesLedger
