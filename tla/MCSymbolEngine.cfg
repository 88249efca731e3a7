CONSTANTS
  Orders <- Three
  Refused <- Third
  Cancels <- OneCancel
  Controls <- Both
  MaxFaults = 2
  MaxJournal = 6
  MaxErrors = 1
  TornWrites = TRUE
SPECIFICATION FairSpec
INVARIANTS
  RestartRebuilds
  AnswersInJournal
  OneHistory
PROPERTY ComesBack
