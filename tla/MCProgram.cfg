SPECIFICATION PSpec
CONSTANTS
  NONE = NONE
  ERR = ERR
  EMPTY = EMPTY
  QueryId = 7
  NameSteps = 4
  MarkMax = 255
  NameMax = 3
  MaxEvents = 4
  MaxLen = 2
  MaxClock = 2
  Cases <- MCCases
INVARIANTS
  
  EgressAsConfigured
  ShareLinkTrue
  ExitStatusTruthful
  LogAccounts

  
CHECK_DEADLOCK FALSE
