SPECIFICATION Spec
CONSTANTS
  MaxOrders = 3
  MaxTrades = 1
  OrderAmt = 2
  MinAmt = 2
  OtherCoins = 1
  CreateStats = {"open", "closed", "canceled", "expired"}
  Replacing = TRUE
  Adjusting = TRUE
  Forgetful = FALSE
  ExitTimeouts = 1
  MaxCrashes = 1
  MaxLost = 1
INVARIANTS
  KnowledgeIsPast
PROPERTIES
  KnowledgeGrows
