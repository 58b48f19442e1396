SPECIFICATION Spec
CONSTANTS
  MaxOrders = 3
  MaxTrades = 2
  OrderAmt = 2
  MinAmt = 2
  OtherCoins = 0
  CreateStats = {"open", "closed"}
  Replacing = FALSE
  Adjusting = TRUE
  Forgetful = TRUE
  ExitTimeouts = 1
  MaxCrashes = 1
  MaxLost = 0
INVARIANTS
  NeverOverstated
  OnePerPair
