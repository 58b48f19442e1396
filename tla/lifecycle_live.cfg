SPECIFICATION FairSpec
CONSTANTS
  MaxOrders = 3
  MaxTrades = 1
  OrderAmt = 3
  MinAmt = 2
  OtherCoins = 0
  CreateStats = {"open", "closed", "expired"}
  Replacing = FALSE
  Adjusting = FALSE
  Forgetful = FALSE
  ExitTimeouts = 1
  MaxCrashes = 0
  MaxLost = 0
INVARIANTS
  LiveOrdersTracked
  BooksAgree
  NoZombie
PROPERTIES
  DeleteOnlyEmpty
  FillsAreBooked
  IterationsEnd
