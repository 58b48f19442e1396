SPECIFICATION Spec
CONSTANTS
  Pairs = {p1, p2}
  Blacklist = {p2}
  Horizon = 2
  MaxCloses = 2
  StopDuration = 1
  Cooldown = 1
  Lookback = 2
  TradeLimit = 2
  MaxAllowed = 1
  MaxOpen = 1
  Number = 1
  RefreshPeriod = 1
  TickersTtl = 1
  Day = 2
  MinDays = 1
  MaxDays = 2
  MaxParts = 1
  MaxHandlers = 2
CHECK_DEADLOCK FALSE
INVARIANTS
  WhitelistChosen
PROPERTIES
  ProtectionsHold
