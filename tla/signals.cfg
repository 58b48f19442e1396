SPECIFICATION Spec
CONSTANTS
  Sides = {long, short}
  Start = 2
  Horizon = 5
  Limit = 3
  Calls = 2
  Slack = 0
  Patience = 1
  Startup = 1
  MaxAge = 2
  Cooldown = 1
  Lookback = 1
  MaxUntraded = 1
  MaxTrades = 1
SYMMETRY Symmetry
CHECK_DEADLOCK FALSE
INVARIANTS
  NoFabricated
PROPERTIES
  ClosedSignals
  NoReentryOnOldSignal
  CooldownHolds
