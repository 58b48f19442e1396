CONSTANTS
  Pairs = {one, two}
  Exploits = {"convexity_seeding", "funding_capture"}
  Atrs = {"low", "high"}
  Depths = {"normal"}
  Fundings = {"neutral"}
  Capital = 24
  BaseShare = 2
  FlowShare = 1
  ConvexityShare = 1
  Cap = 1
  Gains = {4}
  Losses = {4}
  Sizes = {30}
  Sides = {TRUE}
  YellowAt = 15
  RedAt = 40
  RegretAt = 40
  EmergencyAt = 30
  LossYellow = 2
  LossRed = 3
  MinTrades = 2
  MaxLosses = 2
  Critical = 3
  MaxMisses = 3
  CriticalMisses = 4
  Lookback = 3
  MaxPerSymbol = 1
  MaxDirection = 70
  MaxSameRegime = 2
  MaxStack = 2
  MaxOpen = 3
  MaxProposals = 2
  MaxTrades = 3
SPECIFICATION Spec
CHECK_DEADLOCK FALSE
SYMMETRY PairSymmetry
INVARIANTS
  Accounts
  StacksLimited
  RegretIsRed
  CriticalIsZero
