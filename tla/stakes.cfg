SPECIFICATION StakeSpec
CONSTANTS
  Pairs = {p1, p2}
  Funds = 5
  Capitals = {0, 4}
  Stakes = {0, 3}
  RatioNum = 4
  RatioDen = 5
  LastNum = 1
  LastDen = 2
  MinStake = 2
  MaxStake = 4
  Customs = {2}
  Extras = {4}
  MaxOpen = 2
  Gain = 1
  MaxEntries = 3
  MaxTransfers = 1
SYMMETRY PairSymmetry
CHECK_DEADLOCK FALSE
INVARIANTS
  Affordable
PROPERTIES
  WithinAllowance
