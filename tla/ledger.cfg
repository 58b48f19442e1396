SPECIFICATION LedgerSpec
CHECK_DEADLOCK FALSE
CONSTANTS
  Workers = {w1, w2}
  Kinds = {"flow", "tick", "reset", "config"}
  InitialCapital = 8
  NewCapital = 4
  Den = 2
  FlowSizes = {1}
  TickSizes = {1}
  MinStake = 1
  MaxGain = 1
  MaxLoss = 1
  MaxRequests = 4
INVARIANTS
  Conservation
  DeployedIsPositions
PROPERTIES
  NoOverdraw
