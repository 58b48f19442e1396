SPECIFICATION Spec
CONSTANTS
    Pairs = {p, q}
    None = None
    Dirs = {"long", "short"}
    Prices = {180, 240}
    Dist = 60
    Customs = {120}
    Coins = {1}
    MaxOpen = 1
    MaxAdjust = 1
    Candles = 2
    Details = 2
    Start = 240
CHECK_DEADLOCK FALSE
INVARIANTS
    FlowsAreBooked
    EndsFlat
PROPERTIES
    StopRatchets
