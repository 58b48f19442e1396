SPECIFICATION FairSpec
CONSTANTS
  LastMoment = 7
  MaxTrades = 3
  ArchiveDay = 2
  ReplySize = 2
  Back = 1
  NewPairSpan = 4
  Window = 4
  Delay = 1
  AskedDates = {3}
  Venues = {"binance", "ccxt", "kraken"}
  Modes = {"download", "live"}
CHECK_DEADLOCK FALSE
INVARIANTS
  TradesTyped
PROPERTIES
  NoGaps
  Complete
  DownloadEnds
