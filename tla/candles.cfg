SPECIFICATION Spec
CONSTANTS
  Horizon = 6
  Limit = 2
  DayLen = 2
  Archives = {TRUE, FALSE}
  NewDays = 2
  Dates = {0, 3, 5}
  Quiet = {2, 3}
  Crashing = TRUE
INVARIANTS
  OnlyNewestUnfinished
PROPERTIES
  KeepsArchive
