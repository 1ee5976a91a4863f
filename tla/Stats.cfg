CONSTANTS
  Ranges = {1, 2}
  MaxCount = 2
  Modulus = 10
  MaxDays = 1
  MaxLag = 1
  Rounds = 2
  NoRow = NoRow
  NoStats = NoStats
  NaN = NaN
  Inf = Inf
SPECIFICATION FairSpec
INVARIANTS
  TypeOK
  SameRefresh
  RangesNest
  LongerRangesTrue
PROPERTIES
  EventuallyFresh
