CONSTANTS
  DayLength = 3
  MaxTime = 8
  MaxLost = 2
SPECIFICATION FairSpec
INVARIANTS
  TypeOK
  OnePerDay
  RestartChangesNothing
PROPERTIES
  CaughtUp
