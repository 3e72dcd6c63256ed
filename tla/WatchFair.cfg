SPECIFICATION FairSpec
CONSTANTS
  None = None
  Specs <- WatchedSpecs
  Lag = 1
  Grace = 1
  Horizon = 12
  Faults = {"poll"}
CHECK_DEADLOCK FALSE
INVARIANTS
  TypeOK
  VerdictIsTrue
  JudgedIfInTime
  WatchIsBounded
  NotBusy
  GivenUpSoonEnds
PROPERTIES
  WatchEnds
