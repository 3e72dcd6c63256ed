SPECIFICATION Spec
CONSTANTS
  h1 = h1
  h2 = h2
  c1 = c1
  c2 = c2
  c3 = c3
  c4 = c4
  NoSpec = NoSpec
  NoJob = NoJob
  HealthCheck = {h1, h2}
  Name = {"a"}
  NameOf <- SameName
  Helper = {c1, c3}
  HcOf <- Owner
  Specs <- RemedySpec
  MaxParallel = 2
  MaxAge = 1
  CronDelays = {1}
  Faults <- AllFaults
  Events = {"delete", "recreate"}
INVARIANTS
  EveryArmedTimerIsRegistered
