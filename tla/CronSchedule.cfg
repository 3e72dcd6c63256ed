SPECIFICATION Spec
CONSTANTS
  h1 = h1
  h2 = h2
  c1 = c1
  c2 = c2
  c3 = c3
  c4 = c4
  NoSpec = NoSpec
  NoJob = NoJob
  HealthCheck = {h1}
  Name = {"a"}
  NameOf <- SingleName
  Helper = {c1}
  HcOf <- Owner
  Specs <- OneCron
  MaxParallel = 1
  MaxAge = 1
  CronDelays = {1}
  Faults = {}
  Events = {}
PROPERTIES
  CronWaitsForItsTimer
