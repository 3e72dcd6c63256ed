SPECIFICATION FairSpec
CONSTANTS
  h1 = h1
  h2 = h2
  Nobody = Nobody
  HealthCheck = {h1, h2}
  Dispensable = {h2}
  Remedied = {}
  Contents <- Unreadable
  Label = {"instanceid", "team"}
  Value = {"activemonitor-workflows", "x"}
  InstanceId = "instanceid"
  WfInstanceId = "activemonitor-workflows"
  MapMade = TRUE
  Faulty = FALSE
INVARIANTS
  LockIsGivenBack
  NobodyWaitsInACircle
PROPERTIES
  RunsPeriodically
  KeepsThePromise
