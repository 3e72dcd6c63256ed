SPECIFICATION FairSpec
CONSTANTS
  h1 = h1
  h2 = h2
  Nobody = Nobody
  HealthCheck = {h1, h2}
  Dispensable = {}
  Remedied = {}
  Contents <- Plain
  Label = {"instanceid", "team"}
  Value = {"activemonitor-workflows", "x"}
  InstanceId = "instanceid"
  WfInstanceId = "activemonitor-workflows"
  MapMade = FALSE
  Faulty = FALSE
PROPERTIES
  RunsPeriodically
