SPECIFICATION Spec
CONSTANTS
  h1 = h1
  h2 = h2
  w1 = w1
  w2 = w2
  n1 = n1
  n2 = n2
  r1 = r1
  r2 = r2
  r3 = r3
  Absent = Absent
  None = None
  NoJob = NoJob
  HealthCheck = {h1, h2}
  Run = {w1, w2}
  HcOf <- Owner
  SpecsOf <- SeparateSpecs
  Name = {"a", "a-remedy", "b"}
  Remedied <- Suffixed
  Namespace = {n1, n2}
  Rules = {r1, r2, r3}
  defaultHealthCheckRules = r1
  defaultRemedyRules = r2
  UserObjects <- OwnObjects
  Faults <- AllFaults
  Events = {"edit", "own", "crash"}
INVARIANTS
  WatchedIsPermitted
  CleanupFindsItsObjects
  NothingLeftBehind
  SeparateInv
PROPERTIES
  UserObjectsSurvive
