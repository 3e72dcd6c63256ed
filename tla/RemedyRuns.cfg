SPECIFICATION Spec
CONSTANTS
  r1 = r1
  r2 = r2
  NoCopy = NoCopy
  Run = {r1}
  Specs <- AllSpecs
  MaxAge = 3
  MaxVerdicts = 5
  Faults <- AllFaults
  Events = {"edit", "pause", "crash"}
INVARIANTS
  LimitInv
PROPERTIES
  KeepsALedger
  WithinLimit
