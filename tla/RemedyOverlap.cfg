SPECIFICATION Spec
CONSTANTS
  r1 = r1
  r2 = r2
  NoCopy = NoCopy
  Run = {r1, r2}
  Specs <- OneLimit
  MaxAge = 2
  MaxVerdicts = 3
  Faults <- StaleFaults
  Events = {"edit", "crash"}
VIEW RecordView
SYMMETRY RunSymmetry
INVARIANTS
  NoNilDereference
  NeverCountedTwice
