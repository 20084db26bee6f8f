SPECIFICATION Spec
CONSTANTS
  N = 3
  Candidates <- MCEvery
  DeviceMax = 3
  MaxWorkers = 4
  Resident = 2
INVARIANTS
  WaitsOnlyOnResident
  HeldByOne
  NoTermDropped
  CompleteAtExit
PROPERTIES
  Terminates
  RefinesSolve
