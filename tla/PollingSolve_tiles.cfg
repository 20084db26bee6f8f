SPECIFICATION Spec
CONSTANTS
  N = 3
  Candidates <- MCEvery
  Tiles = 2
  Watched = 1
  Resident = 3
  Ahead = 2
INVARIANTS
  NoTermDropped
  NeverStuck
  CompleteAtExit
PROPERTIES
  Terminates
  RefinesSolve
