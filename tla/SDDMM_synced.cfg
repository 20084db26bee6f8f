SPECIFICATION Spec
CONSTANTS
  m1 = m1
  m2 = m2
  b1 = b1
  b2 = b2
  b3 = b3
  s1 = s1
  s2 = s2
  NULL = NULL
  Matrices = {m1, m2}
  Addresses = {b1, b2, b3}
  Streams = {s1, s2}
  Patterns <- MCPatterns
  Nnz <- MCNnz
  LongestRow <- MCLongestRow
  RowSorted <- MCRowSorted
  Scratch <- MCScratch
  Synced = TRUE
  MaxPending = 3
INVARIANTS
  ReadsOwnRowIds
  RememberedIdsArrive
