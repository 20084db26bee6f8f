SPECIFICATION Spec
CONSTANTS
  m1 = m1
  m2 = m2
  d1 = d1
  d2 = d2
  b1 = b1
  b2 = b2
  c1 = c1
  c2 = c2
  s1 = s1
  s2 = s2
  NULL = NULL
  Matrices = {m1}
  Addresses = {b1, b2, c1, c2}
  Streams = {s1}
  Patterns <- MCPatterns
  Nnz <- MCNnz
  LongestRow <- MCLongestRow
  RowSorted <- MCRowSorted
  ColsAscend <- MCColumnsSorted
  SolveDescrs = {d1}
  Second <- MCSecond
  Workspace <- MCPerMatrix
  NonBlocking = {s1}
  Careful = TRUE
  MaxPending = 2
PROPERTIES
  StartsCleared
