SPECIFICATION Spec
CONSTANTS
  m1 = m1
  m2 = m2
  d1 = d1
  s1 = s1
  s2 = s2
  sorted = sorted
  unsorted = unsorted
  empty = empty
  NULL = NULL
  Matrices = {m1, m2}
  SolveDescrs = {d1}
  Streams = {s1, s2}
  Patterns = {sorted, unsorted, empty}
  RowCount <- MCRowCount
  RowSorted <- MCRowSorted
  Widths = {2, 1500}
  Elem = 8
  Widening = FALSE
  MaxPending = 2
SYMMETRY Symmetry
INVARIANTS
  DiagonalFound
  FlagsOwned
  OffsetsFound
  WorkIsOwn
  WithinRoom
