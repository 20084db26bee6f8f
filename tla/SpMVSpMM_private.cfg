SPECIFICATION Spec
CONSTANTS
  m1 = m1
  m2 = m2
  b1 = b1
  b2 = b2
  b3 = b3
  s1 = s1
  s2 = s2
  NULL = NULL
  Matrices = {m1, m2}
  Addresses = {b1, b2, b3}
  Streams = {s1}
  Patterns <- MCPatterns
  Nnz <- MCPatternNnz
  LongestRow <- MCPatternLongest
  RowSorted <- MCPatternSorted
  BlockNnz <- MCBlockNnz
  Scratch <- MCPrivate
  MaxPending = 2
INVARIANTS
  TypeOK
  ReadsOwnOffsets
  SegmentsCoverLongestRow
  UnsortedCooNeverLaunched
