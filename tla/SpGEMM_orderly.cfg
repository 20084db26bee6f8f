SPECIFICATION Spec
CONSTANTS
  short = short
  long = long
  none = none
  rowless = rowless
  d1 = d1
  d2 = d2
  b1 = b1
  b2 = b2
  NULL = NULL
  Pairs = {"o1"}
  Results = {"c1"}
  Descrs = {d1, d2}
  Addresses = {b1, b2}
  Buffers <- MCBuffers
  Products = {short, long, rowless}
  Rowless = {rowless}
  Work <- MCWork
  Total <- MCTotal
  LongestRow <- MCLongest
  CountTables = {1, 2}
  FillTables = {1, 2}
  MaxTotal = 3
  Orderly = TRUE
  AttachFirst = TRUE
INVARIANTS
  TypeOK
  WithinRoom
  CopyDelivers
  RowFactFollows
