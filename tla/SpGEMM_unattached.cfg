SPECIFICATION Spec
CONSTANTS
  short = short
  long = long
  none = none
  rowless = rowless
  d1 = d1
  d2 = d2
  b1 = b1
  b2 = b2
  NULL = NULL
  Pairs = {"o1"}
  Results = {"c1"}
  Descrs = {d1}
  Addresses = {b1}
  Buffers <- MCBuffers
  Products = {short, none}
  Rowless = {}
  Work <- MCWork
  Total <- MCTotal
  LongestRow <- MCLongest
  CountTables = {1, 2}
  FillTables = {1, 2}
  MaxTotal = 3
  Orderly = TRUE
  AttachFirst = FALSE
INVARIANT WithinRoom
