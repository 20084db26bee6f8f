SPECIFICATION Spec
CONSTANTS
  kBlockN = 2
  kBlockSize = 3
  MaxRows = 3
  MaxNnz = 3
  CooArrays <- MCCooArrays
  Operands <- MCOperands
  Products <- MCProducts
  Sizes <- MCSizes
  Vectors <- MCVectors
INVARIANTS
  OffsetsDelimitRows
  AcceptsExactlySorted
  LongestIsLargestRow
  ScanStopsPastDependencies
  ReadsOpOfB
  WritesEachElementOnce
  WorkCarriesTheOperand
  BetaAppliedOnce
  FitsTheDevice
  EntriesVisitedOnce
