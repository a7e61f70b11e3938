SPECIFICATION Spec
CONSTANTS
  f1 = f1
  f2 = f2
  k1 = k1
  k2 = k2
  File <- MCFile
  Key = {k1, k2}
  FileOf <- MCFileOf
  Severity = {2}
  Measure <- MCMeasure
INVARIANT MissingNeverZero
CHECK_DEADLOCK FALSE
