SPECIFICATION Spec
CONSTANTS
  SAMPLE_SIZE = 2
  ITERATIONS = 2
  IgnoreIter = {0, 1, 3}
  Cost = {1, 6}
  HeaderWidth = 2
  NameWidth = 1
  RADIX = 5
  RUNS = 3
INVARIANTS
  TypeOK
  OwnBytesFirst
  OneSeam
  SeamsBounded
  RunComplete
  MeasuresMean
CHECK_DEADLOCK FALSE
