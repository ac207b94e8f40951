CONSTANTS
  SAMPLE_SIZE = 3
  FILE_SIZE = 2
  FileLength = {1, 2, 3}
  NULL = NULL
  Selected = {NULL, "bench_chacha_base"}
  MayFail = {"init", "create", "csv", "send", "read"}
SPECIFICATION FairSpec
INVARIANTS
  TypeOK
  SamplesConserved
  OnlyWaitingWorkerLeft
  CsvComplete
  KnownCauses
  InputRead
PROPERTIES
  MainEnds
  ImplementsBenchmark
  EveryStepCounts
\* The process ends, and main may wait for ever.
CHECK_DEADLOCK FALSE
