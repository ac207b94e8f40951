CONSTANTS
  SAMPLE_SIZE = 3
  FILE_SIZE = 2
  FileLength = {2}
  NULL = NULL
  Selected = {"bench_chacha_base"}
  MayFail = {"send"}
SPECIFICATION FairSpec
PROPERTIES
  AllSamplesCollected
\* main may wait for ever: that is what the run shows.
CHECK_DEADLOCK FALSE
