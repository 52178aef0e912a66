SPECIFICATION FairSpec
CONSTANTS
  Files = {f1, f2}
  MaxParallel = 1
  MaxRetries = 1
  Versions = {v1, v2}
  MaxBad = 1
PROPERTIES RetryProceeds
CHECK_DEADLOCK FALSE
