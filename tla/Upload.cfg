SPECIFICATION UploadFairSpec
CONSTANTS
  Files = {f1, f2, f3}
  MaxParallel = 2
  MaxRetries = 1
  v1 = v1
  v2 = v2
  Versions <- MCVersions
  SizeOf <- MCSizeOf
  MaxBad = 2
INVARIANTS UploadTypeOK PermitsConserved ParallelLimit PermitLeft MismatchesHaveCauses
  CompleteIsDecided PassedIsListed
PROPERTIES UploadEnds
CHECK_DEADLOCK FALSE
