SPECIFICATION UploadSpec
CONSTANTS
  Files = {f1, f2}
  MaxParallel = 1
  MaxRetries = 1
  v1 = v1
  v2 = v2
  Versions <- MCVersions
  SizeOf <- MCSizeOf
  MaxBad = 1
INVARIANTS ComparedWithRemote
CHECK_DEADLOCK FALSE
