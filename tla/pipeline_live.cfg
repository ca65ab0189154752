SPECIFICATION FairSpec
CONSTANTS
  j1 = j1
  j2 = j2
  NoJob = NoJob
  Free = Free
  Dead = Dead
  Jobs = {j1}
  Slots = {s1, s2}
  NumRows <- MCNumRows
  BadRows <- MCBadRows
  ContactOf <- MCContactOf
  TypedRows <- MCTypedRows
  CsvJobs = {j1}
  UseS3 = TRUE
  BatchSize = 2
  MaxAttempts = 2
  MaxStalled = 1
  MaxFaults = 2
  MaxCrashes = 2
  MaxLockLosses = 0
  MaxClears = 1
PROPERTIES ImplementsLifecycle JobsSettle UploadsReported
CHECK_DEADLOCK FALSE
