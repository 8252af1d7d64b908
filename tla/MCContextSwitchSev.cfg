SPECIFICATION Spec
CONSTANTS
  t1 = t1
  t2 = t2
  boot = boot
  Boot = boot
  Tasks <- MCTasks
  Versions <- MCVersions
  Vectors <- MCVectorsSev
  ErrorCodes <- MCErrorCodes
INVARIANTS ExceptionReported
CHECK_DEADLOCK FALSE
