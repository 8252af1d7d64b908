SPECIFICATION Spec
CONSTANTS
  t1 = t1
  t2 = t2
  boot = boot
  Boot = boot
  Tasks <- MCTasks
  Versions <- MCVersions
  Vectors <- MCVectors
  ErrorCodes <- MCErrorCodes
INVARIANTS EntryCalled
CHECK_DEADLOCK FALSE
