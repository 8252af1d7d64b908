SPECIFICATION FairSpec
CONSTANTS
  CpuCount = 5
  BspCpu = 1
  Timeout = 2
  Missable <- FirstMissed
INVARIANTS OwnStackInTime Barrier
PROPERTIES WaitIsForThisApInTime BootCompletes
