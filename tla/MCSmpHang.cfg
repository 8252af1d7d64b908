SPECIFICATION FairSpec
CONSTANTS
  CpuCount = 3
  BspCpu = 1
  Timeout = 2
  Missable <- BothMissed
PROPERTIES BootCompletes
CHECK_DEADLOCK FALSE
