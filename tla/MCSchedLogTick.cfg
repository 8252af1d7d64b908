SPECIFICATION FairSpec
CONSTANTS
  cpu0 = cpu0
  cpu1 = cpu1
  cpu2 = cpu2
  NULL = NULL
  BSP = cpu0
  CPUs <- OneCPU
  NTasks = 2
  Setups <- LogTick
  MaxDepth = 3
PROPERTIES TasksFinish
CHECK_DEADLOCK FALSE
