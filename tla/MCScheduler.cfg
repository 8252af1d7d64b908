SPECIFICATION FairSpec
CONSTANTS
  cpu0 = cpu0
  cpu1 = cpu1
  cpu2 = cpu2
  NULL = NULL
  BSP = cpu0
  CPUs <- ThreeCPUs
  NTasks = 3
  Setups <- Sound
  MaxDepth = 4
INVARIANTS SwitchReturnsIntoTask NoTaskLost IdleStaysHome
PROPERTIES DeadIsFinal TasksFinish
