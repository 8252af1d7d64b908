SPECIFICATION Spec
CONSTANTS
  cpu0 = cpu0
  cpu1 = cpu1
  cpu2 = cpu2
  NULL = NULL
  BSP = cpu0
  CPUs <- TwoCPUs
  NTasks = 2
  Setups <- SmpTick
  MaxDepth = 3
INVARIANTS SwitchReturnsIntoTask
