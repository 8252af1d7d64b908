CONSTANTS
  cpu0 = cpu0
  cpu1 = cpu1
  cpu2 = cpu2
  info = info
  warn = warn
  CPUs <- MCCPUs
  BSP = cpu0
  Levels <- MCLevels
  WARN = warn
  White = white
  Panics = TRUE
  Spurious = TRUE
  MaxCalls = 3
SPECIFICATION FairSpec
INVARIANTS LinesWhole SinksAgree
PROPERTIES PanicGetsOut
CHECK_DEADLOCK FALSE
