CONSTANTS
  cpu0 = cpu0
  cpu1 = cpu1
  cpu2 = cpu2
  info = info
  warn = warn
  CPUs <- TwoCPUs
  BSP = cpu0
  Levels <- MCLevels
  WARN = warn
  White = white
  Panics = FALSE
  Spurious = TRUE
  MaxCalls = 3
SPECIFICATION FairSpec
PROPERTIES
  SpuriousLogged
CHECK_DEADLOCK FALSE
