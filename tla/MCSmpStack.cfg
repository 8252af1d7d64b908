SPECIFICATION Spec
CONSTANTS
  CpuCount = 4
  BspCpu = 1
  Timeout = 1
  Missable <- NoneMissed
INVARIANTS OwnStack
