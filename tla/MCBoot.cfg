SPECIFICATION FairBootSpec
CONSTANTS
  Images <- MCImages
  MemoryMaps <- MCMaps
  Devices <- MCDevices
  NotFound = 255
  Page = 2
  Fan = 4
  PoolSize = 12
  PoolBase = 6
  KernelStart = 4
  KernelEnd = 31
  Trampoline = 3
  HeapSize = 10
  ConsoleSize = 4
  TaskSize = 1
  MaxCpus = 3
  NTasks = 2
  MaxWait = 1
  FsPerSec = 100
  UsPerSec = 25
  UsPerMs = 2
  WordMod = 100000
  CounterMod = 100000
  Slack = 1
INVARIANTS WalkOnEntries BestRsdp SmpReachesAll UsedWhenReady
PROPERTIES SleepLongEnough BootEnds
CHECK_DEADLOCK FALSE
