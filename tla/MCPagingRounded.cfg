SPECIFICATION Spec
CONSTANTS
  Page = 2
  Fan = 4
  PoolSize = 8
  PoolBase = 6
  KernelStart = 4
  KernelEnd = 45
  MemoryMaps <- MCMemoryMaps
  Devices <- MCRoundedDevices
INVARIANTS TablesFormTree
