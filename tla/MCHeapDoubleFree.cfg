SPECIFICATION Spec
CONSTANTS
  HeapStart = 64
  InitSizes <- MCInitSizes
  SizeMod = 1024
  Requests <- MCRequests
  Arrays <- MCArrays
  MayDoubleFree = TRUE
PROPERTIES DoubleFreeCaught
