SPECIFICATION Spec
CONSTANTS
  HeapStart = 64
  InitSizes <- MCInitSizes
  SizeMod = 1024
  Requests <- MCWrapRequests
  Arrays <- MCArrays
  MayDoubleFree = FALSE
INVARIANTS AllocFits
