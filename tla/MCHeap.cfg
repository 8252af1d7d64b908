SPECIFICATION FairSpec
CONSTANTS
  HeapStart = 64
  InitSizes <- MCInitSizes
  SizeMod = 1024
  Requests <- MCRequests
  Arrays <- MCArrays
  MayDoubleFree = FALSE
INVARIANTS Tiling FlagsMatchOwners AllocFits FullyCoalesced NoLeak
PROPERTIES FailOnlyWhenFull CallsReturn ImplementsContract
