SPECIFICATION MallocSpec
CONSTANTS
  c1 = c1
  c2 = c2
  Client <- MCClient
  Word = 64
  PoolBase = 10
  PoolSize = 24
  PHYS_ALLOC_NR_REGIONS = 3
  Requests <- MCRequests
  MaxCalls = 2
  PtrSize = 1
  MinAligns <- MCMinAligns
  FirstMinAlign = 4
  Aligns <- MCAligns
  Asked <- MCAsked
  Arrays <- MCNoArrays
  MapTop = 20
INVARIANT NoMappingNeeded
