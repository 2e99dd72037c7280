SPECIFICATION Spec
CONSTANTS
  c1 = c1
  c2 = c2
  Client <- MCClient
  Word = 64
  PoolBase = 6
  PoolSize = 26
  PHYS_ALLOC_NR_REGIONS = 3
  Requests <- MCRequests
  MaxCalls = 2
INVARIANTS
  UnusedIsUnused
