SPECIFICATION MCSpec
CONSTANTS
  Procs = {1, 2}
  NPAGES = 20
  FAN = 3
  PGSIZE = 4
  ALIGN = 2
  MAXARG = 2
  UINT64 = 200
  Programs <- ProgramFiles
  ArgLists <- Arguments
  Increments <- SbrkSizes
  Stores <- UserStores
  Reads <- KernelReads
  CodeByte = 7
  CharByte = 8
  OthersHold <- TakenByOthers
  NoMem = NoMem
  MaxMemCalls = 2
  Harts = {0, 1}
  KProcs = {k1, k2}
  Spare = k2
  NoThread = NoThread
  PipeProcs = {p1, p2, p3}
  Creator = p1
  Nobody = Nobody
  PipeBytes = {0}
  PIPESIZE = 1
  PUINT = 2
  MaxN = 2
SYMMETRY Symmetry
INVARIANTS NoKernelPanic NoPageLost CopiesAgree TrapInv PipeInv
PROPERTY PrivateMemory
