SPECIFICATION MCSpec
CONSTANTS
  CacheProcs = {p1, p2, p3}
  CacheBlocks = {1, 2, 3}
  BlockData = {0, 1}
  Bufs = {b1, b2}
  Nothing = Nothing
  DiskProcs = {q1, q2}
  NUM = 7
  UINT16 = 14
  DiskData = {0, 1}
  Free = Free
  Intr = Intr
  Procs = {init, a, b}
  CPUs = {c1, c2}
  InitProc = init
  None = None
  MaxPid = 4
  KillPids = {1, 2, 3, 4}
SYMMETRY Symmetry
VIEW View
INVARIANTS CacheInv DriverInv TransferComplete ProcInv NoOrphans NoMissedExit KilledByPid
PROPERTY OneCopyOfEachBlock
