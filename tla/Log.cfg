SPECIFICATION MCSpec
CONSTANTS
  Blocks = {1, 2}
  Data = {0, 1}
  Zero = 0
  Procs = {p1, p2, p3}
  Third = p3
  MAXOPBLOCKS = 2
  NLOG = 7
  NoBuf = NoBuf
  DiskProcs = {q1, q2, q3}
  NUM = 4
  UINT16 = 8
  DiskData = {0}
  Free = Free
  Intr = Intr
  MaxCrashes = 2
INVARIANTS IInv LogSpaceReserved SleeperHasWaker
PROPERTIES AtomicAndDurable RecoveryEnds SleeperWoken RequestsReturn
