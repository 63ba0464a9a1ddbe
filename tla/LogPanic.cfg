SPECIFICATION MCPanicSpec
CONSTANTS
  Blocks = {1, 2, 3}
  Data = {0}
  Zero = 0
  Procs = {p1, p2, p3}
  Third = p3
  MAXOPBLOCKS = 1
  NLOG = 3
  NoBuf = NoBuf
  DiskProcs = {q1}
  NUM = 4
  UINT16 = 8
  DiskData = {0}
  Free = Free
  Intr = Intr
  MaxCrashes = 0
INVARIANTS NoPanic
CHECK_DEADLOCK FALSE
