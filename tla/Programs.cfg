SPECIFICATION MCSpec
CONSTANTS
  N = 4
  MaxSpurious = 3
  NumJobs = 2
  NumHome = 2
  NumAway = 1
  NumRed = 3
  NumBlue = 2
  NumFriends = 4
  NumPool = 3
  NumRequests = 4
  NumReaders = 2
  NumWriters = 2
  NumAnimals = 3
  LoavesPerBatch = 2
  NumBatches = 3
  LoavesToEat = 2
  Commands <- ThreadCommands
  NumFollowers = 3
  NumShifts = 3
  NPROC = 8
  NFILE = 10
  NOFILE = 8
  PIPESIZE = 2
  NINODES = 18
  NBLOCKS = 24
  MAXFILE = 6
  DPB = 16
  NPAGES = 24
  PGSIZE = 2
  Rounds = 2
  MAXARGS = 5
  Disk <- Files
  MoreCore = 3
  Units = {2, 3, 4}
  HeapEnd = 12
INVARIANTS FinishInOrder LabThreadsSafe TestsPass ShellMeans NothingLeaked NobodyStuck HeapSound
PROPERTY ThreadsEnd
CHECK_DEADLOCK FALSE
