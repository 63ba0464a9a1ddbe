SPECIFICATION ColoursSpec
CONSTANTS
  NumAnimals = 1
  LoavesPerBatch = 1
  NumBatches = 1
  LoavesToEat = 1
  Commands <- ThreadCommands
  NumFollowers = 1
  NumShifts = 1
INVARIANT RedExclusive
CHECK_DEADLOCK FALSE
