SPECIFICATION MCSpec
CONSTANTS
  PipeProcs = {p1, p2}
  Creator = p1
  Nobody = Nobody
  PipeBytes = {0, 1}
  PIPESIZE = 2
  PUINT = 4
  MaxN = 3
  Readers = {r1}
  Writers = {w1, w2}
  Chars = {"a", "b"}
  Keys = {"a", "b", "cr", "D", "U", "H", "nul"}
  INPUT_BUF_SIZE = 2
  UART_TX_BUF_SIZE = 2
  UINT = 4
  FIFO_SIZE = 3
  w1 = w1
  w2 = w2
  Text <- TextOf
  Counts = {1, 2}
  Consumed = 3
  MaxTyped = 3
  Handler = Handler
  Unheld = Unheld
INVARIANTS NoOverrun
PROPERTIES FirstInFirstOut SleepersWoken LineDiscipline ConsoleWritersWoken
CHECK_DEADLOCK FALSE
