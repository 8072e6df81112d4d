SPECIFICATION FairSpec
CONSTANTS
  Settings <- MCSettings
  MaxInput = 3
  MaxOutput = 4
  PipeSize = 1
CHECK_DEADLOCK FALSE
INVARIANTS RunnerInv OutputInOrder
PROPERTIES RunWindsDown
