SPECIFICATION Spec
CONSTANTS
  c1 = c1
  c2 = c2
  c3 = c3
  a1 = a1
  Calls = {c1, c2, c3}
  Known = {a1}
  Recalcs = {loop, api}
  Loop = loop
  Conducts <- MCConducts
  Levels = {"blocked"}
  MaxLogs = 2
  MaxRestarts = 1
  Methods = {m1}
  MaxRate = 1
  Window = 2
  MaxFails = 2
  FailWindow = 2
  BlockDur = 3
  EndOfTime = 5
  Settings <- MCSettings
CHECK_DEADLOCK FALSE
PROPERTIES BlockLasts
