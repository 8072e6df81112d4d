SPECIFICATION FairSpec
CONSTANTS
  r1 = r1
  r2 = r2
  r3 = r3
  Requests = {r1, r2, r3}
  Recorders = {r1, r2, r3}
  Runner = run
  Events <- MCEvents
  RingSize = 2
  Ids = {i1, i2}
  Configs <- MCConfigs
  Settings <- MCSettings
  ChannelSize = 1
  MaxReloads = 1
  MaxAnswers = 2
CHECK_DEADLOCK FALSE
INVARIANTS LogInv EntryNamesItsRequest TelemetryInv
PROPERTIES AllDrains
