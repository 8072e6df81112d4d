SPECIFICATION Spec
CONSTANTS
  u1 = u1
  u2 = u2
  u3 = u3
  Users = {u1, u2, u3}
  Agents = {"a1"}
  Keys = {"k1", "k2"}
  TTL = 2
  MaxTime = 3
  LastTime = 3
  MaxChains = 2
  TokenIds = {t1}
  Hour = 1
  Month = 2
  Plans <- MCPlans
  Configs <- MCConfigs
  Settings <- MCSettings
CHECK_DEADLOCK FALSE
INVARIANTS AdmissionInv CacheIsFresh ClosedMeansSigned OverrunIsOverlap
