SPECIFICATION Spec
CONSTANTS
  Exchanges = {e1, e2, e3}
  Hosts = {"listed", "other"}
  MITMHosts = {"other"}
  Chains <- AnyChain
  MaxReloads = 1
  Faults = {"bad", "log", "hijack", "client", "dial", "inner"}
SYMMETRY Symmetry
INVARIANTS RefusedStaysInside AtMostOneRow OneAtATime RowTellsDecision EveryAnswerLands
PROPERTIES RefusalEndsTunnel
