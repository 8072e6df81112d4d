SPECIFICATION Spec
CONSTANTS
  Requests = {r1, r2}
  BufferSize = 2
  Retries = 2
  PolicyModes = {"warn"}
  MaxInFlight = 2
  MaxBoots = 1
  MaxPurges = 0
  Faults = {}
INVARIANTS SendOrderIsChainOrder
