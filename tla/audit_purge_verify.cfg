SPECIFICATION Spec
CONSTANTS
  Requests = {r1, r2, r3}
  BufferSize = 2
  Retries = 2
  PolicyModes = {"warn"}
  MaxInFlight = 3
  MaxBoots = 2
  MaxPurges = 1
  Faults = {}
INVARIANTS PurgeKeepsVerifiable
