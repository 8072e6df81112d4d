SPECIFICATION FairSpec
CONSTANTS
  Requests = {r1, r2}
  BufferSize = 1
  Retries = 2
  PolicyModes = {"warn", "block"}
  MaxInFlight = 2
  MaxBoots = 2
  MaxPurges = 1
  Faults = {"cancel", "insert"}
PROPERTIES HandlerEnds QueuedRowSettles
