SPECIFICATION Spec
CONSTANTS
  Requests = {r1, r2, r3}
  BufferSize = 2
  Retries = 2
  PolicyModes = {"warn", "block"}
  MaxInFlight = 3
  MaxBoots = 3
  MaxPurges = 2
  Faults = {"cancel", "insert", "crash", "early_return", "purge_all"}
SYMMETRY Symmetry
INVARIANTS ChainVerifies NoFork StoredOnce AnswerIsTrue SentRowsKeepOrder PassingVerifyMeansNoGap
PROPERTIES ImplementsAuditLog
