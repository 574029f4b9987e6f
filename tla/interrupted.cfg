SPECIFICATION Spec
CONSTANTS
  a = a
  Orphans = {}
  NoCommit = NoCommit
  Commits = {a, b, d}
  Refs = {"main"}
  Reach <- MCReach
  MaxSplit = 1
  Clients = {c1, c2}
  PushRetries = 1
  MaxRequests = 2
  Faults = {"crash"}
INVARIANTS InterruptionNeverBlocks
SYMMETRY Symmetric
