SPECIFICATION Spec
CONSTANTS
  a = a
  Orphans = {}
  NoCommit = NoCommit
  Commits = {a, b}
  Refs = {"main"}
  Reach <- MCReach
  MaxSplit = 1
  Clients = {c1, c2}
  PushRetries = 0
  MaxRequests = 3
  Faults = {"restore","wipe","accept","network"}
INVARIANTS
  RemoteComplete
  PinsAgree
  WorksAheadOfPin
PROPERTIES
  PinsAdvance
SYMMETRY Symmetric
