SPECIFICATION Spec
CONSTANTS
  a = a
  Orphans = {}
  NoCommit = NoCommit
  Commits = {a, b}
  Refs = {"main"}
  Reach <- MCReach
  MaxSplit = 2
  Clients = {c1, c2}
  PushRetries = 1
  MaxRequests = 3
  Faults = {"consolidate","repack"}
INVARIANTS
  RemoteComplete
  FetchSufficient
  LostToNewer
PROPERTIES
  RegisterSpec
SYMMETRY Symmetric
