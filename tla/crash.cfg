SPECIFICATION Spec
CONSTANTS
  a = a
  Orphans = {d}
  NoCommit = NoCommit
  Commits = {a, d}
  Refs = {"main","side"}
  Reach <- MCReach
  MaxSplit = 1
  Clients = {c1, c2}
  PushRetries = 1
  MaxRequests = 2
  Faults = {"crash","consolidate"}
INVARIANTS
  TypeOK
  FetchSufficient
  AlarmMeansHalfSaved
PROPERTIES
  RegisterSpec
SYMMETRY Symmetric
