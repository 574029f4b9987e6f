SPECIFICATION FairSpec
CONSTANTS
  a = a
  Orphans = {}
  NoCommit = NoCommit
  Commits = {a, b}
  Refs = {"main"}
  Reach <- MCReach
  MaxSplit = 1
  Clients = {c1, c2}
  PushRetries = 1
  MaxRequests = 3
  Faults = {"repack"}
PROPERTIES PushAnswered Converges MissedIsPinned
