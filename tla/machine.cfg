SPECIFICATION FairSpec
CONSTANTS
  Parts = {"store", "packs", "keys", "helper"}
  a = a
  b = b
  r1 = r1
  r2 = r2
  p1 = p1
  p2 = p2
  p3 = p3
  Commits = {a, b}
  Refs = {}
  NoCommit = none
  Reach <- MCReach
  Remotes = {r1, r2}
  LivePacks <- MCLivePacks
  PackCommits <- MCPackCommits
  HostRefs <- MCHostRefs
  MaxKills = 1
  ObjSizes = {1, 3}
  MaxObjs = 3
  MaxPushes = 4
  Limits = {0, 2, 3, 6}
  Factors = {0, 2, 9}
  Overhead = 1
  Margin = 1
  MinBudget = 2
  MaxPacks = 4
  Word = 64
  Machines = {m1, m2}
  KeyIds = {k1, k2}
  KeyPaths = {"default", "new"}
  DefaultRef = "default"
  Absent = absent
  Partial = partial
  NoKey = nokey
  MaxVersions = 3
  MaxSetups = 3
  MaxMishaps = 2
  Mishaps = {"delete", "kill", "power", "full", "lost"}
  Dialogues <- MCDialogues
  Disturbances = {"dies", "oversized", "fails"}
INVARIANTS StoreTypeOK KeptUntilWired AlarmMeansPruned
INVARIANTS PackTypeOK VictimsRestore NeverOverLimit TooLargeMeansOneFile LogarithmicWithoutLimit
INVARIANTS KeysTypeOK UniformKey
INVARIANTS WholeBatches
PROPERTIES KeepsReclaimed StoredKeyWhole KeyChangesOnlyByRekey AlwaysAnswered
CHECK_DEADLOCK FALSE
