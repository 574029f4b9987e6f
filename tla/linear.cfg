SPECIFICATION Spec
CONSTANTS
  Parts = {"packs"}
  a = a
  b = b
  r1 = r1
  r2 = r2
  p1 = p1
  p2 = p2
  p3 = p3
  Commits = {a, b}
  Refs = {}
  NoCommit = none
  Reach <- MCReach
  Remotes = {r1, r2}
  LivePacks <- MCLivePacks
  PackCommits <- MCPackCommits
  HostRefs <- MCHostRefs
  MaxKills = 1
  ObjSizes = {1, 8}
  MaxObjs = 1
  MaxPushes = 9
  Limits = {10}
  Factors = {2}
  Overhead = 1
  Margin = 1
  MinBudget = 2
  MaxPacks = 10
  Word = 128
  Machines = {m1, m2}
  KeyIds = {k1, k2}
  KeyPaths = {"default", "new"}
  DefaultRef = "default"
  Absent = absent
  Partial = partial
  NoKey = nokey
  MaxVersions = 3
  MaxSetups = 3
  MaxMishaps = 1
  Mishaps = {"delete", "kill", "power", "full", "lost"}
  Dialogues <- MCDialogues
  Disturbances = {"dies", "oversized", "fails"}
INVARIANT LogarithmicallyPacked
CHECK_DEADLOCK FALSE
