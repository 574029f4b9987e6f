SPECIFICATION Spec
CONSTANTS
  n1 = n1
  n2 = n2
  a1 = a1
  a2 = a2
  Named = {n1, n2}
  Anonymous = {a1}
  MaxGen = 1
  MaxTrouble = 2
  Faults = {"kill", "power", "full"}
INVARIANTS TypeOK RemoteSerialized AnsweredIsDurable FailedSaveKeepsPair
SYMMETRY Symmetric
