SPECIFICATION Spec
CONSTANTS
  n1 = n1
  n2 = n2
  a1 = a1
  a2 = a2
  Named = {n1}
  Anonymous = {a1}
  MaxGen = 2
  MaxTrouble = 2
  Faults = {}
INVARIANTS HalfSavedMeansInterrupted
