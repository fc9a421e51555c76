SPECIFICATION Spec
CONSTANTS
  c1 = c1
  c2 = c2
  k1 = k1
  k2 = k2
  f1 = f1
  f2 = f2
  None = None
  Conns = {c1}
  Keys = {k1, k2}
  Prints = {f1, f2}
  Expiring = {f1}
  Policies <- MCTwoGenerations
  Outcomes = {"ok", "upstream_failure"}
  Pids = {1, 2}
  MaxEntries = 2
  U32Max = 7
SYMMETRY MCSymmetry
INVARIANTS
  StateFilesSound
PROPERTIES
  ChargedEntryKept
