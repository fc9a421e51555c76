SPECIFICATION Spec
CONSTANTS
  d1 = d1
  d2 = d2
  c1 = c1
  c2 = c2
  StableRuns = 2
  ParityReceipts = 2
  WindowHours = 2
  BakeHours = 2
  DeltaConditions = {c1, c2}
  Digests = {d1, d2}
  RawValues = {"archived", "odd"}
  IndexCounts = {"none", "counted"}
  StatusMap <- MCStatusMap
  Record = 2
  Ample <- MCAmple
  Green <- MCGreen
  MaxDocs <- MCMaxDocs
  MaxChanges = 2
  MaxRollbacks = 1
  Focus <- MCFocus
INVARIANTS HistoryIsAWalk TransitionsEarned AttestationStands
CHECK_DEADLOCK FALSE
