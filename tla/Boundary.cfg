SPECIFICATION FairSpec
CONSTANTS
  b1 = b1
  b2 = b2
  p1 = p1
  Kids = {b1, b2}
  Pids = {p1}
  NoPid = NoPid
  Free = Free
  Orphan = Orphan
  MaxObservers = 2
INVARIANTS
  NothingCrossesOver
  OkMeansGone
PROPERTIES
  NothingStranded
  ObserversReleased
