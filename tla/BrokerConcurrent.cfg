SPECIFICATION FairSpec
CONSTANTS
  c1 = c1
  c2 = c2
  k1 = k1
  k2 = k2
  f1 = f1
  f2 = f2
  None = None
  Conns = {c1, c2}
  Keys = {k1, k2}
  Prints = {f1, f2}
  Expiring = {f1}
  Policies <- MCOnePolicy
  Outcomes = {"ok", "upstream_failure"}
  Pids = {1}
  MaxEntries = 1
  U32Max = 7
INVARIANTS
  LedgerAndAuditAgree
PROPERTIES
  ImplementsIdempotentCall
  EveryConnectionReleased
