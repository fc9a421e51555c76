SPECIFICATION Spec
CONSTANTS
  a1 = a1
  a2 = a2
  e1 = e1
  t1 = t1
  good = good
  other = other
  bad = bad
  None = None
  Attempts = {a1, a2}
  Executors = {e1}
  Home <- MCHome
  Tools = {t1}
  Registry = {t1}
  Admitted = {t1}
  Inputs = {good, other, bad}
  Valid = {good, other}
  RuleAllow <- MCRuleAllow
  RuleDeny <- MCRuleDeny
  Cascade <- MCCascade
  Hooks <- MCHooks
  MaxEvents = 1
SYMMETRY MCSymmetry
CONSTRAINTS
  SomeoneLives
  FewCancelled
  OneDisturbance
INVARIANTS
  Governed
  RecordsTellTheTruth
PROPERTIES
  NoEntryAfterFailure
CHECK_DEADLOCK FALSE
