SPECIFICATION FairServerSpec
CONSTANTS
  a1 = a1
  a2 = a2
  e1 = e1
  e2 = e2
  t1 = t1
  good = good
  other = other
  None = None
  Attempts = {a1, a2}
  Executors = {e1, e2}
  Home <- MCHome
  Tools = {t1}
  Registry = {t1}
  Admitted = {t1}
  Inputs = {good, other}
  Valid = {good, other}
  RuleAllow <- MCRuleAllow
  RuleDeny = {}
  Cascade <- MCCascade
  Hooks <- MCHooks
  MaxEvents = 0
  Resumes = {1, 2}
CONSTRAINT ServerUp
INVARIANTS
  SuspensionSound
PROPERTIES
  EveryRequestAnswered
CHECK_DEADLOCK FALSE
