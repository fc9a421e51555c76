SPECIFICATION FairSpec
CONSTANTS
  MaxTurns = 3
  Cap = 1
  Costs <- MCCosts
  MaxCost = 1
  RetryLimit = 1
  EdgeLimit = 2
  PauseBudget = 2
  WaitBudget = 2
  RequireAction = TRUE
  FirstPrompt = FALSE
  Calls = {c1, c2}
  SpentBefore <- MCSpentBefore
INVARIANTS ChargesAccounted CompletedMeansWork
PROPERTIES NothingStartsAfterCancel Termination
CHECK_DEADLOCK FALSE
