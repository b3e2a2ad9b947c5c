CONSTANTS
  c1 = c1
  c2 = c2
  b1 = b1
  b2 = b2
  timeout = timeout
  known = known
  NoReason = NoReason
  Commitments = {c1, c2}
  Budgets = {b1, b2}
  ExceptWhen <- MCExceptWhen
  Prepares = {c1}
  BudgetOf <- OwnBudgets
  Times <- MCTimesNegative
  Reasons <- MCFairReasons
  Throws = {}
  CallsPerRun = 1
SPECIFICATION FairSpec
INVARIANTS NothingAfterSettlement AttemptIsRun
PROPERTIES ImplementsRetrying ImplementsFairRetrying
\* The program ends when every promise is settled.
CHECK_DEADLOCK FALSE
