CONSTANTS
  c1 = c1
  c2 = c2
  b1 = b1
  b2 = b2
  timeout = timeout
  known = known
  NoReason = NoReason
  Commitments = {c1, c2}
  Budgets = {b1, b2}
  ExceptWhen <- MCExceptWhen
  Prepares = {c1}
  BudgetOf <- OneBudget
  Times <- MCTimes
  Reasons <- MCReasons
  Throws = {c1}
  CallsPerRun = 2
SPECIFICATION Spec
INVARIANTS TypeOK RetriesWithinBudget SharedBudgetIsSplit
PROPERTIES ExhaustedForGood EveryStepSpends
CHECK_DEADLOCK FALSE
