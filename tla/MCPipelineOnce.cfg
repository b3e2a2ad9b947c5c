SPECIFICATION FairSpec
CONSTANTS
  Chains <- MCChains
  Tokens = {"none", "garbled", "expired", "forged", "stranger", "known"}
  Inputs <- MCInputs
  Keyed = TRUE
  Results = {"plain", "circular", "lookalike"}
  Rejections = {"own", "internal", "nothing", "unreadable", "unsendable"}
INVARIANTS TypeOK AnsweredOnce ActsWhenAdmitted EndsAnswered
PROPERTIES NothingActsOnAnswered Advances Answered
CHECK_DEADLOCK FALSE
