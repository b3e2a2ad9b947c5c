SPECIFICATION FairSpec
CONSTANTS
  Chains <- MCChains
  Tokens = {"none", "garbled", "expired", "forged", "stranger", "known"}
  Inputs <- MCInputs
  Keyed = TRUE
  Results = {"plain", "circular", "lookalike"}
  Rejections = {"own", "internal", "nothing", "unreadable", "unsendable"}
PROPERTY ExceptionsAnswered
CHECK_DEADLOCK FALSE
