SPECIFICATION FairSpec
CONSTANTS
  s1 = s1
  s2 = s2
  s3 = s3
  None = None
  Servers = {s1, s3}
  Names = {"web", "other", "oauth2"}
  Uses <- MCUsesTwo
  Requires <- MCRequiresTwo
  Misconfigured = {}
  Key = "oauth2"
  Steady = {"other"}
  Test = FALSE
PROPERTIES ListenSettles CloseSettles
CHECK_DEADLOCK FALSE
