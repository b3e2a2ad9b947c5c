SPECIFICATION FairSpec
CONSTANTS
  s1 = s1
  s2 = s2
  s3 = s3
  None = None
  Servers = {s1}
  Names = {"web", "other", "oauth2"}
  Uses <- OneUses
  Requires <- OneRequires
  Misconfigured = {}
  Key = "oauth2"
  Steady = {}
  Test = FALSE
PROPERTY OfflineShows
CHECK_DEADLOCK FALSE
