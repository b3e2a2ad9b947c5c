SPECIFICATION Spec
CONSTANTS
  s1 = s1
  s2 = s2
  s3 = s3
  None = None
  Servers = {s1, s2, s3}
  Names = {"web", "other", "oauth2"}
  Uses <- MCUses
  Requires <- MCRequires
  Misconfigured = {s3}
  Key = "oauth2"
  Steady = {"other", "oauth2"}
  Test = FALSE
INVARIANTS TypeOK HealthyWhenAlone StatusReadable UpFindsServices AlwaysKeyed
CHECK_DEADLOCK FALSE
