CONSTANTS
  auth = auth
  s1 = s1
  s2 = s2
  None = None
  Callers = {auth, s1, s2}
  Auth = auth
  Required = {auth}
  Clients <- MCClients
  Stamped = TRUE
  Life = 1
  Margin = 2
  Tolerance = 2
  Bestows = {"jwt"}
  Rotates = TRUE
  Flaky = TRUE
  MaxDelay = 1
  MaxClock = 3
  MaxCalls = 2
SPECIFICATION SysFairSpec
INVARIANTS SysTypeOK SentIsAccepted GrantedIsKept UpWithToken
PROPERTIES ConnectSettles RequestsSettle
\* Every service may have made its last request and the clock have stopped.
CHECK_DEADLOCK FALSE
