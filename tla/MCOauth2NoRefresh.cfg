CONSTANTS
  c1 = c1
  c2 = c2
  None = None
  Callers = {c1, c2}
  Clients <- UserKeyed
  Stamped = TRUE
  Life = 1
  Margin = 1
  Tolerance = 2
  Bestows = {"jwt", "none"}
  Rotates = FALSE
  Flaky = FALSE
  MaxDelay = 2
  MaxClock = 5
  MaxCalls = 2
SPECIFICATION Spec
INVARIANT GrantedIsServed
\* Every caller may have made its last request and the clock have stopped.
CHECK_DEADLOCK FALSE
