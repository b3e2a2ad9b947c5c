CONSTANTS
  c1 = c1
  c2 = c2
  None = None
  Callers = {c1, c2}
  Clients <- AnyKey
  Stamped = TRUE
  Life = 1
  Margin = 1
  Tolerance = 2
  Bestows = {"jwt", "none", "opaque"}
  Rotates = TRUE
  Flaky = TRUE
  MaxDelay = 4
  MaxClock = 5
  MaxCalls = 2
SPECIFICATION Spec
INVARIANTS TypeOK SentIsAccepted NeverLockedOut
PROPERTY RequestsAdvance
SYMMETRY Symmetry
\* Every caller may have made its last request and the clock have stopped.
CHECK_DEADLOCK FALSE
