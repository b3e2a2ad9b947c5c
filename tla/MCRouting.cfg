SPECIFICATION DocSpec
CONSTANTS
  Programs <- MCPrograms
  Requests <- MCRequests
INVARIANTS TypeOK OperationsReached PathParamsBound RoutesMounted
INVARIANTS ServedAsDocumented DocumentedIsServed PlaceholdersDeclared
CHECK_DEADLOCK FALSE
