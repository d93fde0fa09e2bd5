SPECIFICATION BreakerSpec

CONSTANTS
  Callers = {"c1", "c2", "c3"}
  Resettable = TRUE
  FailureBound = 5
  Errors = {"timeout", "refused"}
  MaxFailures = 3
  MaxIdentical = 2

INVARIANTS
  ClosedIsHealthy

PROPERTIES
  HalfOpenEarned
