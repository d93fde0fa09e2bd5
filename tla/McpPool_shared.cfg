SPECIFICATION FairSpec

CONSTANTS
  Users = {u1, u2, u3}
  Conns = {c1, c2, c3, c4, c5, c6}
  None = None
  MaxIdle = 2
  MaxReconnects = 1
  MaxUses = 1
  MaxDeaths = 2
  MaxFailures = 1
  MaxRaises = 1

INVARIANTS
  Exclusive
  PooledAlive

PROPERTIES
  TasksEnd

CHECK_DEADLOCK FALSE
