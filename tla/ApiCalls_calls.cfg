SPECIFICATION FairSpec
CONSTANTS
  c1 = c1
  c2 = c2
  c3 = c3
  Calls = {c1, c2, c3}
  Limited = {c1, c2}
  MaxConcurrent = 1
  MaxRetries = 1
  Window = 2
  MaxPerWindow = 2
  Costs = {2}
  MaxCost = 3
  Callbacks = 2
  MaxCancels = 1
INVARIANTS
  PermitsKept
  WindowHeld
  BilledWithinLimit
PROPERTIES
  CallsEnd
CHECK_DEADLOCK FALSE
