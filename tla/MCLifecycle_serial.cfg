SPECIFICATION FairSpec

CONSTANTS
  r1 = r1
  r2 = r2
  t1 = t1
  t2 = t2
  t3 = t3
  Tasks = {t1, t2, t3}
  Deps <- ForkDeps
  Launch = Launch
  NoRunner = NoRunner
  Requests = {r1, r2}
  Kinds = {"cancel", "retry", "delete"}
  MaxOverlap = 1
  MaxFaults = 1
  MaxCrashes = 1

INVARIANTS
  OneRunner
  SettledIsIdle
  CompletedIsDone

PROPERTIES
  PassedKept
  RunnersEnd

CHECK_DEADLOCK FALSE
