SPECIFICATION Spec

CONSTANTS
  r1 = r1
  t1 = t1
  t2 = t2
  t3 = t3
  Tasks = {t1, t2}
  Deps <- ChainDeps
  Launch = Launch
  NoRunner = NoRunner
  Requests = {r1}
  Kinds = {"retry"}
  MaxOverlap = 1
  MaxFaults = 1
  MaxCrashes = 1

INVARIANTS
  Attended

CHECK_DEADLOCK FALSE
