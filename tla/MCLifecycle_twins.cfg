SPECIFICATION Spec

CONSTANTS
  r1 = r1
  r2 = r2
  t1 = t1
  t2 = t2
  t3 = t3
  Tasks = {t1, t2}
  Deps <- ChainDeps
  Launch = Launch
  NoRunner = NoRunner
  Requests = {r1, r2}
  Kinds = {"retry"}
  MaxOverlap = 2
  MaxFaults = 1
  MaxCrashes = 0

SYMMETRY AlikeRequests

INVARIANTS
  OneRunner

CHECK_DEADLOCK FALSE
