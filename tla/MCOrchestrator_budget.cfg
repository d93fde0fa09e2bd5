SPECIFICATION FairSpec

CONSTANTS
  t1 = t1
  t2 = t2
  t3 = t3
  a1 = a1
  a2 = a2
  w1 = w1
  w2 = w2
  NoAgent = NoAgent
  Tasks = {t1, t2, t3}
  Deps <- ForkDeps
  Agents = {a1, a2}
  AgentOf <- OneUnassigned
  AgentCap <- CapTwo
  MaxConcurrent = 2
  MaxRetries = 2
  Workstreams = {w1, w2}
  WorkstreamOf <- ThreeStreams
  RowOrder <- PlanOrder
  Strangers = {}
  TokenCosts = {0, 1}
  MaxTokens = 3
  MaxTasks = 1
  WallLimited = TRUE
  Cancellable = TRUE
  MaxFaults = 0
  MaxResumes = 0
  Errors = {"timeout", "refused"}
  MaxFailures = 2
  MaxIdentical = 5

INVARIANTS
  BudgetEnds
  BarrierExact

PROPERTIES
  Returns
