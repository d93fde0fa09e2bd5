SPECIFICATION Spec

CONSTANTS
  t1 = t1
  t2 = t2
  t3 = t3
  a1 = a1
  a2 = a2
  w1 = w1
  w2 = w2
  NoAgent = NoAgent
  Tasks = {t1, t2, t3}
  Deps <- JoinDeps
  Agents = {a1, a2}
  AgentOf <- ThreeAgents
  AgentCap <- CapTwo
  MaxConcurrent = 2
  MaxRetries = 2
  Workstreams = {w1, w2}
  WorkstreamOf <- ThreeStreams
  RowOrder <- PlanOrder
  Strangers = {}
  TokenCosts = {0, 1}
  MaxTokens = 2
  MaxTasks = 0
  WallLimited = FALSE
  Cancellable = TRUE
  MaxFaults = 1
  MaxResumes = 1
  Errors = {"timeout", "refused"}
  MaxFailures = 2
  MaxIdentical = 5

INVARIANTS
  TypeOK
  DependencyOrder
  BarrierDurable
  VerdictTrue

PROPERTIES
  LedgerSpec
