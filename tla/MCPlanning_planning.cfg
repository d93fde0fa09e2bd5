CONSTANTS
  run = run
  w1 = w1
  ws1 = ws1
  s1 = s1
  Run = run
  Workers = {w1}
  Emitters <- MCEmitters
  Sockets = {ws1}
  Streams = {s1}
  QueueSize = 1
  Drafts <- MCDrafts
  Agents <- MCAgents
  MaxIterations = 2
  WorkerEvents = 1
SPECIFICATION Spec
INVARIANTS PlanSound StoredWhole EventsInOrder
PROPERTIES StreamsEnd
CHECK_DEADLOCK FALSE
