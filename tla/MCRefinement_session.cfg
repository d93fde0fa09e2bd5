CONSTANTS
  Starter = start
  Answers = {a1, a2, a3}
  Continues = {c1}
  Launches = {l1}
  MaxTurns = 3
  Gaps = {g1}
  IdKinds <- MCIdKinds
  Templates <- MCTemplates
  Returned <- MCReturned
  AgentAnswers <- MCAgentAnswers
SPECIFICATION Spec
SYMMETRY AnswerSymmetry
INVARIANT SpecsSound
 
CHECK_DEADLOCK FALSE
