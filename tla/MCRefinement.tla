---------------------------- MODULE MCRefinement ----------------------------
EXTENDS Refinement, TLC

MCIdKinds == {"", "D", "AC", "agent-dev", "agent-general", "coder", "tester", "far", "odd", "remote"}

(* One identifier is like a generated one, and something does not fit; or   *)
(* none is given.                                                           *)
MCReturned ==
  {[deliverables |-> <<Id("D", 2), NoId>>, fits |-> FALSE],
   [deliverables |-> <<NoId, NoId>>, fits |-> TRUE]}

MCTemplates ==
  {[goal |-> TRUE, deliverables |-> <<>>, criteria |-> 2, fits |-> TRUE,
    hints |-> <<Id("coder", 1), Id("tester", 1)>>]}

Coder == Agent(Id("coder", 1), "llm", "absent", FALSE, TRUE)
MCAgentAnswers ==
  {<<Coder, Agent(Id("far", 1), "http", "absent", FALSE, TRUE)>>,
   <<Coder, Coder>>,
   <<Agent(Id("odd", 1), "other", "absent", FALSE, TRUE),
     Agent(Id("remote", 1), "http", "path", FALSE, TRUE)>>}

(* Answers are alike: neither property nor specification tells them apart.  *)
AnswerSymmetry == Permutations(Answers)
=============================================================================
