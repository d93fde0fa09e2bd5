----------------------------- MODULE MCPlanning -----------------------------
EXTENDS Planning

CONSTANTS run, w1, ws1, s1

MCEmitters == {run, w1}
MCAgents == <<"coder", "writer">>

(* Every graph of dependencies on three tasks; to keep the run small, most  *)
(* have no agents and fail the check for that, too.                         *)
Ids3 == <<"a", "b", "c">>
GraphDraft(g, agent) == [i \in 1 .. 3 |-> Task(Ids3[i], Ids3[i], g[i], agent)]
NoLoops == {g \in [1 .. 3 -> SUBSET {"a", "b", "c"}] : \A i \in 1 .. 3 : Ids3[i] \notin g[i]}
Agented == {<<{"b"}, {}, {}>>, <<{"c"}, {"a"}, {"b"}>>}

(* What else may be wrong or unusual: nothing, a loop, a dependency or an   *)
(* agent unknown, the same task twice, two tasks of one name.               *)
OddDrafts ==
  {<<>>,
   <<Task("a", "a", {"a"}, "coder")>>,
   <<Task("a", "a", {"z"}, "coder")>>,
   <<Task("a", "x", {}, "coder"), Task("b", "x", {}, "coder"), Task("c", "y", {"b"}, "coder")>>,
   <<Task("a", "x", {"b"}, "coder"), Task("b", "y", {}, "writer"), Task("a", "z", {}, "painter")>>}

MCDrafts ==
  {GraphDraft(g, NoAgent) : g \in NoLoops} \cup {GraphDraft(g, "coder") : g \in Agented}
    \cup OddDrafts
=============================================================================
