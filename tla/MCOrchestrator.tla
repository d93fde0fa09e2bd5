--------------------------- MODULE MCOrchestrator ---------------------------
(***************************************************************************)
(* Small task graphs for the orchestrator.                                 *)
(***************************************************************************)
EXTENDS OrchestratorProperties, TLC

CONSTANTS t1, t2, t3, a1, a2, w1, w2

(* t1 and t2 may run together, t3 needs both. *)
JoinDeps == t1 :> {} @@ t2 :> {} @@ t3 :> {t1, t2}
(* t2 needs t1; t3 stands alone. *)
ForkDeps == t1 :> {} @@ t2 :> {t1} @@ t3 :> {}

(* t1 and t2 share agent a1, t3 has a2. *)
ThreeAgents   == t1 :> a1 @@ t2 :> a1 @@ t3 :> a2
(* t3 was left without an agent *)
OneUnassigned == t1 :> a1 @@ t2 :> a1 @@ t3 :> NoAgent

ThreeStreams == t1 :> w1 @@ t2 :> w1 @@ t3 :> w2

(* The order of the plan's dictionaries. *)
PlanOrder == <<w1, w2, t1, t2, t3>>

CapTwo == [a \in Agents |-> 2]
=============================================================================
