------------------------------ MODULE TaskGraph ------------------------------
(***************************************************************************)
(* The queries of rooben.domain.WorkflowState: what the orchestrator asks  *)
(* of the task graph.  A graph is a set of tasks with their dependency     *)
(* edges; every query is a function of the tasks' statuses.                *)
(***************************************************************************)
EXTENDS Naturals, FiniteSets

CONSTANTS
  Tasks,        \* the tasks of one workflow
  Deps          \* Deps[t]: the tasks t depends on

ASSUME DepsAssumption == Deps \in [Tasks -> SUBSET Tasks]

(* The checker refuses a cyclic plan, so an order of the tasks exists in    *)
(* which every dependency comes first.                                      *)
ASSUME DagAssumption ==
  \A S \in SUBSET Tasks : S # {} => \E t \in S : Deps[t] \cap S = {}

(* TaskStatus.  BLOCKED and READY are declared by the code and assigned     *)
(* nowhere; CANCELLED is written by the dashboard only.                     *)
Terminal   == {"PASSED", "FAILED", "SKIPPED", "CANCELLED"}
Active     == {"IN_PROGRESS", "VERIFYING"}
TaskStatus == {"PENDING"} \cup Active \cup Terminal

WorkstreamStatus == {"PENDING", "IN_PROGRESS", "COMPLETED", "FAILED", "CANCELLED"}

With(st, s) == {t \in Tasks : st[t] = s}

DepsPassed(st, t) == \A d \in Deps[t] : st[d] = "PASSED"

(* A slip the runs must notice: readiness that forgets the dependencies.    *)
ReadyTasksAnyOrder(st) == With(st, "PENDING")

(* get_ready_tasks *)
ReadyTasks(st) == {t \in With(st, "PENDING") : DepsPassed(st, t)}

(* is_workflow_complete: a workflow without tasks is never complete *)
IsComplete(st) == Tasks # {} /\ \A t \in Tasks : st[t] \in Terminal

(* is_workflow_failed *)
IsFailed(st) == With(st, "FAILED") # {}

(* _is_blocked.  The code's memoised recursion over an acyclic graph is the *)
(* least set that holds every FAILED task and every task that is neither    *)
(* FAILED nor PASSED with a dependency in the set.                          *)
ClosedUnderBlocking(st, B) ==
  \A t \in Tasks :
    st[t] = "FAILED" \/ (st[t] # "PASSED" /\ Deps[t] \cap B # {}) => t \in B

Blocked(st) ==
  {t \in Tasks : \A B \in SUBSET Tasks : ClosedUnderBlocking(st, B) => t \in B}

(* A slip: only a complete workflow counts as stalled. *)
IsStalledWhenComplete(st) == With(st, "PENDING") = {} /\ IsComplete(st)

(* is_workflow_stalled *)
IsStalled(st) ==
  LET pending == With(st, "PENDING")
  IN  IF pending = {} THEN IsComplete(st)
                      ELSE pending \subseteq Blocked(st)

(* _derive_workstream_status, for a workstream with the given members *)
WorkstreamStatusOf(st, members) ==
  LET statuses == {st[t] : t \in members}
      ended    == IF "FAILED" \in statuses THEN "FAILED"
                  ELSE IF "CANCELLED" \in statuses /\ "PASSED" \notin statuses
                       THEN "CANCELLED" ELSE "COMPLETED"
      running  == IF statuses \cap Active # {} THEN "IN_PROGRESS" ELSE "PENDING"
  IN  IF statuses \subseteq Terminal THEN ended ELSE running
=============================================================================
