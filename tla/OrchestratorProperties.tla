----------------------- MODULE OrchestratorProperties -----------------------
(***************************************************************************)
(* What the orchestrator must guarantee.                                   *)
(***************************************************************************)
EXTENDS Orchestrator

(* No task runs, or has passed, before everything it depends on has passed: *)
(* in memory, and in the committed rows a resume would start from.          *)
DependencyOrder ==
  \A t \in Tasks :
    /\ status[t] \in Active \cup {"PASSED"} => DepsPassed(status, t)
    /\ dbStatus[t] \in Active \cup {"PASSED"} => DepsPassed(dbStatus, t)

(* Between batches the rows are exactly what is in memory. *)
BarrierDurable ==
  loop = "top" => /\ dbStatus = status /\ dbAttempt = attempt
                  /\ dbWs = ws /\ dbWf = wf

(* Between batches of an undisturbed run every ended task has been counted  *)
(* once, and every workstream shows what its tasks show.                    *)
BarrierExact ==
  loop = "top" /\ faults = 0 /\ resumes = 0 =>
    /\ wf.completed = Cardinality(With(status, "PASSED"))
    /\ wf.failed = Cardinality({t \in With(status, "FAILED") : AgentOf[t] # NoAgent})
    /\ \A w \in Workstreams : Members(w) # {} =>
         ws[w] = WorkstreamStatusOf(status, Members(w))

(* Once a budget limit has been broken, the batch at hand is the last one:  *)
(* the loop dispatches nothing more and the workflow fails.                 *)
BudgetEnds ==
  TokensExceeded(tokens) \/ TasksExceeded(passes) =>
    /\ loop \in {"gather", "budget_save", "done", "down"}
    /\ loop = "done" => dbWf.status = "FAILED"

(* Of a workflow that was never cancelled, the committed verdict is         *)
(* COMPLETED exactly when every task passed and the budget was kept.        *)
VerdictTrue ==
  loop = "done" /\ With(dbStatus, "SKIPPED") = {} =>
    (dbWf.status = "COMPLETED" <=>
       /\ Tasks # {} /\ \A t \in Tasks : dbStatus[t] = "PASSED"
       /\ ~overBudget)

(* The committed rows follow the ledger, across faults, crashes, resumes.   *)
Ledger == INSTANCE TaskLedger WITH
  row <- dbStatus, tries <- dbAttempt, verdict <- dbWf.status,
  open <- batch, base <- before,
  Unassigned <- {t \in Tasks : AgentOf[t] = NoAgent}
LedgerSpec == Ledger!Spec

(* When nothing raises, run() returns, whatever budget breaks and whenever  *)
(* it is cancelled.                                                         *)
Returns == [](Running => <>(loop = "done"))
=============================================================================
