------------------------------ MODULE Planning ------------------------------
(***************************************************************************)
(* From a specification to running tasks: LLMPlanner.plan, the judge,       *)
(* Orchestrator._plan_phase and the snapshot PostgresBackend writes, with   *)
(* every event the run and the tasks' coroutines await on the way.          *)
(*                                                                          *)
(* Prompts, scores and usage figures are left out.  Which draft the model   *)
(* sent is chosen when the checker reads it.                                *)
(***************************************************************************)
EXTENDS PlanChecker, EventStream

CONSTANTS
  Run,             \* the orchestrator's own coroutine
  Workers,         \* the tasks' coroutines
  Drafts,          \* what the model may answer
  Agents,          \* of the specification, in its order
  MaxIterations,   \* max_checker_iterations
  WorkerEvents     \* bound: events one worker emits

ASSUME PlanningAssumption ==
  /\ Emitters = Workers \cup {Run} /\ Run \notin Workers
  /\ \A draft \in Drafts :
       /\ draft \in Seq(ToSet(draft))
       /\ \A task \in ToSet(draft) : task = Task(task.id, task.text, task.deps, task.agent)
  /\ Len(Agents) > 0 /\ MaxIterations \in Nat \ {0} /\ WorkerEvents \in Nat

VARIABLES
  at,          \* where the run is; "raised" when an exception left it
  iteration,
  plan,        \* the state the planner built, as long as it may be the plan
  inserted,    \* the tasks of the transaction under way
  rows         \* the tasks the database holds, with their dependencies

planVars == <<at, iteration, plan, inserted, rows>>
vars == <<planVars, eventVars>>

Init ==
  /\ EventInit
  /\ at = "start" /\ iteration = 0
  /\ plan = <<>> /\ inserted = <<>> /\ rows = <<>>

(* The run goes from one place to another once its last event is out, and   *)
(* raises what its event raises.                                            *)
Go(from, to) == at = from /\ Free(Run) /\ at' = to
GoEmitting(from, type, to) == at = from /\ Emit(Run, type) /\ at' = to

-----------------------------------------------------------------------------
(* LLMPlanner.plan *)

Start == GoEmitting("start", "note", "generate") /\ UNCHANGED <<iteration, plan, inserted, rows>>

Generate ==
  /\ iteration < MaxIterations
  /\ GoEmitting("generate", "note", "answer")
  /\ iteration' = iteration + 1
  /\ UNCHANGED <<plan, inserted, rows>>

(* The provider raises, or its answer is not the JSON of a plan.            *)
NoAnswer == Go("answer", "raised") /\ UNCHANGED <<iteration, plan, inserted, rows, eventVars>>

Answer == GoEmitting("answer", "note", "check") /\ UNCHANGED <<iteration, plan, inserted, rows>>

Built == {BuildState(draft, Agents) : draft \in Drafts}
Passing == {p \in Built : Valid(p, Agents)}

CheckFailed ==
  /\ Passing # Built
  /\ GoEmitting("check", "note", "generate")
  /\ UNCHANGED <<iteration, plan, inserted, rows>>

CheckPassed ==
  /\ plan' \in Passing
  /\ GoEmitting("check", "note", "judge")
  /\ UNCHANGED <<iteration, inserted, rows>>

(* PlanJudge.judge: the provider raises, or its JSON is not an object.      *)
NoVerdict == Go("judge", "raised") /\ UNCHANGED <<iteration, plan, inserted, rows, eventVars>>

(* An answer that is not JSON approves the plan.                            *)
Approved == Go("judge", "saving") /\ UNCHANGED <<iteration, plan, inserted, rows, eventVars>>

Rejected ==
  /\ GoEmitting("judge", "note", "generate")
  /\ plan' = <<>>
  /\ UNCHANGED <<iteration, inserted, rows>>

(* PlanningFailed, which the orchestrator turns into a failed workflow.     *)
Exhausted ==
  /\ iteration = MaxIterations
  /\ GoEmitting("generate", "completed", "unplanned")
  /\ UNCHANGED <<iteration, plan, inserted, rows>>

Plan ==
  \/ Start \/ Generate \/ NoAnswer \/ Answer \/ CheckFailed \/ CheckPassed
  \/ NoVerdict \/ Approved \/ Rejected \/ Exhausted

-----------------------------------------------------------------------------
(* PostgresBackend.save_state: one transaction, a task and then its rows of *)
(* task_dependencies, which refer to tasks.                                 *)

NextTask == plan[Len(inserted) + 1]

(* A slip: no transaction. *)
InsertTaskOutside ==
  /\ at = "saving" /\ Len(inserted) < Len(plan)
  /\ NextTask.deps \subseteq TaskIds(Append(inserted, NextTask))
  /\ inserted' = Append(inserted, NextTask)
  /\ rows' = Append(rows, NextTask)
  /\ UNCHANGED <<at, iteration, plan, eventVars>>

InsertTask ==
  /\ at = "saving" /\ Len(inserted) < Len(plan)
  /\ NextTask.deps \subseteq TaskIds(Append(inserted, NextTask))
  /\ inserted' = Append(inserted, NextTask)
  /\ UNCHANGED <<at, iteration, plan, rows, eventVars>>

(* A dependency that is listed later violates its foreign key; the          *)
(* connection may fail at any moment.  Both roll the transaction back.      *)
Rollback ==
  /\ at = "saving"
  /\ at' = "raised" /\ inserted' = <<>>
  /\ UNCHANGED <<iteration, plan, rows, eventVars>>

Commit ==
  /\ at = "saving" /\ Len(inserted) = Len(plan)
  /\ at' = "saved" /\ rows' = inserted
  /\ UNCHANGED <<iteration, plan, inserted, eventVars>>

SaveState == InsertTask \/ Rollback \/ Commit

-----------------------------------------------------------------------------
(* The rest of _plan_phase, and the tasks' coroutines *)

(* _emit_planner_usage: nothing without usage, and what it raises is        *)
(* swallowed.                                                               *)
EmitUsage ==
  /\ \/ GoEmitting("saved", "usage", "counted")
     \/ Go("saved", "counted") /\ UNCHANGED eventVars
  /\ UNCHANGED <<iteration, plan, inserted, rows>>

Announce == GoEmitting("counted", "planned", "announced") /\ UNCHANGED <<iteration, plan, inserted, rows>>

(* The row of workflow.planned could not be written.                        *)
AnnounceRaises ==
  /\ at = "announced" /\ stage[Run] = "raised"
  /\ at' = "raised"
  /\ UNCHANGED <<iteration, plan, inserted, rows, eventVars>>

Execute == Go("announced", "executing") /\ UNCHANGED <<iteration, plan, inserted, rows, eventVars>>

(* A task's coroutine reports its progress or its usage; it survives a      *)
(* usage that could not be stored, as the run does.                         *)
Work(w) ==
  /\ at = "executing" /\ emitted[w] < WorkerEvents
  /\ Emit(w, "note") \/ Emit(w, "usage")
  /\ UNCHANGED planVars

Swallow ==
  /\ \/ \E w \in Workers : Recover(w)
     \/ at = "counted" /\ Recover(Run)
  /\ UNCHANGED planVars

Finish ==
  /\ \A w \in Workers : Free(w)
  /\ GoEmitting("executing", "completed", "finished")
  /\ UNCHANGED <<iteration, plan, inserted, rows>>

RunStep ==
  \/ Plan \/ SaveState
  \/ EmitUsage \/ Announce \/ AnnounceRaises \/ Execute \/ Finish
  \/ \E w \in Workers : Work(w)
  \/ Swallow

Next ==
  \/ RunStep
  \/ EventStep /\ UNCHANGED planVars

Spec == Init /\ [][Next]_vars /\ WF_vars(RunStep) /\ EventFairness

-----------------------------------------------------------------------------
(* What reaches the judge, the database and the agents can be executed to   *)
(* its end: every dependency is a task of the plan, no set of tasks waits   *)
(* for itself and every task has an agent of the specification, whatever    *)
(* the draft repeated, dropped or left out; and the checker is not stricter *)
(* than that: the path it reports is a cycle (checker.py:49-104, 169-211,   *)
(* llm_planner.py:365-441).                                                 *)
Sound(p) ==
  /\ Cardinality(TaskIds(p)) = Len(p)
  /\ \A i \in DOMAIN p : p[i].deps \subseteq TaskIds(p) /\ p[i].agent \in ToSet(Agents)
  /\ Acyclic(p)
PlanSound ==
  /\ plan # <<>> => Sound(plan)
  /\ at = "check" /\ stage[Run] = "handling" =>
       \A p \in Built :
         IF Acyclic(p) THEN DetectCycle(p) = <<>> ELSE IsCycle(p, DetectCycle(p))

(* Another connection, and whoever restarts after a failure, sees no task   *)
(* of the plan or all of them, each with its dependencies; and no event     *)
(* tells of a plan, and no task runs, before all of it is stored            *)
(* (postgres.py:40-58, orchestrator.py:290-299).                            *)
StoredWhole ==
  /\ rows # <<>> => rows = plan
  /\ \A i \in DOMAIN rows : rows[i].deps \subseteq TaskIds(rows)
  /\ (\E i \in DOMAIN sent : sent[i].type = "planned" \/ sent[i].by \in Workers) =>
       rows = plan /\ rows # <<>>

=============================================================================
