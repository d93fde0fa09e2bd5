------------------------------ MODULE Lifecycle ------------------------------
(***************************************************************************)
(* One workflow of the dashboard server, from its launch on: the           *)
(* background tasks that run it (workflow_launcher), the registry of       *)
(* running workflows, the cancel / retry / delete requests                 *)
(* (routes/lifecycle) and the recovery at start-up (app.lifespan).         *)
(*                                                                         *)
(* All of them meet in the rows of PostgreSQL and in the registry, with an *)
(* await between almost any two statements: a step here is the code        *)
(* between two awaits together with the statement it waits for.  What the  *)
(* orchestrator does inside a background task is Orchestrator's subject.   *)
(* Here a coroutine of a batch starts its task and ends it, VERIFYING is   *)
(* part of IN_PROGRESS, the statements of an end are one step, and so is a *)
(* save_state, which may still write what other coroutines' tasks were.    *)
(***************************************************************************)
EXTENDS TaskGraph

CONSTANTS
  Requests,      \* bound: the requests ever made
  Kinds,         \* the kinds of request that are made
  MaxOverlap,    \* bound: requests in flight at a time
  Launch,        \* the background task of launch_workflow
  NoRunner,      \* no entry in the registry
  MaxFaults,     \* bound: attempts that are retried, limits that break, exceptions
  MaxCrashes     \* bound: crashes of the server process

ASSUME LifecycleAssumption ==
  /\ Launch \notin Requests /\ NoRunner \notin Requests \cup {Launch}
  /\ Kinds \subseteq {"cancel", "retry", "delete"}
  /\ {MaxOverlap, MaxFaults, MaxCrashes} \subseteq Nat

(* A retry starts a background task of its own, named after the request.   *)
Runners == Requests \cup {Launch}

VARIABLES
  server,     \* "up", "down", or where the start-up recovery is
  fresh,      \* this start-up has just failed the workflow
  row,        \* status of the workflows row, "absent" without one
  spec,       \* the row holds spec_yaml
  taskRow,    \* taskRow[t]: status of t's row, "absent" without one
  registry,   \* the background task registered for the workflow
  run,        \* run[r]: where background task r is
  mem,        \* mem[r][t]: Task.status in r's orchestrator
  batch,      \* batch[r]: the tasks r's orchestrator gathers
  left,       \* left[r]: those of them whose coroutine has not ended
  over,       \* over[r]: a coroutine of the batch ended with BudgetExceeded
  signalled,  \* signalled[r]: _cancel_event of r's orchestrator
  req,        \* req[h]: where the handler of request h is, or its answer
  noted,      \* noted[h]: the handler's local variable: running, reset_ids
  faults, crashes   \* used up of MaxFaults and MaxCrashes

rows    == <<row, spec, taskRow>>
work    == <<batch, left, over>>
runners == <<run, mem, work, signalled>>
bounds  == <<faults, crashes>>
vars    == <<server, fresh, rows, registry, runners, req, noted, bounds>>

Absent == "absent"
Settled == {"completed", "failed", "cancelled"}
RowStatus == {"planning", "in_progress", Absent} \cup Settled

(* Awaits of the two _run functions.  "looping" is _execute_workflow.      *)
Places == {"none", "generating", "seeding", "planning", "loading", "saving",
           "looping", "finalizing", "failing", "closing", "ended", "dead"}
Live(r) == run[r] \notin {"none", "ended", "dead"}

InFlight == {"cancel", "cancel_update", "retry", "retry_check", "retry_reset",
             "retry_count", "retry_mark", "retry_resume",
             "delete", "delete_tasks", "delete_workstreams", "delete_workflow"}
Answers == {"idle", "ok", "refused", "error", "lost"}
Busy == {h \in Requests : req[h] \in InFlight}

Memory == [Tasks -> TaskStatus \cup {Absent}]

TypeOK ==
  /\ server \in {"up", "down", "fail_workflows", "cancel_tasks"}
  /\ fresh \in BOOLEAN /\ spec \in BOOLEAN
  /\ row \in RowStatus /\ taskRow \in Memory
  /\ registry \in Runners \cup {NoRunner}
  /\ run \in [Runners -> Places]
  /\ mem \in [Runners -> Memory]
  /\ batch \in [Runners -> SUBSET Tasks]
  /\ left \in [Runners -> SUBSET Tasks]
  /\ over \in [Runners -> BOOLEAN]
  /\ signalled \in [Runners -> BOOLEAN]
  /\ req \in [Requests -> InFlight \cup Answers]
  /\ noted \in [Requests -> BOOLEAN]
  /\ faults \in 0 .. MaxFaults /\ crashes \in 0 .. MaxCrashes

NoTasks == [t \in Tasks |-> Absent]

(* launch_workflow has inserted the row and registered its task.           *)
Init ==
  /\ server = "up" /\ fresh = FALSE
  /\ row = "planning" /\ spec = FALSE /\ taskRow = NoTasks
  /\ registry = Launch
  /\ run = [r \in Runners |-> IF r = Launch THEN "generating" ELSE "none"]
  /\ mem = [r \in Runners |-> NoTasks]
  /\ batch = [r \in Runners |-> {}] /\ left = [r \in Runners |-> {}]
  /\ over = [r \in Runners |-> FALSE]
  /\ signalled = [r \in Runners |-> FALSE]
  /\ req = [h \in Requests |-> "idle"] /\ noted = [h \in Requests |-> FALSE]
  /\ faults = 0 /\ crashes = 0

-----------------------------------------------------------------------------
(* PostgresStateBackend.                                                   *)

(* UPDATE workflows SET status = s WHERE id = ...: nothing without the row *)
RowAfter(s) == IF row = Absent THEN Absent ELSE s

(* save_state: upserts the row and every task the orchestrator holds; a row *)
(* it inserts has no spec_yaml.                                            *)
Upsert(s, m) ==
  /\ row' = s
  /\ taskRow' = [t \in Tasks |-> IF m[t] = Absent THEN taskRow[t] ELSE m[t]]
  /\ UNCHANGED spec

(* update_task, while the workflow's row becomes w.                        *)
UpdateTask(t, s, w) ==
  /\ taskRow' = [taskRow EXCEPT ![t] = IF @ = Absent THEN Absent ELSE s]
  /\ row' = w
  /\ UNCHANGED spec

(* What task u may have been when a statement of this batch was sent.      *)
BatchStatus == {"PENDING", "IN_PROGRESS", "PASSED", "FAILED"}
Had(r, u) ==
  {"PENDING", mem[r][u]}
    \cup (IF u \in left[r] /\ mem[r][u] = "PENDING" THEN {} ELSE {"IN_PROGRESS"})

(* The save_state of t's coroutine, when the workstream's status changed:  *)
(* a row is what its task was when the row was sent, and may commit later  *)
(* than what the task's own coroutine has written since.                   *)
UpsertBeside(r, t, s) ==
  \E sent \in [batch[r] -> BatchStatus] :
    /\ sent[t] = s
    /\ \A u \in batch[r] \ {t} : sent[u] \in Had(r, u)
    /\ Upsert("in_progress", [u \in Tasks |-> IF u \in batch[r] THEN sent[u] ELSE mem[r][u]])

GotoRun(r, place) == run' = [run EXCEPT ![r] = place]
SetMem(r, m) == mem' = [mem EXCEPT ![r] = m]

-----------------------------------------------------------------------------
(* launch_workflow._run                                                    *)

Generate ==
  /\ run[Launch] = "generating"
  /\ GotoRun(Launch, "seeding")
  /\ UNCHANGED <<server, fresh, rows, registry, mem, work, signalled, req, noted, bounds>>

(* _seed_agents_and_spec: without the row, the foreign key of the agents'   *)
(* rows raises.                                                            *)
Seed ==
  /\ run[Launch] = "seeding"
  /\ spec' = (row # Absent)
  /\ GotoRun(Launch, IF row = Absent THEN "failing" ELSE "planning")
  /\ UNCHANGED <<server, fresh, row, taskRow, registry, mem, work, signalled,
                 req, noted, bounds>>

Plan ==
  /\ run[Launch] = "planning"
  /\ SetMem(Launch, [t \in Tasks |-> "PENDING"])
  /\ GotoRun(Launch, "saving")
  /\ UNCHANGED <<server, fresh, rows, registry, work, signalled, req, noted, bounds>>

(* run() returns the failed state without saving it.                       *)
PlanFails ==
  /\ run[Launch] = "planning"
  /\ GotoRun(Launch, "closing")
  /\ UNCHANGED <<server, fresh, rows, registry, mem, work, signalled, req, noted, bounds>>

(* resume_workflow._run: Orchestrator.resume loads the rows.               *)
Load(r) ==
  /\ run[r] = "loading"
  /\ IF row = Absent
     THEN GotoRun(r, "failing") /\ UNCHANGED mem
     ELSE GotoRun(r, "saving") /\ SetMem(r, taskRow)
  /\ UNCHANGED <<server, fresh, rows, registry, work, signalled, req, noted, bounds>>

-----------------------------------------------------------------------------
(* The orchestrator inside a background task.                              *)

SavePlan(r) ==
  /\ run[r] = "saving"
  /\ Upsert("in_progress", mem[r])
  /\ GotoRun(r, "looping")
  /\ UNCHANGED <<server, fresh, registry, mem, work, signalled, req, noted, bounds>>

AtTop(r) == run[r] = "looping" /\ batch[r] = {}

Fault == faults < MaxFaults /\ faults' = faults + 1

Dispatch(r) ==
  /\ AtTop(r) /\ ~signalled[r]
  /\ ReadyTasks(mem[r]) # {}
  /\ batch' = [batch EXCEPT ![r] = ReadyTasks(mem[r])]
  /\ left' = [left EXCEPT ![r] = ReadyTasks(mem[r])]
  /\ over' = [over EXCEPT ![r] = FALSE]
  /\ UNCHANGED <<server, fresh, rows, registry, run, mem, signalled, req, noted, bounds>>

Runs(r, t) == run[r] = "looping" /\ t \in left[r]
CoroutineEnds(r, t) == left' = [left EXCEPT ![r] = @ \ {t}]

(* The task becomes s, in memory and in its row; the workflow's row w.     *)
Becomes(r, t, s, w) ==
  /\ SetMem(r, [mem[r] EXCEPT ![t] = s])
  /\ UpdateTask(t, s, w) \/ UpsertBeside(r, t, s)

StartTask(r, t) ==
  /\ Runs(r, t) /\ mem[r][t] = "PENDING"
  /\ Becomes(r, t, "IN_PROGRESS", row)
  /\ UNCHANGED <<server, fresh, registry, run, work, signalled, req, noted, bounds>>

(* A task without an agent fails before it starts. *)
RejectTask(r, t) ==
  /\ Runs(r, t) /\ mem[r][t] = "PENDING"
  /\ Becomes(r, t, "FAILED", row)
  /\ CoroutineEnds(r, t)
  /\ UNCHANGED <<server, fresh, registry, run, batch, over, signalled, req, noted, bounds>>

(* update_workflow follows update_task. *)
EndTask(r, t) ==
  /\ Runs(r, t) /\ mem[r][t] = "IN_PROGRESS"
  /\ \E s \in {"PASSED", "FAILED"} : Becomes(r, t, s, RowAfter("in_progress"))
  /\ CoroutineEnds(r, t)
  /\ UNCHANGED <<server, fresh, registry, run, batch, over, signalled, req, noted, bounds>>

(* The attempt failed and another one is left. *)
RetryTask(r, t) ==
  /\ Fault
  /\ Runs(r, t) /\ mem[r][t] = "IN_PROGRESS"
  /\ Becomes(r, t, "PENDING", row)
  /\ CoroutineEnds(r, t)
  /\ UNCHANGED <<server, fresh, registry, run, batch, over, signalled, req, noted, crashes>>

(* An exception ends the coroutine, and gather keeps it among the results. *)
(* It comes before a statement, leaving the task as it was or changed in   *)
(* memory only, or after it.  The two calls that raise BudgetExceeded are  *)
(* record_tokens of a task in progress, and record_task_completion.        *)
TaskRaises(r, t) ==
  /\ Fault
  /\ Runs(r, t)
  /\ \E s \in IF mem[r][t] = "PENDING" THEN {"PENDING", "IN_PROGRESS", "FAILED"} ELSE BatchStatus :
       \/ SetMem(r, [mem[r] EXCEPT ![t] = s]) /\ UNCHANGED rows
       \/ \E w \in {row, RowAfter("in_progress")} : Becomes(r, t, s, w)
  /\ CoroutineEnds(r, t)
  /\ UNCHANGED <<server, fresh, registry, run, batch, over, signalled, req, noted, crashes>>

BreaksLimit(r, t) ==
  /\ Fault
  /\ Runs(r, t) /\ mem[r][t] = "IN_PROGRESS"
  /\ \/ UNCHANGED <<mem, rows>>
     \/ Becomes(r, t, "PASSED", RowAfter("in_progress"))
  /\ CoroutineEnds(r, t)
  /\ over' = [over EXCEPT ![r] = TRUE]
  /\ UNCHANGED <<server, fresh, registry, run, batch, signalled, req, noted, crashes>>

(* gather returns when the last coroutine has ended.                       *)
Gathered(r) == run[r] = "looping" /\ batch[r] # {} /\ left[r] = {}
LeaveBatch(r) == batch' = [batch EXCEPT ![r] = {}]

SaveBatch(r) ==
  /\ Gathered(r) /\ ~over[r]
  /\ Upsert("in_progress", mem[r])
  /\ LeaveBatch(r)
  /\ UNCHANGED <<server, fresh, registry, run, mem, left, over, signalled, req, noted, bounds>>

(* BudgetExceeded, of the batch or of the wall clock: the orchestrator      *)
(* saves the failure and raises it again.                                  *)
FailOverBudget(r) ==
  /\ Upsert("failed", mem[r])
  /\ GotoRun(r, "failing")
  /\ LeaveBatch(r)
  /\ UNCHANGED <<server, fresh, registry, mem, left, over, signalled, req, noted, crashes>>

BudgetEnds(r) == Gathered(r) /\ over[r] /\ FailOverBudget(r) /\ UNCHANGED faults
WallTimeEnds(r) == Fault /\ AtTop(r) /\ ~IsComplete(mem[r]) /\ FailOverBudget(r)

Ends(r, s) == [t \in Tasks |-> IF mem[r][t] \in Terminal \cup {Absent} THEN mem[r][t] ELSE s]

ObeyCancel(r) ==
  /\ AtTop(r) /\ signalled[r] /\ ~IsComplete(mem[r])
  /\ SetMem(r, Ends(r, "SKIPPED"))
  /\ Upsert("cancelled", Ends(r, "SKIPPED"))
  /\ GotoRun(r, "finalizing")
  /\ UNCHANGED <<server, fresh, registry, work, signalled, req, noted, bounds>>

LoopIsOverWhenComplete(r) == IsComplete(mem[r])   \* a slip
LoopIsOver(r) ==
  \/ IsComplete(mem[r])
  \/ ~signalled[r] /\ ReadyTasks(mem[r]) = {} /\ IsStalled(mem[r])

LeaveLoop(r) ==
  /\ AtTop(r) /\ LoopIsOver(r)
  /\ GotoRun(r, "finalizing")
  /\ UNCHANGED <<server, fresh, rows, registry, mem, work, signalled, req, noted, bounds>>

FinalStatusLenient(r) ==   \* a slip: failed tasks do not matter
  IF IsComplete(mem[r]) THEN "completed" ELSE "failed"
FinalStatus(r) ==
  IF IsComplete(mem[r]) /\ ~IsFailed(mem[r]) THEN "completed" ELSE "failed"

Finalize(r) ==
  /\ run[r] = "finalizing"
  /\ Upsert(FinalStatus(r), mem[r])
  /\ GotoRun(r, "closing")
  /\ UNCHANGED <<server, fresh, registry, mem, work, signalled, req, noted, bounds>>

(* The circuit breaker fails the remaining tasks in memory.                *)
CircuitOpens(r) ==
  /\ Fault
  /\ AtTop(r) /\ ~signalled[r] /\ ~IsComplete(mem[r])
  /\ Upsert("in_progress", mem[r])
  /\ SetMem(r, Ends(r, "FAILED"))
  /\ GotoRun(r, "finalizing")
  /\ UNCHANGED <<server, fresh, registry, work, signalled, req, noted, crashes>>

(* Any other exception that leaves run() or resume(): one of the main      *)
(* loop, which is waiting for nothing but gather while coroutines run.     *)
Raise(r) ==
  /\ Fault
  /\ Live(r) /\ run[r] \notin {"failing", "closing"} /\ left[r] = {}
  /\ GotoRun(r, "failing")
  /\ LeaveBatch(r)
  /\ UNCHANGED <<server, fresh, rows, registry, mem, left, over, signalled, req, noted, crashes>>

(* the except clause of _run *)
MarkFailed(r) ==
  /\ run[r] = "failing"
  /\ row' = IF row \in {Absent, "completed"} THEN row ELSE "failed"
  /\ GotoRun(r, "closing")
  /\ UNCHANGED <<server, fresh, spec, taskRow, registry, mem, work, signalled,
                 req, noted, bounds>>

(* The UPDATE raises, which the clause ignores. *)
MarkFailedRaises(r) ==
  /\ Fault
  /\ run[r] = "failing"
  /\ GotoRun(r, "closing")
  /\ UNCHANGED <<server, fresh, rows, registry, mem, work, signalled, req, noted, crashes>>

(* its finally clause: unregister pops whatever entry the workflow has     *)
Close(r) ==
  /\ run[r] = "closing"
  /\ registry' = NoRunner
  /\ GotoRun(r, "ended")
  /\ SetMem(r, NoTasks)
  /\ UNCHANGED <<server, fresh, rows, work, signalled, req, noted, bounds>>

-----------------------------------------------------------------------------
(* Requests.                                                               *)

GotoReq(h, place) == req' = [req EXCEPT ![h] = place]

Arrive(h) ==
  /\ server = "up" /\ req[h] = "idle"
  /\ Cardinality(Busy) < MaxOverlap
  /\ \E k \in Kinds : GotoReq(h, k)
  /\ UNCHANGED <<server, fresh, rows, registry, runners, noted, bounds>>

(* cancel_workflow: launch_workflow registers None as its orchestrator, and *)
(* the handler signals an orchestrator only.                               *)
CancelSignal(h) ==
  /\ req[h] = "cancel"
  /\ noted' = [noted EXCEPT ![h] = (registry # NoRunner)]
  /\ signalled' = [r \in Runners |-> signalled[r] \/ (r = registry /\ r # Launch)]
  /\ GotoReq(h, "cancel_update")
  /\ UNCHANGED <<server, fresh, rows, registry, run, mem, work, bounds>>

CancelUpdate(h) ==
  /\ req[h] = "cancel_update"
  /\ row' = IF row \in Settled \cup {Absent} THEN row ELSE "cancelled"
  /\ GotoReq(h, IF ~noted[h] /\ row' = row THEN "refused" ELSE "ok")
  /\ UNCHANGED <<server, fresh, spec, taskRow, registry, runners, noted, bounds>>

(* retry_workflow *)
RetryRead(h) ==
  /\ req[h] = "retry"
  /\ GotoReq(h, IF row \in Settled THEN "retry_check" ELSE "refused")
  /\ UNCHANGED <<server, fresh, rows, registry, runners, noted, bounds>>

(* A slip: the registry is not asked. *)
RetryCheckForgotten(h) ==
  /\ req[h] = "retry_check"
  /\ GotoReq(h, "retry_reset")
  /\ UNCHANGED <<server, fresh, rows, registry, runners, noted, bounds>>

RetryCheck(h) ==
  /\ req[h] = "retry_check"
  /\ GotoReq(h, IF registry = NoRunner THEN "retry_reset" ELSE "refused")
  /\ UNCHANGED <<server, fresh, rows, registry, runners, noted, bounds>>

ResetEverything(t) == taskRow[t] \in Terminal   \* a slip
Resets(t) == taskRow[t] \in {"FAILED", "CANCELLED"}

RetryReset(h) ==
  /\ req[h] = "retry_reset"
  /\ taskRow' = [t \in Tasks |-> IF Resets(t) THEN "PENDING" ELSE taskRow[t]]
  /\ noted' = [noted EXCEPT ![h] = \E t \in Tasks : Resets(t)]
  /\ GotoReq(h, "retry_count")
  /\ UNCHANGED <<server, fresh, row, spec, registry, runners, bounds>>

RetryCount(h) ==
  /\ req[h] = "retry_count"
  /\ GotoReq(h, IF noted[h] \/ With(taskRow, "PENDING") # {}
                THEN "retry_mark" ELSE "refused")
  /\ UNCHANGED <<server, fresh, rows, registry, runners, noted, bounds>>

(* A slip: the workflow is resumed as it is. *)
RetryMarkForgotten(h) ==
  /\ req[h] = "retry_mark"
  /\ GotoReq(h, "retry_resume")
  /\ UNCHANGED <<server, fresh, rows, registry, runners, noted, bounds>>

RetryMark(h) ==
  /\ req[h] = "retry_mark"
  /\ row' = RowAfter("in_progress")
  /\ GotoReq(h, "retry_resume")
  /\ UNCHANGED <<server, fresh, spec, taskRow, registry, runners, noted, bounds>>

(* resume_workflow reads the spec, then builds, starts and registers.      *)
RetryResume(h) ==
  /\ req[h] = "retry_resume"
  /\ IF row = Absent \/ ~spec
     THEN GotoReq(h, "error") /\ UNCHANGED <<run, registry>>
     ELSE GotoReq(h, "ok") /\ GotoRun(h, "loading") /\ registry' = h
  /\ UNCHANGED <<server, fresh, rows, mem, work, signalled, noted, bounds>>

RetryRaises(h) ==
  /\ req[h] = "retry_resume"
  /\ GotoReq(h, "error")
  /\ UNCHANGED <<server, fresh, rows, registry, runners, noted, bounds>>

(* delete_workflow: the row's status decides, the registry is not asked    *)
DeleteRead(h) ==
  /\ req[h] = "delete"
  /\ GotoReq(h, IF row \in Settled THEN "delete_tasks" ELSE "refused")
  /\ UNCHANGED <<server, fresh, rows, registry, runners, noted, bounds>>

DeleteTasks(h) ==
  /\ req[h] = "delete_tasks"
  /\ taskRow' = NoTasks
  /\ GotoReq(h, "delete_workstreams")
  /\ UNCHANGED <<server, fresh, row, spec, registry, runners, noted, bounds>>

(* tasks.workstream_id is a foreign key without a cascade.                 *)
DeleteWorkstreams(h) ==
  /\ req[h] = "delete_workstreams"
  /\ GotoReq(h, IF taskRow = NoTasks THEN "delete_workflow" ELSE "error")
  /\ UNCHANGED <<server, fresh, rows, registry, runners, noted, bounds>>

(* So is schedule_executions.workflow_id, of a workflow that a schedule     *)
(* launched and that still exists; tasks.workflow_id cascades.             *)
DeleteWorkflow(h) ==
  /\ req[h] = "delete_workflow"
  /\ \/ row # Absent /\ GotoReq(h, "error") /\ UNCHANGED rows
     \/ GotoReq(h, "ok") /\ row' = Absent /\ spec' = FALSE /\ taskRow' = NoTasks
  /\ UNCHANGED <<server, fresh, registry, runners, noted, bounds>>

-----------------------------------------------------------------------------
(* The server process and app.lifespan.                                    *)

Crash ==
  /\ server # "down" /\ crashes < MaxCrashes
  /\ crashes' = crashes + 1
  /\ server' = "down" /\ fresh' = FALSE /\ registry' = NoRunner
  /\ run' = [r \in Runners |-> IF Live(r) THEN "dead" ELSE run[r]]
  /\ mem' = [r \in Runners |-> NoTasks]
  /\ batch' = [r \in Runners |-> {}] /\ left' = [r \in Runners |-> {}]
  /\ over' = [r \in Runners |-> FALSE]
  /\ signalled' = [r \in Runners |-> FALSE]
  /\ req' = [h \in Requests |-> IF h \in Busy THEN "lost" ELSE req[h]]
  /\ noted' = [h \in Requests |-> FALSE]
  /\ UNCHANGED <<rows, faults>>

Restart ==
  /\ server = "down"
  /\ server' = "fail_workflows"
  /\ UNCHANGED <<fresh, rows, registry, runners, req, noted, bounds>>

Orphan == row \in {"planning", "in_progress"}

FailOrphan ==
  /\ server = "fail_workflows"
  /\ row' = IF Orphan THEN "failed" ELSE row
  /\ fresh' = Orphan
  /\ server' = "cancel_tasks"
  /\ UNCHANGED <<spec, taskRow, registry, runners, req, noted, bounds>>

(* The statement picks the workflows that failed within the last 5 seconds, *)
(* which an earlier failure may or may not have.                           *)
CancelOrphanTasks ==
  /\ server = "cancel_tasks"
  /\ \E recent \in IF fresh THEN {TRUE} ELSE {FALSE, row = "failed"} :
       taskRow' = [t \in Tasks |->
                     IF recent /\ taskRow[t] \notin Terminal \cup {Absent}
                     THEN "CANCELLED" ELSE taskRow[t]]
  /\ server' = "up" /\ fresh' = FALSE
  /\ UNCHANGED <<row, spec, registry, runners, req, noted, bounds>>

-----------------------------------------------------------------------------
RunnerStep(r) ==
  \/ Load(r) \/ SavePlan(r) \/ Dispatch(r) \/ SaveBatch(r) \/ BudgetEnds(r)
  \/ ObeyCancel(r) \/ LeaveLoop(r) \/ Finalize(r) \/ MarkFailed(r) \/ Close(r)
  \/ \E t \in Tasks : StartTask(r, t) \/ RejectTask(r, t) \/ EndTask(r, t)
LaunchStep == Generate \/ Seed \/ Plan \/ RunnerStep(Launch)

Mishap(r) ==
  \/ CircuitOpens(r) \/ WallTimeEnds(r) \/ Raise(r) \/ MarkFailedRaises(r)
  \/ \E t \in Tasks : RetryTask(r, t) \/ TaskRaises(r, t) \/ BreaksLimit(r, t)

RequestStep(h) ==
  \/ CancelSignal(h) \/ CancelUpdate(h)
  \/ RetryRead(h) \/ RetryCheck(h) \/ RetryReset(h) \/ RetryCount(h)
  \/ RetryMark(h) \/ RetryResume(h) \/ RetryRaises(h)
  \/ DeleteRead(h) \/ DeleteTasks(h) \/ DeleteWorkstreams(h) \/ DeleteWorkflow(h)

Startup == Restart \/ FailOrphan \/ CancelOrphanTasks

Next ==
  \/ LaunchStep \/ PlanFails
  \/ \E h \in Requests : Arrive(h) \/ RequestStep(h) \/ RunnerStep(h)
  \/ \E r \in Runners : Mishap(r)
  \/ Crash \/ Startup

Spec == Init /\ [][Next]_vars

(* Awaited statements, agents and verifiers return.                        *)
FairSpec ==
  /\ Spec
  /\ WF_vars(LaunchStep)
  /\ \A h \in Requests : WF_vars(RunnerStep(h)) /\ WF_vars(RequestStep(h))
  /\ WF_vars(Startup)

-----------------------------------------------------------------------------
(* Properties.                                                             *)

(* At most one background task runs the workflow, and the registry names   *)
(* it: what cancel reaches, and what retry relies on to refuse.            *)
OneRunner == \A r \in Runners : Live(r) => registry = r

(* A workflow whose row says completed or failed is not being executed:     *)
(* delete asks nothing else, and retry resets the rows on the strength of   *)
(* it.  A cancelled row says no such thing.            *)
SettledIsIdle ==
  row \in {"completed", "failed"}
    => \A r \in Runners : run[r] \in {"none", "failing", "closing", "ended", "dead"}

(* The row of a completed workflow has no failed and no unfinished task     *)
(* beside it, whatever was cancelled, retried or resumed before and after.  *)
CompletedIsDone ==
  row = "completed"
    => \A t \in Tasks : taskRow[t] \in {"PASSED", "SKIPPED", Absent}

(* A task that passed is never run again: once its batch is over, retry,    *)
(* resume and recovery keep its row until the workflow is deleted.  Within  *)
(* the batch the snapshot of another coroutine may take it back.            *)
PassedKept ==
  [][\A t \in Tasks :
       taskRow[t] = "PASSED" /\ (\A r \in Runners : t \notin batch[r])
         => taskRow'[t] \in {"PASSED", Absent}]_vars

(* The loop waits for a task that nobody executes: left in progress by a    *)
(* dropped exception or in the rows that were loaded, or there is no task.  *)
Stuck(r) ==
  /\ AtTop(r) /\ ~signalled[r] /\ ReadyTasks(mem[r]) = {}
  /\ With(mem[r], "IN_PROGRESS") # {} \/ With(mem[r], Absent) # {}

(* Every background task comes to its end, whatever its tasks' results, so  *)
(* that the workflow can be retried or deleted, unless its loop waits for a *)
(* task that nobody executes: then it sleeps on until it is cancelled.      *)
RunnersEnd == \A r \in Runners : Live(r) ~> (~Live(r) \/ Stuck(r))

(* Once nobody executes the workflow, no row says that it, or one of its    *)
(* tasks, is being planned or executed: retry and delete would refuse, and  *)
(* a resumed orchestrator wait.  The adapter relies on the backend for that *)
(* (event_adapter.py:3).  The code does not keep to it: a planning that     *)
(* failed, a retry that raised, a limit broken in the middle of a batch and *)
(* a crash between the statements of the recovery leave such rows.          *)
Attended ==
  server = "up" /\ Busy = {} /\ (\A r \in Runners : ~Live(r))
    => row \notin {"planning", "in_progress"} /\ With(taskRow, "IN_PROGRESS") = {}
=============================================================================
