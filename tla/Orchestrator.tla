---------------------------- MODULE Orchestrator ----------------------------
(***************************************************************************)
(* rooben.orchestrator.Orchestrator: one workflow, from the plan to the    *)
(* final status.                                                           *)
(*                                                                         *)
(* The orchestrator is asyncio code: a main loop that dispatches batches   *)
(* of ready tasks with asyncio.gather, and one coroutine per dispatched    *)
(* task.  Everything between two awaits is one step here, so coroutines    *)
(* interleave exactly where the code suspends.  The state backend is the   *)
(* PostgreSQL one, whose calls really suspend; db... variables hold what   *)
(* has been committed.  A save_state of a coroutine is a transaction of one *)
(* awaited statement per row, and every statement carries what its row was *)
(* in memory when it was sent.  The save_state calls of the main loop are  *)
(* one step: no coroutine is alive then, so the memory stands still.       *)
(***************************************************************************)
EXTENDS TaskGraph, BreakerState, Sequences

CONSTANTS
  Agents,         \* ids of the agent registry
  NoAgent,        \* assigned_agent_id is None, or names no registered agent
  AgentOf,        \* AgentOf[t]: the agent t is assigned to, or NoAgent
  AgentCap,       \* AgentCap[a]: max_concurrency of agent a
  MaxConcurrent,  \* max_concurrent_agents, the global semaphore
  MaxRetries,     \* max_retries of every task (attempts, in fact)
  Workstreams,
  WorkstreamOf,   \* WorkstreamOf[t]: the workstream t belongs to
  RowOrder,       \* the workstreams and tasks in the order save_state sends them
  Strangers,      \* tasks that name an agent the registry does not have
  TokenCosts,     \* the token_usage an agent call may report
  MaxTokens,      \* max_total_tokens; 0 is unlimited, as in the code
  MaxTasks,       \* max_total_tasks;  0 is unlimited, as in the code
  WallLimited,    \* whether max_wall_seconds is set
  Cancellable,    \* whether somebody may call cancel()
  MaxFaults,      \* bound: exceptions that escape an awaited call
  MaxResumes      \* bound: how often resume() is called on the workflow

ASSUME OrchestratorAssumption ==
  /\ NoAgent \notin Agents
  /\ AgentOf \in [Tasks -> Agents \cup {NoAgent}]
  /\ AgentCap \in [Agents -> Nat \ {0}]
  /\ MaxConcurrent \in Nat \ {0}
  /\ MaxRetries \in Nat
  /\ WorkstreamOf \in [Tasks -> Workstreams]
  /\ Strangers \subseteq {t \in Tasks : AgentOf[t] = NoAgent}
  /\ TokenCosts \subseteq Nat
  /\ MaxTokens \in Nat /\ MaxTasks \in Nat
  /\ WallLimited \in BOOLEAN /\ Cancellable \in BOOLEAN
  /\ MaxFaults \in Nat /\ MaxResumes \in Nat

(* The snapshot holds every row, and a task is not a workstream. *)
ASSUME RowAssumption ==
  /\ Tasks \cap Workstreams = {}
  /\ RowOrder \in Seq(Workstreams \cup Tasks)
  /\ \A r \in Workstreams \cup Tasks : \E i \in 1 .. Len(RowOrder) : RowOrder[i] = r

VARIABLES
  loop,        \* where run() / resume() / _execute_workflow is
  pc,          \* pc[t]: where the coroutine of task t is, "none" without one
  status, attempt,      \* Task.status and Task.attempt in memory
  ws,          \* ws[w]: Workstream.status in memory
  wf,          \* Workflow.status and counters in memory
  wfArg,       \* wfArg[t]: the workflow as t's pending statement carries it
  sent,        \* how many rows the transaction under way has sent; 0 without one
  snapStatus, snapAttempt, snapWs,  \* what it sent
  batch, before,  \* the ready_tasks being gathered; every attempt when they were
  breaker,     \* the CircuitBreaker
  tokens, passes,       \* BudgetTracker.tokens_used and tasks_completed
  overBudget,  \* a coroutine of this batch ended with BudgetExceeded
  cancelled,   \* _cancel_event
  wallUp,      \* the wall clock has passed max_wall_seconds
  completions, \* how many workflow.completed events were emitted
  diagnosed,   \* _last_diagnostic is set
  dbStatus, dbAttempt, dbWs, dbWf,  \* the committed rows
  faults, resumes       \* used up of MaxFaults and MaxResumes

mem  == <<status, attempt, ws, wf>>
db   == <<dbStatus, dbAttempt, dbWs, dbWf>>
env  == <<cancelled, wallUp, faults, resumes>>
res  == <<breaker, tokens, passes, overBudget>>
ends == <<completions, diagnosed>>
snap == <<snapStatus, snapAttempt, snapWs>>
round == <<batch, before>>
hand == <<wfArg, sent, snap, round>>
vars == <<loop, pc, mem, hand, res, env, ends, db>>

-----------------------------------------------------------------------------
(* A coroutine in "queued" waits for the global semaphore, in "has_global"  *)
(* for its agent's, in "admitted" for the rate limiter.  The other places   *)
(* are the awaits of _execute_task: update_task ("writing"), the save_state *)
(* of a changed workstream ("saving" before its first statement, "locking"  *)
(* while that waits for the workflow's row, "storing" with the row), the    *)
(* agent, the verifier, and update_workflow ("counting").                   *)
InSave   == {"saving", "locking", "storing"}
InTask   == {"writing", "executing", "verifying", "counting"} \cup InSave
Holding  == {"has_global", "admitted"} \cup InTask
HoldingAgent == {"admitted"} \cup InTask
Places   == {"none", "queued"} \cup Holding

LoopPlaces == {"planning", "plan_save", "top", "sleeping", "gather", "save_batch",
               "cancel_save", "circuit_save", "finalize", "final_save",
               "budget_save", "done", "down", "resume_save"}

WorkflowStatus == {"PLANNING", "IN_PROGRESS", "COMPLETED", "FAILED", "CANCELLED"}
Workflow == [status : WorkflowStatus, completed : Nat, failed : Nat]
NewWorkflow == [status |-> "PLANNING", completed |-> 0, failed |-> 0]

Members(w) == {t \in Tasks : WorkstreamOf[t] = w}
CanRetryOnceMore(t) == attempt[t] <= MaxRetries   \* a slip
CanRetry(t) == attempt[t] < MaxRetries
TokensExceeded(n) == MaxTokens # 0 /\ n > MaxTokens
TasksExceeded(n) == MaxTasks # 0 /\ n > MaxTasks

TypeOK ==
  /\ loop \in LoopPlaces
  /\ pc \in [Tasks -> Places]
  /\ status \in [Tasks -> TaskStatus] /\ dbStatus \in [Tasks -> TaskStatus]
  /\ attempt \in [Tasks -> Nat] /\ dbAttempt \in [Tasks -> Nat]
  /\ ws \in [Workstreams -> WorkstreamStatus] /\ dbWs \in [Workstreams -> WorkstreamStatus]
  /\ wf \in Workflow /\ dbWf \in Workflow /\ wfArg \in [Tasks -> Workflow]
  /\ sent \in 0 .. Len(RowOrder)
  /\ snapStatus \in [Tasks -> TaskStatus] /\ snapAttempt \in [Tasks -> Nat]
  /\ snapWs \in [Workstreams -> WorkstreamStatus]
  /\ batch \subseteq Tasks /\ before \in [Tasks -> Nat]
  /\ breaker \in Breaker
  /\ tokens \in Nat /\ passes \in Nat /\ completions \in Nat
  /\ faults \in Nat /\ resumes \in Nat
  /\ overBudget \in BOOLEAN /\ cancelled \in BOOLEAN
  /\ wallUp \in BOOLEAN /\ diagnosed \in BOOLEAN

NoCoroutines == [t \in Tasks |-> "none"]
AllPending   == [t \in Tasks |-> "PENDING"]
NoAttempts   == [t \in Tasks |-> 0]
WsPending    == [w \in Workstreams |-> "PENDING"]
NoArgs       == [t \in Tasks |-> NewWorkflow]

(* A new Orchestrator before planning, and the row its launcher inserted.   *)
Init ==
  /\ loop = "planning" /\ pc = NoCoroutines /\ wfArg = NoArgs
  /\ status = AllPending /\ attempt = NoAttempts /\ ws = WsPending /\ wf = NewWorkflow
  /\ breaker = NewBreaker /\ tokens = 0 /\ passes = 0 /\ overBudget = FALSE
  /\ cancelled = FALSE /\ wallUp = FALSE /\ faults = 0 /\ resumes = 0
  /\ completions = 0 /\ diagnosed = FALSE
  /\ dbStatus = AllPending /\ dbAttempt = NoAttempts
  /\ dbWs = WsPending /\ dbWf = NewWorkflow
  /\ sent = 0 /\ snapStatus = AllPending /\ snapAttempt = NoAttempts /\ snapWs = WsPending
  /\ batch = {} /\ before = NoAttempts

(* ready_tasks, once the batch is over, is of no more use. *)
EndBatch == batch' = {} /\ before' = NoAttempts

UpsertTasks       == dbStatus' = status /\ dbAttempt' = attempt
UpsertWorkstreams == dbWs' = ws
UpsertWorkflow    == dbWf' = wf

(* backend.save_state of the main loop: one transaction upserts the whole   *)
(* WorkflowState, which nobody else changes meanwhile.                      *)
SaveState == UpsertWorkflow /\ UpsertWorkstreams /\ UpsertTasks

(* backend.load_state of a workflow, but for the status resume() gives it.  *)
LoadState == status' = dbStatus /\ attempt' = dbAttempt /\ ws' = dbWs

(* _save_checkpoint: the snapshot it keeps in memory is never read.         *)
Checkpoint == SaveState

-----------------------------------------------------------------------------
(* _plan_phase *)

PlanReturns ==
  /\ loop = "planning"
  /\ wf' = [wf EXCEPT !.status = "IN_PROGRESS"]
  /\ loop' = "plan_save"
  /\ UNCHANGED <<pc, status, attempt, ws, hand, res, env, ends, db>>

(* PlanningFailed: the failed workflow is announced but not saved.          *)
PlanFails ==
  /\ loop = "planning"
  /\ wf' = [wf EXCEPT !.status = "FAILED"]
  /\ completions' = completions + 1
  /\ loop' = "done"
  /\ UNCHANGED <<pc, status, attempt, ws, hand, res, env, diagnosed, db>>

-----------------------------------------------------------------------------
(* _execute_workflow: the top of the loop, in the order of its checks.      *)

Unfinished == loop = "top" /\ ~IsComplete(status)
Unhindered == Unfinished /\ ~wallUp /\ ~cancelled /\ CanProceed(breaker)

LeaveCompleted ==
  /\ loop = "top" /\ IsComplete(status)
  /\ loop' = "finalize"
  /\ UNCHANGED <<pc, mem, hand, res, env, ends, db>>

(* _check_wall_time raises BudgetExceeded; run() fails the workflow.        *)
WallTimeExceeded ==
  /\ Unfinished /\ wallUp
  /\ wf' = [wf EXCEPT !.status = "FAILED"]
  /\ loop' = "budget_save"
  /\ UNCHANGED <<pc, status, attempt, ws, hand, res, env, ends, db>>

(* Ends(s): every task that has not ended ends as s. *)
Ends(s) == [t \in Tasks |-> IF status[t] \in Terminal THEN status[t] ELSE s]

ObeyCancel ==
  /\ Unfinished /\ ~wallUp /\ cancelled
  /\ status' = Ends("SKIPPED")
  /\ wf' = [wf EXCEPT !.status = "CANCELLED"]
  /\ loop' = "cancel_save"
  /\ UNCHANGED <<pc, attempt, ws, hand, res, env, ends, db>>

CircuitOpen ==
  /\ Unfinished /\ ~wallUp /\ ~cancelled /\ ~CanProceed(breaker)
  /\ loop' = "circuit_save"
  /\ UNCHANGED <<pc, mem, hand, res, env, ends, db>>

(* get_ready_tasks, then gather over _dispatch_task *)
Dispatch ==
  /\ Unhindered /\ ReadyTasks(status) # {}
  /\ breaker' = Refreshed(breaker)
  /\ batch' = ReadyTasks(status) /\ before' = attempt
  /\ pc' = [t \in Tasks |-> IF t \in batch' THEN "queued" ELSE "none"]
  /\ overBudget' = FALSE
  /\ loop' = "gather"
  /\ UNCHANGED <<mem, wfArg, sent, snap, tokens, passes, env, ends, db>>

NothingReady(next) ==
  /\ Unhindered /\ ReadyTasks(status) = {}
  /\ breaker' = Refreshed(breaker)
  /\ loop' = next
  /\ UNCHANGED <<pc, mem, hand, tokens, passes, overBudget, env, ends, db>>

LeaveStalled == IsStalled(status) /\ NothingReady("finalize")
Sleep        == ~IsStalled(status) /\ NothingReady("sleeping")

Wake ==
  /\ loop = "sleeping"
  /\ loop' = "top"
  /\ UNCHANGED <<pc, mem, hand, res, env, ends, db>>

AfterGatherDropping == "save_batch"   \* a slip: BudgetExceeded is dropped too
AfterGather == IF overBudget THEN "budget_save" ELSE "save_batch"

(* gather returns when every coroutine has ended; a BudgetExceeded among    *)
(* the results is raised again, any other exception is dropped.             *)
Gathered ==
  /\ loop = "gather" /\ \A t \in Tasks : pc[t] = "none"
  /\ loop' = AfterGather
  /\ wf' = IF AfterGather = "budget_save" THEN [wf EXCEPT !.status = "FAILED"] ELSE wf
  /\ UNCHANGED <<pc, status, attempt, ws, hand, res, env, ends, db>>

-----------------------------------------------------------------------------
(* The awaited save_state calls of the main loop.                           *)

(* After a batch maybe_checkpoint saves the same state once more.           *)
SaveThen(place, next) ==
  /\ loop = place
  /\ SaveState
  /\ EndBatch
  /\ loop' = next
  /\ UNCHANGED <<pc, mem, wfArg, sent, snap, res, env, ends>>

(* A slip: no save_state after the batch. *)
SaveBatchForgotten ==
  /\ loop = "save_batch"
  /\ EndBatch
  /\ loop' = "top"
  /\ UNCHANGED <<pc, mem, wfArg, sent, snap, res, env, ends, db>>

SavePlan   == SaveThen("plan_save", "top")
SaveBatch  == SaveThen("save_batch", "top")
SaveResume == SaveThen("resume_save", "top")
SaveBudgetFailure == SaveThen("budget_save", "done")

SaveCancel ==
  /\ loop = "cancel_save"
  /\ SaveState
  /\ completions' = completions + 1
  /\ loop' = "finalize"
  /\ UNCHANGED <<pc, mem, hand, res, env, diagnosed>>

(* force_checkpoint, then the remaining tasks fail in memory.               *)
SaveCircuitOpen ==
  /\ loop = "circuit_save"
  /\ Checkpoint
  /\ status' = Ends("FAILED")
  /\ loop' = "finalize"
  /\ UNCHANGED <<pc, attempt, ws, wf, hand, res, env, ends>>

FinalStatusLenient ==   \* a slip: failed tasks do not matter
  IF IsComplete(status) THEN "COMPLETED" ELSE "FAILED"
FinalStatus ==
  IF IsComplete(status) /\ ~IsFailed(status) THEN "COMPLETED" ELSE "FAILED"

(* _finalize_phase *)
Finalize ==
  /\ loop = "finalize"
  /\ wf' = [wf EXCEPT !.status = FinalStatus]
  /\ loop' = "final_save"
  /\ UNCHANGED <<pc, status, attempt, ws, hand, res, env, ends, db>>

HighFailureRate(n) == 10 * n > 4 * Cardinality(Tasks)

SaveFinal ==
  /\ loop = "final_save"
  /\ SaveState
  /\ completions' = completions + 1
  /\ diagnosed' = HighFailureRate(wf.failed)
  /\ loop' = "done"
  /\ UNCHANGED <<pc, mem, hand, res, env>>

-----------------------------------------------------------------------------
(* _dispatch_task *)

Goto(t, place) == pc' = [pc EXCEPT ![t] = place]
SetStatus(t, s) == status' = [status EXCEPT ![t] = s]

RejectUnassigned(t) ==
  /\ pc[t] = "queued" /\ AgentOf[t] = NoAgent
  /\ SetStatus(t, "FAILED")
  /\ Goto(t, "writing")
  /\ UNCHANGED <<loop, attempt, ws, wf, hand, res, env, ends, db>>

AcquireGlobal(t) ==
  /\ pc[t] = "queued" /\ AgentOf[t] # NoAgent
  /\ Cardinality({u \in Tasks : pc[u] \in Holding}) < MaxConcurrent
  /\ Goto(t, "has_global")
  /\ UNCHANGED <<loop, mem, hand, res, env, ends, db>>

AcquireAgent(t) ==
  /\ pc[t] = "has_global"
  /\ Cardinality({u \in Tasks : AgentOf[u] = AgentOf[t] /\ pc[u] \in HoldingAgent})
       < AgentCap[AgentOf[t]]
  /\ Goto(t, "admitted")
  /\ UNCHANGED <<loop, mem, hand, res, env, ends, db>>

-----------------------------------------------------------------------------
(* _execute_task *)

Start(t) ==
  /\ pc[t] = "admitted"
  /\ SetStatus(t, "IN_PROGRESS")
  /\ attempt' = [attempt EXCEPT ![t] = @ + 1]
  /\ Goto(t, "writing")
  /\ UNCHANGED <<loop, ws, wf, hand, res, env, ends, db>>

CountedTwice(t) == [wf EXCEPT !.failed = @ + 1, !.completed = @ + 1]   \* a slip

(* _update_workflow_counters, in memory *)
Counted(t) ==
  IF status[t] = "FAILED" THEN [wf EXCEPT !.failed = @ + 1]
                          ELSE [wf EXCEPT !.completed = @ + 1]

(* What follows _update_task, up to the next await.  _update_task has been  *)
(* called for the status the task now has; the two statuses that end the    *)
(* task count in the workflow, unless the task never had an agent.          *)
Proceed(t) ==
  IF status[t] \in {"PASSED", "FAILED"} /\ AgentOf[t] # NoAgent
  THEN /\ wf' = Counted(t)
       /\ wfArg' = [wfArg EXCEPT ![t] = Counted(t)]
       /\ Goto(t, "counting")
  ELSE /\ Goto(t, CASE status[t] = "IN_PROGRESS" -> "executing"
                    [] status[t] = "VERIFYING" -> "verifying"
                    [] OTHER -> "none")
       /\ UNCHANGED <<wf, wfArg>>

(* No transaction holds the workflow's row; the row of t is held by one.    *)
WorkflowFree == \A t \in Tasks : pc[t] # "storing"
RowLocked(t) == \E i \in 1 .. sent - 1 : RowOrder[i] = t

EndTransaction ==
  sent' = 0 /\ snapStatus' = AllPending /\ snapAttempt' = NoAttempts /\ snapWs' = WsPending

(* _update_task commits the row, then _derive_workstream_status looks at    *)
(* the member tasks as they are in memory by then.                          *)
UpdateTask(t) ==
  /\ pc[t] = "writing" /\ ~RowLocked(t)
  /\ dbStatus' = [dbStatus EXCEPT ![t] = status[t]]
  /\ dbAttempt' = [dbAttempt EXCEPT ![t] = attempt[t]]
  /\ LET w       == WorkstreamOf[t]
         derived == WorkstreamStatusOf(status, Members(w))
     IN  /\ ws' = [ws EXCEPT ![w] = derived]
         /\ IF ws[w] # derived
            THEN Goto(t, "saving") /\ UNCHANGED <<wf, wfArg>>
            ELSE Proceed(t)
  /\ UNCHANGED <<loop, status, attempt, sent, snap, round, res, env, ends, dbWs, dbWf>>

(* The save_state of a coroutine.  It has a connection and sends the upsert *)
(* of the workflow, with the counters of that moment.                       *)
SendWorkflow(t) ==
  /\ pc[t] = "saving"
  /\ wfArg' = [wfArg EXCEPT ![t] = wf]
  /\ Goto(t, "locking")
  /\ UNCHANGED <<loop, mem, sent, snap, round, res, env, ends, db>>

(* The next row is sent as it is in memory now. *)
SendRow ==
  LET r == RowOrder[sent + 1]
  IN  /\ sent' = sent + 1
      /\ snapStatus' = IF r \in Tasks THEN [snapStatus EXCEPT ![r] = status[r]] ELSE snapStatus
      /\ snapAttempt' = IF r \in Tasks THEN [snapAttempt EXCEPT ![r] = attempt[r]] ELSE snapAttempt
      /\ snapWs' = IF r \in Workstreams THEN [snapWs EXCEPT ![r] = ws[r]] ELSE snapWs

(* The upsert of the workflow's row goes through: one transaction after the *)
(* other, for the row stays locked until the commit.                        *)
LockWorkflow(t) ==
  /\ pc[t] = "locking" /\ WorkflowFree
  /\ SendRow
  /\ Goto(t, "storing")
  /\ UNCHANGED <<loop, mem, wfArg, round, res, env, ends, db>>

(* The upsert in flight has returned, and the next one is sent.             *)
StoreRow(t) ==
  /\ pc[t] = "storing" /\ sent < Len(RowOrder)
  /\ SendRow
  /\ UNCHANGED <<loop, pc, mem, wfArg, round, res, env, ends, db>>

CommitSave(t) ==
  /\ pc[t] = "storing" /\ sent = Len(RowOrder)
  /\ dbWf' = wfArg[t] /\ dbWs' = snapWs
  /\ dbStatus' = snapStatus /\ dbAttempt' = snapAttempt
  /\ EndTransaction
  /\ Proceed(t)
  /\ UNCHANGED <<loop, status, attempt, ws, round, res, env, ends>>

(* A slip: the status READY, which nothing dispatches, for a retry. *)
AttemptFailsReady(t) == SetStatus(t, IF CanRetry(t) THEN "READY" ELSE "FAILED")

(* A failed attempt: another one if any is left. *)
AttemptFails(t) == SetStatus(t, IF CanRetry(t) THEN "PENDING" ELSE "FAILED")

AgentReturns(t) ==
  /\ pc[t] = "executing"
  /\ \E cost \in TokenCosts :
       /\ tokens' = tokens + cost
       /\ IF cost > 0 /\ TokensExceeded(tokens + cost)
          THEN /\ overBudget' = TRUE
               /\ Goto(t, "none")
               /\ UNCHANGED status
          ELSE /\ AttemptFails(t) \/ SetStatus(t, "VERIFYING")
               /\ Goto(t, "writing")
               /\ UNCHANGED overBudget
  /\ UNCHANGED <<loop, attempt, ws, wf, hand, breaker, passes, env, ends, db>>

VerifierReturns(t) ==
  /\ pc[t] = "verifying"
  /\ AttemptFails(t) \/ SetStatus(t, "PASSED")
  /\ Goto(t, "writing")
  /\ UNCHANGED <<loop, attempt, ws, wf, hand, res, env, ends, db>>

(* _update_workflow_counters commits what it was called with; then the      *)
(* breaker and, after a pass, the task budget hear of the result.           *)
UpdateCounters(t) ==
  /\ pc[t] = "counting" /\ WorkflowFree
  /\ dbWf' = wfArg[t]
  /\ Goto(t, "none")
  /\ IF status[t] = "PASSED"
     THEN /\ breaker' = RecordSuccess(breaker)
          /\ passes' = passes + 1
          /\ overBudget' = (overBudget \/ TasksExceeded(passes + 1))
     ELSE /\ \E e \in Errors : breaker' = RecordFailure(breaker, e)
          /\ UNCHANGED <<passes, overBudget>>
  /\ UNCHANGED <<loop, mem, hand, tokens, env, ends, dbStatus, dbAttempt, dbWs>>

(* An awaited call of the coroutine raises something other than             *)
(* BudgetExceeded: the backend, the agent, the verifier, the event callback, *)
(* the last possibly after the agent's tokens have been recorded.  Its      *)
(* transaction is rolled back.                                              *)
Raises(t) ==
  /\ pc[t] \in InTask
  /\ faults < MaxFaults
  /\ faults' = faults + 1
  /\ Goto(t, "none")
  /\ \E cost \in {0} \cup TokenCosts :
       /\ cost > 0 => pc[t] = "executing" /\ ~TokensExceeded(tokens + cost)
       /\ tokens' = tokens + cost
  /\ IF pc[t] = "storing" THEN EndTransaction ELSE UNCHANGED <<sent, snap>>
  /\ UNCHANGED <<loop, mem, wfArg, round, breaker, passes, overBudget, cancelled, wallUp,
                 resumes, ends, db>>

-----------------------------------------------------------------------------
(* The surroundings. *)

Running == loop \notin {"done", "down"}

Cancel ==
  /\ Cancellable /\ Running /\ ~cancelled
  /\ cancelled' = TRUE
  /\ UNCHANGED <<loop, pc, mem, hand, res, wallUp, faults, resumes, ends, db>>

WallClock ==
  /\ WallLimited /\ Running /\ ~wallUp
  /\ wallUp' = TRUE
  /\ UNCHANGED <<loop, pc, mem, hand, res, cancelled, faults, resumes, ends, db>>

BreakerCools ==
  /\ Running /\ breaker.state = "open" /\ ~breaker.cooled
  /\ breaker' = CoolDown(breaker)
  /\ UNCHANGED <<loop, pc, mem, hand, tokens, passes, overBudget, env, ends, db>>

(* The process dies; its coroutines, and what is not committed, are gone.   *)
Crash ==
  /\ Running /\ resumes < MaxResumes
  /\ loop' = "down" /\ pc' = NoCoroutines
  /\ EndTransaction /\ EndBatch
  /\ UNCHANGED <<mem, wfArg, res, env, ends, db>>

(* resume() of a workflow whose orchestrator died or returned: a new        *)
(* process loads the rows, with a new breaker and a new budget.  A task of  *)
(* an agent that is not registered is refused with ValueError.              *)
Resume ==
  /\ Strangers = {}
  /\ ~Running /\ dbWf.status # "PLANNING" /\ resumes < MaxResumes
  /\ resumes' = resumes + 1
  /\ loop' = "resume_save"
  /\ LoadState
  /\ wf' = [dbWf EXCEPT !.status = "IN_PROGRESS"]
  /\ wfArg' = NoArgs /\ breaker' = NewBreaker
  /\ tokens' = 0 /\ passes' = 0 /\ overBudget' = FALSE
  /\ cancelled' = FALSE /\ wallUp' = FALSE /\ diagnosed' = FALSE
  /\ UNCHANGED <<pc, sent, snap, round, completions, faults, db>>

Finished == ~Running /\ UNCHANGED vars

-----------------------------------------------------------------------------
LoopStep ==
  \/ PlanReturns \/ PlanFails
  \/ LeaveCompleted \/ WallTimeExceeded \/ ObeyCancel \/ CircuitOpen
  \/ Dispatch \/ LeaveStalled \/ Sleep \/ Wake \/ Gathered
  \/ SavePlan \/ SaveBatch \/ SaveResume \/ SaveBudgetFailure
  \/ SaveCancel \/ SaveCircuitOpen \/ Finalize \/ SaveFinal

TaskStep(t) ==
  \/ RejectUnassigned(t) \/ AcquireGlobal(t) \/ AcquireAgent(t) \/ Start(t)
  \/ UpdateTask(t) \/ SendWorkflow(t) \/ LockWorkflow(t) \/ StoreRow(t) \/ CommitSave(t)
  \/ AgentReturns(t) \/ VerifierReturns(t) \/ UpdateCounters(t)

Next ==
  \/ LoopStep
  \/ \E t \in Tasks : TaskStep(t) \/ Raises(t)
  \/ Cancel \/ WallClock \/ BreakerCools \/ Crash \/ Resume \/ Finished

Spec == Init /\ [][Next]_vars

(* asyncio resumes every coroutine whose await has completed, and the       *)
(* awaited calls complete: agents, verifiers and SQL have timeouts.         *)
Fairness == WF_vars(LoopStep) /\ \A t \in Tasks : WF_vars(TaskStep(t))
FairSpec == Spec /\ Fairness
=============================================================================
