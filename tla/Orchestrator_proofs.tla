------------------------- MODULE Orchestrator_proofs -------------------------
(***************************************************************************)
(* What is proved of the orchestrator for every task graph, registry,      *)
(* budget and number of faults, crashes and resumes.                       *)
(***************************************************************************)
EXTENDS OrchestratorProperties, CircuitBreaker, FiniteSetTheorems, TLAPS

(* The breaker's methods return breakers. *)
LEMMA BreakerType ==
  ASSUME NEW b \in Breaker
  PROVE  /\ NewBreaker \in Breaker /\ Refreshed(b) \in Breaker
         /\ RecordSuccess(b) \in Breaker /\ CoolDown(b) \in Breaker
         /\ \A e \in Errors : RecordFailure(b, e) \in Breaker
<1>1. NewBreaker \in Breaker /\ Refreshed(b) \in Breaker
  BY DEF NewBreaker, Refreshed, Breaker, BreakerStates
<1>2. RecordSuccess(b) \in Breaker /\ CoolDown(b) \in Breaker
  BY DEF RecordSuccess, CoolDown, Breaker, BreakerStates
<1>3. ASSUME NEW e \in Errors PROVE RecordFailure(b, e) \in Breaker
  <2>1. Heard(b, e) \in Breaker
    <3>1. b.hashes \in [Errors -> Nat] /\ b.failures \in Nat
      BY DEF Breaker
    <3>2. [b.hashes EXCEPT ![e] = @ + 1] \in [Errors -> Nat] /\ b.failures + 1 \in Nat
      BY <3>1
    <3> QED BY <3>2 DEF Heard, Breaker
  <2>2. Tripped(Heard(b, e)) \in Breaker
    BY <2>1 DEF Tripped, Breaker, BreakerStates
  <2> QED BY <2>1, <2>2 DEF RecordFailure
<1> QED BY <1>1, <1>2, <1>3

LEMMA StreamStatusType ==
  ASSUME NEW st, NEW members
  PROVE  WorkstreamStatusOf(st, members) \in WorkstreamStatus
BY DEF WorkstreamStatusOf, WorkstreamStatus

(* The workflow record, and the counters of one more ended task. *)
LEMMA WorkflowType ==
  ASSUME TypeOK
  PROVE  /\ NewWorkflow \in Workflow
         /\ \A s \in WorkflowStatus : [wf EXCEPT !.status = s] \in Workflow
         /\ \A t \in Tasks : Counted(t) \in Workflow
<1>1. wf \in Workflow
  BY DEF TypeOK
<1> QED BY <1>1 DEF NewWorkflow, Workflow, WorkflowStatus, Counted

LEMMA InitType == Init => TypeOK
<1> SUFFICES ASSUME Init PROVE TypeOK
  OBVIOUS
<1>1. NewBreaker \in Breaker
  BY DEF NewBreaker, Breaker, BreakerStates
<1>2. NewWorkflow \in Workflow
  BY DEF NewWorkflow, Workflow, WorkflowStatus
<1>3. /\ NoCoroutines \in [Tasks -> Places] /\ AllPending \in [Tasks -> TaskStatus]
      /\ NoAttempts \in [Tasks -> Nat] /\ WsPending \in [Workstreams -> WorkstreamStatus]
  BY DEF NoCoroutines, Places, AllPending, TaskStatus, NoAttempts, WsPending, WorkstreamStatus
<1>4. 0 \in 0 .. Len(RowOrder)
  BY RowAssumption
<1> QED
  BY <1>1, <1>2, <1>3, <1>4 DEF Init, TypeOK, LoopPlaces, NoArgs

(* Every step of the main loop keeps the types. *)
LEMMA LoopStepType == TypeOK /\ LoopStep => TypeOK'
<1> SUFFICES ASSUME TypeOK, LoopStep PROVE TypeOK'
  OBVIOUS
<1> USE DEF mem, db, env, res, ends, hand, snap, round
<1>0. /\ \A s \in WorkflowStatus : [wf EXCEPT !.status = s] \in Workflow
      /\ Refreshed(breaker) \in Breaker
  BY WorkflowType, BreakerType DEF TypeOK
<1>1. CASE PlanReturns \/ PlanFails \/ WallTimeExceeded
  <2>1. loop' \in LoopPlaces /\ completions' \in Nat
    BY <1>1 DEF TypeOK, PlanReturns, PlanFails, WallTimeExceeded, LoopPlaces
  <2>2. \E s \in WorkflowStatus : wf' = [wf EXCEPT !.status = s]
    BY <1>1 DEF PlanReturns, PlanFails, WallTimeExceeded, WorkflowStatus
  <2>3. wf' \in Workflow
    BY <1>0, <2>2
  <2>4. UNCHANGED <<pc, status, attempt, ws, hand, res, env, diagnosed, db>>
    BY <1>1 DEF PlanReturns, PlanFails, WallTimeExceeded
  <2> QED BY <2>1, <2>3, <2>4 DEF TypeOK
<1>2. CASE LeaveCompleted \/ CircuitOpen \/ Wake
  BY <1>2 DEF TypeOK, LeaveCompleted, CircuitOpen, Wake, LoopPlaces
<1>3. CASE ObeyCancel
  <2>1. Ends("SKIPPED") \in [Tasks -> TaskStatus]
    BY DEF Ends, TypeOK, TaskStatus, Terminal
  <2> QED BY <1>0, <1>3, <2>1 DEF TypeOK, ObeyCancel, WorkflowStatus, LoopPlaces
<1>4. CASE Dispatch
  BY <1>0, <1>4 DEF TypeOK, Dispatch, LoopPlaces, Places, ReadyTasks, With
<1>5. CASE LeaveStalled \/ Sleep
  BY <1>0, <1>5 DEF TypeOK, LeaveStalled, Sleep, NothingReady, LoopPlaces
<1>6. CASE Gathered
  BY <1>0, <1>6 DEF TypeOK, Gathered, AfterGather, WorkflowStatus, LoopPlaces
<1>7. CASE SavePlan \/ SaveBatch \/ SaveResume \/ SaveBudgetFailure
  BY <1>7 DEF TypeOK, SavePlan, SaveBatch, SaveResume, SaveBudgetFailure, SaveThen,
              SaveState, UpsertWorkflow, UpsertWorkstreams, UpsertTasks, EndBatch, NoAttempts,
              LoopPlaces
<1>8. CASE SaveCancel
  BY <1>8 DEF TypeOK, SaveCancel, SaveState, UpsertWorkflow, UpsertWorkstreams, UpsertTasks,
              LoopPlaces
<1>9. CASE SaveCircuitOpen
  <2>1. Ends("FAILED") \in [Tasks -> TaskStatus]
    BY DEF Ends, TypeOK, TaskStatus, Terminal
  <2> QED BY <1>9, <2>1 DEF TypeOK, SaveCircuitOpen, Checkpoint, SaveState, UpsertWorkflow,
                            UpsertWorkstreams, UpsertTasks, LoopPlaces
<1>10. CASE Finalize
  BY <1>0, <1>10 DEF TypeOK, Finalize, FinalStatus, WorkflowStatus, LoopPlaces
<1>11. CASE SaveFinal
  <2>1. HighFailureRate(wf.failed) \in BOOLEAN
    BY DEF HighFailureRate
  <2> QED BY <1>11, <2>1 DEF TypeOK, SaveFinal, SaveState, UpsertWorkflow, UpsertWorkstreams,
                             UpsertTasks, LoopPlaces
<1> QED
  BY <1>1, <1>2, <1>3, <1>4, <1>5, <1>6, <1>7, <1>8, <1>9, <1>10, <1>11 DEF LoopStep

(* Without a transaction nothing is sent. *)
SnapInv == WorkflowFree => sent = 0

LEMMA SendRowType ==
  ASSUME TypeOK, SendRow, sent < Len(RowOrder)
  PROVE  /\ sent' \in 0 .. Len(RowOrder)
         /\ snapStatus' \in [Tasks -> TaskStatus] /\ snapAttempt' \in [Tasks -> Nat]
         /\ snapWs' \in [Workstreams -> WorkstreamStatus]
<1>1. Len(RowOrder) \in Nat /\ sent \in 0 .. Len(RowOrder)
  BY RowAssumption DEF TypeOK
<1> QED BY <1>1 DEF TypeOK, SendRow

LEMMA EndTransactionType ==
  ASSUME EndTransaction
  PROVE  /\ sent' \in 0 .. Len(RowOrder)
         /\ snapStatus' \in [Tasks -> TaskStatus] /\ snapAttempt' \in [Tasks -> Nat]
         /\ snapWs' \in [Workstreams -> WorkstreamStatus]
<1>1. Len(RowOrder) \in Nat
  BY RowAssumption
<1> QED BY <1>1 DEF EndTransaction, AllPending, TaskStatus, NoAttempts, WsPending, WorkstreamStatus

(* There is a row to send, because there is a task. *)
LEMMA RowsThere == ASSUME NEW t \in Tasks PROVE Len(RowOrder) \in Nat /\ 0 < Len(RowOrder)
<1>1. Len(RowOrder) \in Nat
  BY RowAssumption
<1>2. PICK i \in 1 .. Len(RowOrder) : RowOrder[i] = t
  BY RowAssumption
<1> QED BY <1>1, <1>2

(* So does every step of a task's coroutine. *)
LEMMA TaskStepType == ASSUME NEW t \in Tasks, TypeOK, SnapInv, TaskStep(t) PROVE TypeOK'
<1> USE DEF mem, db, env, res, ends, hand, snap, round, InSave
<1>1. CASE RejectUnassigned(t)
  BY <1>1 DEF TypeOK, RejectUnassigned, SetStatus, Goto, Places, Holding, InTask, TaskStatus,
              Terminal
<1>2. CASE AcquireGlobal(t) \/ AcquireAgent(t)
  BY <1>2 DEF TypeOK, AcquireGlobal, AcquireAgent, Goto, Places, Holding
<1>3. CASE Start(t)
  BY <1>3 DEF TypeOK, Start, SetStatus, Goto, Places, Holding, InTask, TaskStatus, Active
<1>4. Proceed(t) => /\ pc' \in [Tasks -> Places]
                    /\ wf' \in Workflow /\ wfArg' \in [Tasks -> Workflow]
  BY WorkflowType DEF Proceed, TypeOK, Goto, Places, Holding, InTask
<1>5. CASE UpdateTask(t)
  <2>1. WorkstreamStatusOf(status, Members(WorkstreamOf[t])) \in WorkstreamStatus
    BY StreamStatusType
  <2>2. /\ pc' \in [Tasks -> Places] /\ wf' \in Workflow /\ wfArg' \in [Tasks -> Workflow]
    BY <1>4, <1>5 DEF TypeOK, UpdateTask, Goto, Places, Holding, InTask
  <2>3. /\ ws' \in [Workstreams -> WorkstreamStatus]
        /\ dbStatus' \in [Tasks -> TaskStatus] /\ dbAttempt' \in [Tasks -> Nat]
    BY <1>5, <2>1 DEF TypeOK, UpdateTask
  <2> QED BY <1>5, <2>2, <2>3 DEF TypeOK, UpdateTask
<1>6. CASE SendWorkflow(t)
  BY <1>6 DEF TypeOK, SendWorkflow, Goto, Places, Holding, InTask
<1>7. CASE LockWorkflow(t) \/ StoreRow(t)
  <2>1. SendRow /\ sent < Len(RowOrder)
    BY <1>7, RowsThere DEF LockWorkflow, StoreRow, SnapInv
  <2>2. pc' \in [Tasks -> Places]
    BY <1>7 DEF TypeOK, LockWorkflow, StoreRow, Goto, Places, Holding, InTask
  <2> QED BY <1>7, <2>1, <2>2, SendRowType DEF TypeOK, LockWorkflow, StoreRow
<1>8. CASE CommitSave(t)
  BY <1>4, <1>8, EndTransactionType DEF TypeOK, CommitSave
<1>9. AttemptFails(t) => status' \in [Tasks -> TaskStatus]
  BY DEF AttemptFails, SetStatus, TypeOK, TaskStatus, Terminal
<1>10. CASE AgentReturns(t)
  <2>1. PICK cost \in TokenCosts : AgentReturns(t)!2!(cost)
    BY <1>10 DEF AgentReturns
  <2>2. tokens' \in Nat
    BY <2>1, OrchestratorAssumption DEF TypeOK
  <2>3. pc' \in [Tasks -> Places] /\ overBudget' \in BOOLEAN
    BY <2>1 DEF TypeOK, Goto, Places, Holding, InTask
  <2>4. status' \in [Tasks -> TaskStatus]
    BY <1>9, <2>1 DEF TypeOK, SetStatus, TaskStatus, Active
  <2> QED BY <1>10, <2>2, <2>3, <2>4 DEF TypeOK, AgentReturns
<1>11. CASE VerifierReturns(t)
  BY <1>9, <1>11
     DEF TypeOK, VerifierReturns, SetStatus, Goto, Places, Holding, InTask, TaskStatus, Terminal
<1>12. CASE UpdateCounters(t)
  <2>1. RecordSuccess(breaker) \in Breaker /\ \A e \in Errors : RecordFailure(breaker, e) \in Breaker
    BY BreakerType DEF TypeOK
  <2>2. breaker' \in Breaker /\ passes' \in Nat
    BY <1>12, <2>1 DEF TypeOK, UpdateCounters
  <2>3. overBudget' \in BOOLEAN
    BY <1>12, Zenon DEF TypeOK, UpdateCounters, TasksExceeded
  <2> QED
    BY <1>12, <2>2, <2>3 DEF TypeOK, UpdateCounters, Goto, Places
<1> QED
  BY <1>1, <1>2, <1>3, <1>5, <1>6, <1>7, <1>8, <1>10, <1>11, <1>12 DEF TaskStep

LEMMA OtherStepType ==
  ASSUME TypeOK,
         \/ \E t \in Tasks : Raises(t)
         \/ Cancel \/ WallClock \/ BreakerCools \/ Crash \/ Resume \/ Finished
         \/ UNCHANGED vars
  PROVE  TypeOK'
<1> USE DEF mem, db, env, res, ends, hand, snap, round
<1>1. ASSUME NEW t \in Tasks, Raises(t) PROVE TypeOK'
  <2>1. /\ sent' \in 0 .. Len(RowOrder)
        /\ snapStatus' \in [Tasks -> TaskStatus] /\ snapAttempt' \in [Tasks -> Nat]
        /\ snapWs' \in [Workstreams -> WorkstreamStatus]
    BY <1>1, EndTransactionType DEF TypeOK, Raises
  <2>2. tokens' \in Nat /\ faults' \in Nat
    BY <1>1, OrchestratorAssumption DEF TypeOK, Raises
  <2>3. pc' \in [Tasks -> Places]
    BY <1>1 DEF TypeOK, Raises, Goto, Places
  <2> QED BY <1>1, <2>1, <2>2, <2>3 DEF TypeOK, Raises
<1>2. CASE Cancel \/ WallClock
  BY <1>2 DEF TypeOK, Cancel, WallClock
<1>3. CASE BreakerCools
  BY <1>3, BreakerType DEF TypeOK, BreakerCools
<1>4. CASE Crash
  BY <1>4, EndTransactionType
     DEF TypeOK, Crash, EndBatch, NoAttempts, NoCoroutines, Places, LoopPlaces
<1>5. CASE Resume
  <2>1. NewBreaker \in Breaker /\ NoArgs \in [Tasks -> Workflow]
    BY BreakerType, WorkflowType DEF TypeOK, NoArgs
  <2>2. [dbWf EXCEPT !.status = "IN_PROGRESS"] \in Workflow
    BY DEF TypeOK, Workflow, WorkflowStatus
  <2>3. /\ wf' \in Workflow /\ wfArg' \in [Tasks -> Workflow] /\ breaker' \in Breaker
        /\ status' \in [Tasks -> TaskStatus] /\ attempt' \in [Tasks -> Nat]
        /\ ws' \in [Workstreams -> WorkstreamStatus]
    BY <1>5, <2>1, <2>2 DEF TypeOK, Resume, LoadState
  <2>4. /\ loop' \in LoopPlaces /\ pc' \in [Tasks -> Places]
        /\ tokens' \in Nat /\ passes' \in Nat /\ completions' \in Nat
        /\ faults' \in Nat /\ resumes' \in Nat
        /\ sent' \in 0 .. Len(RowOrder)
        /\ snapStatus' \in [Tasks -> TaskStatus] /\ snapAttempt' \in [Tasks -> Nat]
        /\ snapWs' \in [Workstreams -> WorkstreamStatus]
        /\ batch' \subseteq Tasks /\ before' \in [Tasks -> Nat]
    BY <1>5 DEF TypeOK, Resume, LoadState, LoopPlaces
  <2>5. /\ dbStatus' \in [Tasks -> TaskStatus] /\ dbAttempt' \in [Tasks -> Nat]
        /\ dbWs' \in [Workstreams -> WorkstreamStatus] /\ dbWf' \in Workflow
    BY <1>5 DEF TypeOK, Resume, LoadState
  <2>6. /\ overBudget' \in BOOLEAN /\ cancelled' \in BOOLEAN
        /\ wallUp' \in BOOLEAN /\ diagnosed' \in BOOLEAN
    BY <1>5 DEF Resume, LoadState
  <2> QED BY <2>3, <2>4, <2>5, <2>6 DEF TypeOK
<1>6. CASE Finished \/ UNCHANGED vars
  BY <1>6 DEF TypeOK, Finished, vars
<1> QED BY <1>1, <1>2, <1>3, <1>4, <1>5, <1>6

-----------------------------------------------------------------------------
(* A coroutine belongs to the batch at hand, and where it is tells the      *)
(* status of its task; one transaction is under way at a time.              *)
CoroutineInv ==
  \A t \in Tasks :
    /\ pc[t] # "none" => loop = "gather" /\ t \in batch
    /\ pc[t] \in {"queued", "has_global", "admitted"} => status[t] = "PENDING"
    /\ pc[t] = "executing" => status[t] = "IN_PROGRESS"
    /\ pc[t] = "verifying" => status[t] = "VERIFYING"
    /\ pc[t] = "storing" => \A u \in Tasks \ {t} : pc[u] # "storing"

(* The rows are the memory while the main loop is between batches. *)
RowsAreMemory ==
  loop \in {"top", "sleeping"} =>
    dbStatus = status /\ dbAttempt = attempt /\ dbWs = ws /\ dbWf = wf

(* From the dispatch of a batch to the save after it. *)
Batched == {"gather", "save_batch", "budget_save"}

Sent(t) == \E i \in 1 .. sent : RowOrder[i] = t

(* A batch leaves the other tasks alone, in memory, in the rows and in what *)
(* its coroutines send; and what its tasks, or tasks that began earlier,    *)
(* depend on are other tasks, that have passed.                             *)
RoundInv ==
  /\ loop \notin Batched => batch = {}
  /\ loop \in Batched =>
       \A t \in Tasks \ batch :
         /\ dbStatus[t] = status[t] /\ dbAttempt[t] = attempt[t]
         /\ Sent(t) => snapStatus[t] = status[t] /\ snapAttempt[t] = attempt[t]
  /\ loop \in Batched =>
       \A t \in Tasks : t \in batch \/ status[t] \in Active \cup {"PASSED"} =>
         \A d \in Deps[t] : status[d] = "PASSED" /\ d \notin batch

IInv == TypeOK /\ SnapInv /\ CoroutineInv /\ RowsAreMemory /\ RoundInv /\ DependencyOrder

(* Outside a batch there are no coroutines, and nothing is sent. *)
LEMMA NoneOutsideBatch ==
  ASSUME IInv, loop # "gather"
  PROVE  (\A t \in Tasks : pc[t] = "none") /\ WorkflowFree /\ sent = 0 /\ \A t \in Tasks : ~Sent(t)
<1>1. \A t \in Tasks : pc[t] = "none"
  BY DEF IInv, CoroutineInv, TypeOK
<1>2. sent = 0
  BY <1>1 DEF IInv, SnapInv, WorkflowFree
<1> QED BY <1>1, <1>2 DEF Sent, WorkflowFree

LEMMA InitInv == Init => IInv
<1> SUFFICES ASSUME Init PROVE IInv
  OBVIOUS
<1>1. CoroutineInv /\ RowsAreMemory /\ SnapInv
  BY DEF Init, CoroutineInv, RowsAreMemory, NoCoroutines, SnapInv
<1>2. RoundInv /\ DependencyOrder
  BY DEF Init, RoundInv, Batched, DependencyOrder, AllPending, Active
<1> QED BY <1>1, <1>2, InitType DEF IInv

(* Ends keeps what has passed and makes nothing active or passed. *)
LEMMA EndsOrder ==
  ASSUME IInv, NEW s \in {"SKIPPED", "FAILED"}
  PROVE  \A t \in Tasks :
           Ends(s)[t] \in Active \cup {"PASSED"} => DepsPassed(Ends(s), t)
<1> SUFFICES ASSUME NEW t \in Tasks, Ends(s)[t] \in Active \cup {"PASSED"}
             PROVE  \A d \in Deps[t] : Ends(s)[d] = "PASSED"
  BY DEF DepsPassed
<1>1. status[t] = "PASSED"
  BY DEF Ends, Active, Terminal
<1>2. \A d \in Deps[t] : d \in Tasks /\ status[d] = "PASSED"
  BY <1>1, DepsAssumption DEF IInv, DependencyOrder, DepsPassed
<1> QED BY <1>2 DEF Ends, Terminal

(* A step between batches, without coroutines before and after. *)
LEMMA QuietStep ==
  ASSUME IInv, TypeOK', \A t \in Tasks : pc[t] = "none", UNCHANGED <<pc, sent>>,
         RowsAreMemory', DependencyOrder', RoundInv'
  PROVE  IInv'
<1>1. SnapInv' /\ CoroutineInv'
  BY DEF IInv, SnapInv, WorkflowFree, CoroutineInv
<1> QED BY <1>1 DEF IInv

LEMMA LoopStepInv == IInv /\ LoopStep => IInv'
<1> SUFFICES ASSUME IInv, LoopStep PROVE IInv'
  OBVIOUS
<1> USE DEF mem, db, env, res, ends, hand, snap, round
<1>0. TypeOK'
  BY LoopStepType DEF IInv
<1>1. CASE PlanReturns \/ PlanFails \/ LeaveCompleted \/ CircuitOpen
           \/ LeaveStalled \/ Finalize
  <2>1. /\ loop \in {"planning", "top", "finalize"}
        /\ loop' \notin {"top", "sleeping"} \cup Batched
        /\ UNCHANGED <<pc, status, dbStatus, sent, batch>>
    BY <1>1 DEF PlanReturns, PlanFails, LeaveCompleted, Unfinished, Unhindered,
                CircuitOpen, LeaveStalled, NothingReady, Finalize, Batched
  <2>2. RowsAreMemory' /\ DependencyOrder' /\ RoundInv'
    BY <2>1 DEF IInv, RowsAreMemory, DependencyOrder, DepsPassed, RoundInv, Batched
  <2> QED BY <1>0, <2>1, <2>2, NoneOutsideBatch, QuietStep
<1>2. CASE WallTimeExceeded
  <2>1. /\ loop = "top" /\ loop' = "budget_save" /\ UNCHANGED <<pc, status, attempt, db, hand>>
    BY <1>2 DEF WallTimeExceeded, Unfinished
  <2>2. batch = {} /\ dbStatus = status /\ dbAttempt = attempt /\ \A t \in Tasks : ~Sent(t)
    BY <2>1, NoneOutsideBatch DEF IInv, RoundInv, Batched, RowsAreMemory
  <2>3. RoundInv'
    BY <2>1, <2>2 DEF IInv, RoundInv, Sent, DependencyOrder, DepsPassed
  <2>4. RowsAreMemory' /\ DependencyOrder'
    BY <2>1 DEF IInv, RowsAreMemory, DependencyOrder, DepsPassed
  <2> QED BY <1>0, <2>1, <2>3, <2>4, NoneOutsideBatch, QuietStep
<1>3. CASE Sleep \/ Wake
  <2>1. /\ loop \in {"top", "sleeping"} /\ loop' \in {"top", "sleeping"} /\ UNCHANGED <<pc, mem, db, hand>>
    BY <1>3 DEF Sleep, Wake, NothingReady, Unhindered, Unfinished
  <2>2. RowsAreMemory' /\ DependencyOrder' /\ RoundInv'
    BY <2>1 DEF IInv, RowsAreMemory, DependencyOrder, DepsPassed, RoundInv, Batched
  <2> QED BY <1>0, <2>1, <2>2, NoneOutsideBatch, QuietStep
<1>4. CASE ObeyCancel \/ SaveCircuitOpen
  <2>1. PICK s \in {"SKIPPED", "FAILED"} : status' = Ends(s)
    BY <1>4 DEF ObeyCancel, SaveCircuitOpen, Checkpoint
  <2>2. /\ loop \in {"top", "circuit_save"} /\ loop' \in {"cancel_save", "finalize"}
        /\ UNCHANGED <<pc, sent, batch>>
        /\ dbStatus' \in {dbStatus, status}
    BY <1>4 DEF ObeyCancel, SaveCircuitOpen, Checkpoint, SaveState, UpsertWorkflow,
                UpsertWorkstreams, UpsertTasks, Unfinished
  <2>3. RowsAreMemory' /\ RoundInv'
    BY <2>2 DEF RowsAreMemory, IInv, RoundInv, Batched
  <2>4. DependencyOrder'
    BY <2>1, <2>2, EndsOrder DEF IInv, DependencyOrder, DepsPassed
  <2> QED BY <1>0, <2>2, <2>3, <2>4, NoneOutsideBatch, QuietStep
<1>5. CASE Dispatch
  <2>1. /\ loop = "top" /\ loop' = "gather" /\ UNCHANGED <<mem, db, sent>>
        /\ batch' = ReadyTasks(status)
        /\ \A t \in Tasks : pc'[t] = IF t \in batch' THEN "queued" ELSE "none"
    BY <1>5 DEF Dispatch, Unhindered, Unfinished
  <2>2. dbStatus = status /\ dbAttempt = attempt /\ sent = 0
    BY <2>1, NoneOutsideBatch DEF IInv, RowsAreMemory
  <2>3. \A t \in ReadyTasks(status) : status[t] = "PENDING" /\ DepsPassed(status, t)
    BY DEF ReadyTasks, With
  <2>4. CoroutineInv' /\ SnapInv'
    BY <2>1, <2>2, <2>3 DEF CoroutineInv, SnapInv
  <2>5. RoundInv'
    BY <2>1, <2>2, <2>3 DEF IInv, RoundInv, Batched, Sent, DependencyOrder, DepsPassed
  <2>6. RowsAreMemory' /\ DependencyOrder'
    BY <2>1 DEF IInv, RowsAreMemory, DependencyOrder, DepsPassed
  <2> QED BY <1>0, <2>4, <2>5, <2>6 DEF IInv
<1>6. CASE Gathered
  <2>1. /\ \A t \in Tasks : pc[t] = "none"
        /\ loop = "gather" /\ loop' \in {"budget_save", "save_batch"}
        /\ UNCHANGED <<pc, status, attempt, db, hand>>
    BY <1>6 DEF Gathered, AfterGather
  <2>2. RowsAreMemory' /\ DependencyOrder'
    BY <2>1 DEF IInv, RowsAreMemory, DependencyOrder, DepsPassed
  <2>3. RoundInv'
    BY <2>1 DEF IInv, RoundInv, Batched, Sent
  <2> QED BY <1>0, <2>1, <2>2, <2>3, QuietStep
<1>7. CASE SavePlan \/ SaveBatch \/ SaveResume \/ SaveBudgetFailure \/ SaveCancel \/ SaveFinal
  <2>1. /\ loop # "gather" /\ SaveState /\ UNCHANGED <<pc, mem, sent>>
        /\ loop' \notin Batched
        /\ batch' = {} \/ (loop \notin Batched /\ batch' = batch)
    BY <1>7 DEF SavePlan, SaveBatch, SaveResume, SaveBudgetFailure, SaveThen, SaveCancel,
                SaveFinal, Batched, EndBatch
  <2>2. RowsAreMemory' /\ DependencyOrder' /\ RoundInv'
    BY <2>1 DEF IInv, RowsAreMemory, DependencyOrder, DepsPassed, SaveState,
                UpsertWorkflow, UpsertWorkstreams, UpsertTasks, RoundInv
  <2> QED BY <1>0, <2>1, <2>2, NoneOutsideBatch, QuietStep
<1> QED
  BY <1>1, <1>2, <1>3, <1>4, <1>5, <1>6, <1>7 DEF LoopStep

(* During a batch the order of the rows follows from what the batch leaves  *)
(* alone.                                                                   *)
InBatch == loop \in Batched

LEMMA BatchOrder == InBatch /\ RoundInv => DependencyOrder
<1> SUFFICES ASSUME InBatch, RoundInv PROVE DependencyOrder
  OBVIOUS
<1> USE DEF InBatch
<1>1. \A t \in Tasks : status[t] \in Active \cup {"PASSED"} => DepsPassed(status, t)
  BY DEF RoundInv, DepsPassed
<1>2. ASSUME NEW t \in Tasks, dbStatus[t] \in Active \cup {"PASSED"}
      PROVE  DepsPassed(dbStatus, t)
  <2>1. \A d \in Deps[t] : d \in Tasks /\ status[d] = "PASSED" /\ d \notin batch
    BY <1>2, DepsAssumption DEF RoundInv
  <2> QED BY <2>1 DEF RoundInv, DepsPassed
<1> QED BY <1>1, <1>2 DEF DependencyOrder

(* A step of a coroutine moves its own task only, and keeps what has        *)
(* passed.  It may write its own row, send a row, or commit what was sent.  *)
LEMMA OwnRowOnly ==
  ASSUME IInv, TypeOK', NEW t \in Tasks, pc[t] # "none", loop' = loop, batch' = batch,
         status[t] = "PASSED" => status' = status,
         \A u \in Tasks \ {t} : status'[u] = status[u] /\ attempt'[u] = attempt[u] /\ pc'[u] = pc[u],
         \/ \A u \in Tasks \ {t} : dbStatus'[u] = dbStatus[u] /\ dbAttempt'[u] = dbAttempt[u]
         \/ /\ \A u \in Tasks : Sent(u)
            /\ dbStatus' = snapStatus /\ dbAttempt' = snapAttempt,
         \A u \in Tasks \ {t} : Sent(u)' =>
           \/ Sent(u) /\ snapStatus'[u] = snapStatus[u] /\ snapAttempt'[u] = snapAttempt[u]
           \/ snapStatus'[u] = status[u] /\ snapAttempt'[u] = attempt[u],
         SnapInv',
         pc'[t] = "storing" => pc[t] = "storing" \/ WorkflowFree,
         pc'[t] \in {"queued", "has_global", "admitted"} => status'[t] = "PENDING",
         pc'[t] = "executing" => status'[t] = "IN_PROGRESS",
         pc'[t] = "verifying" => status'[t] = "VERIFYING"
  PROVE  IInv'
<1>1. loop = "gather" /\ t \in batch /\ loop \in Batched
  BY DEF IInv, CoroutineInv, Batched
<1>2. \A u \in Tasks : status[u] = "PASSED" => status'[u] = "PASSED"
  BY DEF IInv, TypeOK
<1>3. CoroutineInv'
  <2> SUFFICES ASSUME NEW u \in Tasks
               PROVE  CoroutineInv!(u)'
    BY DEF CoroutineInv
  <2>1. CASE u = t
    <3>1. pc'[t] = "storing" => \A v \in Tasks \ {t} : pc'[v] # "storing"
      BY DEF IInv, CoroutineInv, WorkflowFree
    <3> QED BY <1>1, <2>1, <3>1
  <2>2. CASE u # t
    <3>1. pc'[u] = pc[u] /\ status'[u] = status[u]
      BY <2>2
    <3>2. pc[u] = "storing" => pc'[t] # "storing"
      BY <2>2 DEF IInv, CoroutineInv, WorkflowFree
    <3>3. pc[u] = "storing" => \A v \in Tasks \ {u} : pc'[v] # "storing"
      BY <3>2 DEF IInv, CoroutineInv
    <3> QED BY <1>1, <3>1, <3>3 DEF IInv, CoroutineInv
  <2> QED BY <2>1, <2>2
<1>4. RoundInv'
  <2>1. ASSUME NEW u \in Tasks \ batch
        PROVE  /\ dbStatus'[u] = status'[u] /\ dbAttempt'[u] = attempt'[u]
               /\ Sent(u)' => snapStatus'[u] = status'[u] /\ snapAttempt'[u] = attempt'[u]
    <3>1. u \in Tasks \ {t} /\ status'[u] = status[u] /\ attempt'[u] = attempt[u]
      BY <1>1, <2>1
    <3>2. /\ dbStatus[u] = status[u] /\ dbAttempt[u] = attempt[u]
          /\ Sent(u) => snapStatus[u] = status[u] /\ snapAttempt[u] = attempt[u]
      BY <1>1, <2>1 DEF IInv, RoundInv
    <3>3. dbStatus'[u] = status[u] /\ dbAttempt'[u] = attempt[u]
      BY <3>1, <3>2
    <3>4. Sent(u)' => snapStatus'[u] = status[u] /\ snapAttempt'[u] = attempt[u]
      BY <3>1, <3>2
    <3> QED BY <3>1, <3>3, <3>4
  <2>2. ASSUME NEW u \in Tasks, u \in batch \/ status'[u] \in Active \cup {"PASSED"}, NEW d \in Deps[u]
        PROVE  status'[d] = "PASSED" /\ d \notin batch
    <3>1. u \in batch \/ status[u] \in Active \cup {"PASSED"}
      BY <1>1, <2>2
    <3>2. d \in Tasks /\ status[d] = "PASSED" /\ d \notin batch
      BY <1>1, <3>1, DepsAssumption DEF IInv, RoundInv
    <3> QED BY <1>2, <3>2
  <2> QED BY <1>1, <2>1, <2>2 DEF RoundInv
<1>5. RowsAreMemory' /\ DependencyOrder'
  <2>1. InBatch'
    BY <1>1 DEF InBatch
  <2>2. DependencyOrder'
    BY <1>4, <2>1, BatchOrder, PTL
  <2> QED BY <1>1, <2>2 DEF RowsAreMemory
<1> QED BY <1>3, <1>4, <1>5 DEF IInv

(* What is sent after one more row, and after the last. *)
LEMMA SendRowSent ==
  ASSUME TypeOK, SendRow, sent < Len(RowOrder), NEW u \in Tasks, Sent(u)'
  PROVE  \/ Sent(u) /\ snapStatus'[u] = snapStatus[u] /\ snapAttempt'[u] = snapAttempt[u]
         \/ snapStatus'[u] = status[u] /\ snapAttempt'[u] = attempt[u]
<1> DEFINE r == RowOrder[sent + 1]
<1>1. Len(RowOrder) \in Nat /\ sent \in 0 .. Len(RowOrder) /\ sent' = sent + 1
  BY RowAssumption DEF TypeOK, SendRow
<1>2. PICK i \in 1 .. sent' : RowOrder[i] = u
  BY DEF Sent
<1>3. CASE u = r
  <2>1. r \in Tasks
    BY <1>3
  <2>2. snapStatus' = [snapStatus EXCEPT ![r] = status[r]] /\ snapAttempt' = [snapAttempt EXCEPT ![r] = attempt[r]]
    BY <2>1 DEF SendRow
  <2> QED BY <1>3, <2>2 DEF TypeOK
<1>4. CASE u # r
  <2>1. i # sent + 1
    BY <1>2, <1>4
  <2>2. i \in 1 .. sent
    BY <1>1, <1>2, <2>1
  <2>3. Sent(u)
    BY <1>2, <2>2 DEF Sent
  <2>4. snapStatus'[u] = snapStatus[u] /\ snapAttempt'[u] = snapAttempt[u]
    <3>1. CASE r \in Tasks
      BY <1>4, <3>1 DEF SendRow, TypeOK
    <3>2. CASE r \notin Tasks
      BY <3>2 DEF SendRow
    <3> QED BY <3>1, <3>2
  <2> QED BY <2>3, <2>4
<1> QED BY <1>3, <1>4

LEMMA AllSent == ASSUME sent = Len(RowOrder), NEW u \in Tasks PROVE Sent(u)
BY RowAssumption DEF Sent

LEMMA NothingSent == ASSUME EndTransaction, NEW u PROVE ~Sent(u)'
BY DEF EndTransaction, Sent

(* Only a transaction has sent something, before and after a step. *)
LEMMA SnapKept ==
  ASSUME IInv, NEW t \in Tasks, TaskStep(t) \/ Raises(t)
  PROVE  SnapInv'
<1> USE DEF mem, db, env, res, ends, hand, snap, round
<1>0. TypeOK /\ SnapInv
  BY DEF IInv
<1>1. CASE LockWorkflow(t) \/ StoreRow(t)
  <2>1. pc'[t] = "storing"
    BY <1>0, <1>1 DEF LockWorkflow, StoreRow, Goto, TypeOK
  <2> QED BY <2>1 DEF SnapInv, WorkflowFree
<1>2. CASE CommitSave(t)
  BY <1>2 DEF CommitSave, EndTransaction, SnapInv
<1>3. CASE Raises(t) /\ pc[t] = "storing"
  BY <1>3 DEF Raises, EndTransaction, SnapInv
<1>4. CASE /\ \/ RejectUnassigned(t) \/ AcquireGlobal(t) \/ AcquireAgent(t) \/ Start(t)
              \/ UpdateTask(t) \/ SendWorkflow(t) \/ AgentReturns(t) \/ VerifierReturns(t)
              \/ UpdateCounters(t) \/ Raises(t)
           /\ pc[t] # "storing"
  <2>1. sent' = sent
    BY <1>4 DEF RejectUnassigned, AcquireGlobal, AcquireAgent, Start, UpdateTask, SendWorkflow,
                AgentReturns, VerifierReturns, UpdateCounters, Raises
  <2>2. \E place : pc' = [pc EXCEPT ![t] = place]
    BY <1>4 DEF RejectUnassigned, AcquireGlobal, AcquireAgent, Start, UpdateTask, SendWorkflow,
                Proceed, AgentReturns, VerifierReturns, UpdateCounters, Raises, Goto
  <2>3. WorkflowFree' => WorkflowFree
    BY <1>0, <1>4, <2>2 DEF WorkflowFree, TypeOK
  <2> QED BY <1>0, <2>1, <2>3 DEF SnapInv
<1> QED
  BY <1>1, <1>2, <1>3, <1>4
     DEF TaskStep, RejectUnassigned, AcquireGlobal, AcquireAgent, Start, UpdateTask, SendWorkflow,
         AgentReturns, VerifierReturns, UpdateCounters

LEMMA TaskStepInv == ASSUME NEW t \in Tasks, IInv, TaskStep(t) PROVE IInv'
<1> USE DEF mem, db, env, res, ends, hand, snap, round
<1>0. TypeOK /\ TypeOK' /\ SnapInv'
  BY TaskStepType, SnapKept DEF IInv
<1>a. UNCHANGED <<sent, snap>> => \A u \in Tasks : Sent(u)' =>
        Sent(u) /\ snapStatus'[u] = snapStatus[u] /\ snapAttempt'[u] = snapAttempt[u]
  BY DEF Sent
<1>1. CASE RejectUnassigned(t) \/ AcquireGlobal(t) \/ AcquireAgent(t) \/ Start(t)
  <2>1. pc[t] \in {"queued", "has_global", "admitted"} /\ status[t] = "PENDING"
    BY <1>1 DEF RejectUnassigned, AcquireGlobal, AcquireAgent, Start, IInv, CoroutineInv
  <2>2. /\ loop' = loop /\ batch' = batch /\ UNCHANGED <<dbStatus, dbAttempt, sent, snap>>
        /\ \A u \in Tasks \ {t} : status'[u] = status[u] /\ attempt'[u] = attempt[u] /\ pc'[u] = pc[u]
    BY <1>0, <1>1
       DEF RejectUnassigned, AcquireGlobal, AcquireAgent, Start, SetStatus, Goto, TypeOK
  <2>3. \/ pc'[t] = "writing"
        \/ pc'[t] \in {"has_global", "admitted"} /\ status' = status
    BY <1>0, <1>1 DEF RejectUnassigned, AcquireGlobal, AcquireAgent, Start, Goto, TypeOK
  <2> QED BY <1>0, <1>a, <2>1, <2>2, <2>3, OwnRowOnly DEF IInv
<1>2. Proceed(t) => /\ pc'[t] \in {"counting", "executing", "verifying", "none"}
                    /\ pc'[t] = "executing" => status[t] = "IN_PROGRESS"
                    /\ pc'[t] = "verifying" => status[t] = "VERIFYING"
                    /\ \A u \in Tasks \ {t} : pc'[u] = pc[u]
  BY <1>0 DEF Proceed, Goto, TypeOK
<1>3. CASE UpdateTask(t)
  <2>1. /\ pc[t] = "writing" /\ loop' = loop /\ batch' = batch /\ UNCHANGED <<status, attempt, sent, snap>>
        /\ dbStatus' = [dbStatus EXCEPT ![t] = status[t]]
        /\ dbAttempt' = [dbAttempt EXCEPT ![t] = attempt[t]]
        /\ Proceed(t) \/ pc' = [pc EXCEPT ![t] = "saving"]
    BY <1>3 DEF UpdateTask, Goto
  <2>2. /\ \A u \in Tasks \ {t} : pc'[u] = pc[u]
        /\ pc'[t] \in {"counting", "executing", "verifying", "none", "saving"}
        /\ pc'[t] = "executing" => status[t] = "IN_PROGRESS"
        /\ pc'[t] = "verifying" => status[t] = "VERIFYING"
    BY <1>0, <1>2, <2>1 DEF TypeOK
  <2>3. \A u \in Tasks \ {t} : dbStatus'[u] = dbStatus[u] /\ dbAttempt'[u] = dbAttempt[u]
    BY <1>0, <2>1 DEF TypeOK
  <2> QED BY <1>0, <1>a, <2>1, <2>2, <2>3, OwnRowOnly
<1>4. CASE SendWorkflow(t)
  <2>1. /\ pc[t] = "saving" /\ loop' = loop /\ batch' = batch
        /\ UNCHANGED <<status, attempt, sent, snap, dbStatus, dbAttempt>>
        /\ pc'[t] = "locking" /\ \A u \in Tasks \ {t} : pc'[u] = pc[u]
    BY <1>0, <1>4 DEF SendWorkflow, Goto, TypeOK
  <2> QED BY <1>0, <1>a, <2>1, OwnRowOnly
<1>5. CASE LockWorkflow(t) \/ StoreRow(t)
  <2>1. /\ pc[t] # "none" /\ loop' = loop /\ batch' = batch
        /\ UNCHANGED <<status, attempt, dbStatus, dbAttempt>>
        /\ pc'[t] = "storing" /\ \A u \in Tasks \ {t} : pc'[u] = pc[u]
        /\ pc[t] = "storing" \/ WorkflowFree
        /\ SendRow /\ sent < Len(RowOrder)
    BY <1>0, <1>5, RowsThere DEF LockWorkflow, StoreRow, Goto, TypeOK, IInv, SnapInv
  <2> QED BY <1>0, <2>1, SendRowSent, OwnRowOnly
<1>6. CASE CommitSave(t)
  <2>1. /\ pc[t] = "storing" /\ loop' = loop /\ batch' = batch /\ UNCHANGED <<status, attempt>>
        /\ dbStatus' = snapStatus /\ dbAttempt' = snapAttempt
        /\ Proceed(t) /\ EndTransaction /\ sent = Len(RowOrder)
    BY <1>6 DEF CommitSave
  <2> QED BY <1>0, <1>2, <2>1, AllSent, NothingSent, OwnRowOnly
<1>7. AttemptFails(t) => \A u \in Tasks \ {t} : status'[u] = status[u]
  BY <1>0 DEF AttemptFails, SetStatus, TypeOK
<1>8. CASE AgentReturns(t) \/ VerifierReturns(t)
  <2>1. pc[t] \in {"executing", "verifying"} /\ status[t] # "PASSED"
    BY <1>8 DEF AgentReturns, VerifierReturns, IInv, CoroutineInv
  <2>2. loop' = loop /\ batch' = batch /\ UNCHANGED <<attempt, dbStatus, dbAttempt, sent, snap>>
    BY <1>8 DEF AgentReturns, VerifierReturns
  <2>3. \A u \in Tasks \ {t} : status'[u] = status[u] /\ pc'[u] = pc[u]
    BY <1>0, <1>7, <1>8 DEF AgentReturns, VerifierReturns, SetStatus, Goto, TypeOK
  <2>4. pc'[t] \in {"writing", "none"}
    BY <1>0, <1>8 DEF AgentReturns, VerifierReturns, Goto, TypeOK
  <2> QED BY <1>0, <1>a, <2>1, <2>2, <2>3, <2>4, OwnRowOnly
<1>9. CASE UpdateCounters(t)
  <2>1. /\ pc[t] = "counting" /\ loop' = loop /\ batch' = batch
        /\ UNCHANGED <<status, attempt, dbStatus, dbAttempt, sent, snap>>
        /\ pc'[t] = "none" /\ \A u \in Tasks \ {t} : pc'[u] = pc[u]
    BY <1>0, <1>9 DEF UpdateCounters, Goto, TypeOK
  <2> QED BY <1>0, <1>a, <2>1, OwnRowOnly
<1> QED
  BY <1>1, <1>3, <1>4, <1>5, <1>6, <1>8, <1>9 DEF TaskStep

LEMMA OtherStepInv ==
  ASSUME IInv,
         \/ \E t \in Tasks : Raises(t)
         \/ Cancel \/ WallClock \/ BreakerCools \/ Crash \/ Resume \/ Finished
         \/ UNCHANGED vars
  PROVE  IInv'
<1> USE DEF mem, db, env, res, ends, hand, snap, round
<1>0. TypeOK /\ TypeOK'
  BY OtherStepType DEF IInv
<1>1. ASSUME NEW t \in Tasks, Raises(t) PROVE IInv'
  <2>1. /\ pc[t] # "none" /\ loop' = loop /\ batch' = batch
        /\ UNCHANGED <<status, attempt, dbStatus, dbAttempt>>
        /\ pc'[t] = "none" /\ \A u \in Tasks \ {t} : pc'[u] = pc[u]
    BY <1>0, <1>1 DEF Raises, Goto, InTask, InSave, TypeOK
  <2>2. \A u \in Tasks : Sent(u)' =>
          Sent(u) /\ snapStatus'[u] = snapStatus[u] /\ snapAttempt'[u] = snapAttempt[u]
    <3>1. CASE EndTransaction
      BY <3>1, NothingSent
    <3>2. CASE UNCHANGED <<sent, snap>>
      BY <3>2 DEF Sent
    <3> QED BY <1>1, <3>1, <3>2 DEF Raises
  <2>3. SnapInv'
    BY <1>1, SnapKept
  <2> QED BY <1>0, <2>1, <2>2, <2>3, OwnRowOnly
<1>2. CASE Cancel \/ WallClock \/ BreakerCools \/ Finished \/ UNCHANGED vars
  <2>1. UNCHANGED <<loop, pc, mem, db, hand>>
    BY <1>2 DEF Cancel, WallClock, BreakerCools, Finished, vars
  <2>2. CoroutineInv' /\ SnapInv' /\ RowsAreMemory'
    BY <2>1 DEF IInv, CoroutineInv, SnapInv, WorkflowFree, RowsAreMemory
  <2>3. DependencyOrder' /\ RoundInv'
    BY <2>1 DEF IInv, RoundInv, Sent, DependencyOrder, DepsPassed
  <2> QED BY <1>0, <2>2, <2>3 DEF IInv
<1>3. CASE Crash
  <2>1. /\ loop' = "down" /\ (\A t \in Tasks : pc'[t] = "none") /\ UNCHANGED <<mem, db>>
        /\ sent' = 0 /\ batch' = {}
    BY <1>3 DEF Crash, NoCoroutines, EndTransaction, EndBatch
  <2>2. CoroutineInv' /\ SnapInv' /\ RowsAreMemory' /\ RoundInv'
    BY <2>1 DEF CoroutineInv, SnapInv, RowsAreMemory, RoundInv, Batched
  <2>3. DependencyOrder'
    BY <2>1 DEF IInv, DependencyOrder, DepsPassed
  <2> QED BY <1>0, <2>2, <2>3 DEF IInv
<1>4. CASE Resume
  <2>1. /\ loop \in {"done", "down"} /\ loop' = "resume_save" /\ status' = dbStatus
        /\ UNCHANGED <<pc, dbStatus, sent, batch>>
    BY <1>4 DEF Resume, LoadState, Running
  <2>2. RowsAreMemory' /\ DependencyOrder' /\ RoundInv'
    BY <2>1 DEF IInv, RowsAreMemory, DependencyOrder, DepsPassed, RoundInv, Batched
  <2> QED BY <1>0, <2>1, <2>2, NoneOutsideBatch, QuietStep
<1> QED BY <1>1, <1>2, <1>3, <1>4

LEMMA InductiveInvariant == Spec => []IInv
<1>1. IInv /\ [Next]_vars => IInv'
  BY LoopStepInv, TaskStepInv, OtherStepInv DEF Next
<1> QED BY InitInv, <1>1, PTL DEF Spec

(* Type correctness: every variable of the orchestrator stays in its type,  *)
(* so no step writes a status the code's enums do not have.                 *)
THEOREM TypeCorrect == Spec => []TypeOK
<1>1. IInv => TypeOK
  BY DEF IInv
<1> QED BY InductiveInvariant, <1>1, PTL

(* No task runs or has passed, in memory or in the rows, before everything  *)
(* it depends on has passed, whatever raises, dies and is resumed.          *)
THEOREM DependencyOrderHolds == Spec => []DependencyOrder
<1>1. IInv => DependencyOrder
  BY DEF IInv
<1> QED BY InductiveInvariant, <1>1, PTL

(* Whenever the main loop is between batches, the rows equal the memory.    *)
THEOREM BarrierDurableHolds == Spec => []BarrierDurable
<1>1. IInv => BarrierDurable
  BY DEF IInv, RowsAreMemory, BarrierDurable
<1> QED BY InductiveInvariant, <1>1, PTL

-----------------------------------------------------------------------------
(* A broken limit is remembered by the batch that broke it, and there is no *)
(* broken limit anywhere else before the workflow has failed.               *)
LimitBroken == TokensExceeded(tokens) \/ TasksExceeded(passes)

BudgetInv ==
  /\ LimitBroken => loop \in {"gather", "budget_save", "done", "down"}
  /\ LimitBroken /\ loop = "gather" => overBudget
  /\ LimitBroken /\ loop = "done" => dbWf.status = "FAILED"
  /\ loop = "budget_save" => wf.status = "FAILED"

LEMMA BudgetInvariant == Spec => []BudgetInv
<1> USE DEF mem, db, env, res, ends, hand, snap, round
<1>1. Init => BudgetInv
  BY OrchestratorAssumption DEF Init, BudgetInv, LimitBroken, TokensExceeded, TasksExceeded
<1>2. ASSUME IInv, BudgetInv, [Next]_vars PROVE BudgetInv'
  <2>0. TypeOK
    BY <1>2 DEF IInv
  <2>1. CASE UNCHANGED <<tokens, passes, overBudget>> /\ LoopStep
    <3>1. UNCHANGED LimitBroken
      BY <2>1 DEF LimitBroken
    <3>2. \/ loop' \in {"plan_save", "done"} /\ loop = "planning"
          \/ loop' \in {"finalize", "cancel_save", "circuit_save", "sleeping"} /\ loop = "top"
          \/ loop' = "budget_save" /\ loop = "top" /\ wf'.status = "FAILED"
          \/ loop' = "top" /\ loop \in {"sleeping", "plan_save", "save_batch", "resume_save"}
          \/ loop' = "save_batch" /\ loop = "gather" /\ ~overBudget
          \/ loop' = "budget_save" /\ loop = "gather" /\ wf'.status = "FAILED"
          \/ loop' = "done" /\ loop = "budget_save" /\ dbWf' = wf
          \/ loop' = "finalize" /\ loop \in {"cancel_save", "circuit_save"}
          \/ loop' = "final_save" /\ loop = "finalize"
          \/ loop' = "done" /\ loop = "final_save"
          \/ loop' = "gather" /\ loop = "top"
      BY <2>0, <2>1 DEF LoopStep, PlanReturns, PlanFails, LeaveCompleted, Unfinished,
                        Unhindered,
         WallTimeExceeded, ObeyCancel, CircuitOpen, Dispatch, LeaveStalled, Sleep, NothingReady,
         Wake, Gathered, AfterGather, SavePlan, SaveBatch, SaveResume, SaveBudgetFailure,
         SaveThen,
         SaveState, UpsertWorkflow, UpsertWorkstreams, UpsertTasks, SaveCancel,
         SaveCircuitOpen, Checkpoint, Finalize, SaveFinal, TypeOK, Workflow
    <3> QED BY <1>2, <3>1, <3>2 DEF BudgetInv
  <2>2. CASE Dispatch
    BY <1>2, <2>2 DEF Dispatch, Unhindered, Unfinished, BudgetInv, LimitBroken
  <2>3. ASSUME NEW t \in Tasks, TaskStep(t) \/ Raises(t) PROVE BudgetInv'
    <3>1. pc[t] # "none" /\ loop' = loop
      BY <2>3 DEF TaskStep, RejectUnassigned, AcquireGlobal, AcquireAgent, Start, UpdateTask,
                  SendWorkflow, LockWorkflow, StoreRow, CommitSave,
                  AgentReturns, VerifierReturns, UpdateCounters, Raises, InTask, InSave
    <3>2. loop = "gather"
      BY <1>2, <3>1 DEF IInv, CoroutineInv
    <3>3. LimitBroken' => overBudget'
      <4>1. CASE AgentReturns(t)
        <5>1. PICK cost \in TokenCosts : AgentReturns(t)!2!(cost)
          BY <4>1 DEF AgentReturns
        <5>2. passes' = passes
          BY <4>1 DEF AgentReturns
        <5>3. cost > 0 \/ tokens' = tokens
          BY <2>0, <5>1, OrchestratorAssumption DEF TypeOK
        <5> QED
          BY <1>2, <3>2, <5>1, <5>2, <5>3 DEF BudgetInv, LimitBroken
      <4>2. CASE UpdateCounters(t)
        BY <1>2, <3>2, <4>2 DEF UpdateCounters, BudgetInv, LimitBroken
      <4>3. CASE Raises(t)
        <5>1. PICK cost \in {0} \cup TokenCosts :
                /\ cost > 0 => ~TokensExceeded(tokens + cost)
                /\ tokens' = tokens + cost
          BY <4>3 DEF Raises
        <5>2. cost > 0 \/ tokens' = tokens
          BY <2>0, <5>1, OrchestratorAssumption DEF TypeOK
        <5>3. UNCHANGED <<passes, overBudget>>
          BY <4>3 DEF Raises
        <5> QED
          BY <1>2, <3>2, <5>1, <5>2, <5>3 DEF BudgetInv, LimitBroken
      <4>4. CASE UNCHANGED <<tokens, passes, overBudget>>
        BY <1>2, <3>2, <4>4 DEF BudgetInv, LimitBroken
      <4> QED
        BY <2>3, <4>1, <4>2, <4>3, <4>4
           DEF TaskStep, RejectUnassigned, AcquireGlobal, AcquireAgent, Start, UpdateTask,
               SendWorkflow, LockWorkflow, StoreRow, CommitSave,
               VerifierReturns
    <3> QED BY <3>1, <3>2, <3>3 DEF BudgetInv
  <2>4. CASE Cancel \/ WallClock \/ BreakerCools \/ Finished \/ UNCHANGED vars
    <3>1. UNCHANGED <<loop, wf, dbWf, tokens, passes, overBudget>>
      BY <2>4 DEF Cancel, WallClock, BreakerCools, Finished, vars
    <3> QED BY <1>2, <3>1 DEF BudgetInv, LimitBroken
  <2>5. CASE Crash \/ Resume
    BY <2>5, OrchestratorAssumption
       DEF Crash, Resume, LoadState, BudgetInv, LimitBroken, TokensExceeded, TasksExceeded
  <2>6. LoopStep => Dispatch \/ UNCHANGED <<tokens, passes, overBudget>>
    BY DEF LoopStep, PlanReturns, PlanFails, LeaveCompleted, WallTimeExceeded, ObeyCancel,
           CircuitOpen, LeaveStalled, Sleep, NothingReady, Wake, Gathered, SavePlan, SaveBatch,
           SaveResume, SaveBudgetFailure, SaveThen, SaveCancel, SaveCircuitOpen, Checkpoint,
           Finalize, SaveFinal
  <2> QED BY <1>2, <2>1, <2>2, <2>3, <2>4, <2>5, <2>6 DEF Next
<1> QED BY <1>1, <1>2, InductiveInvariant, PTL DEF Spec

(* Once a token or task limit is broken the batch at hand is the last one,  *)
(* and the workflow is committed as FAILED.                                 *)
THEOREM BudgetEndsHolds == Spec => []BudgetEnds
<1>1. BudgetInv => BudgetEnds
  BY DEF BudgetInv, LimitBroken, BudgetEnds
<1> QED BY BudgetInvariant, <1>1, PTL

-----------------------------------------------------------------------------
(* The orchestrator implements the ledger of its committed rows.           *)

RowIsMemory(t) == dbStatus[t] = status[t] /\ dbAttempt[t] = attempt[t]

(* What a task with b attempts before the batch can have been since: as     *)
(* Ledger!HasBeen says.                                                     *)
Left(n) == n = 0 \/ n < MaxRetries
Been(t, s, k, b) ==
  \/ s = "PENDING" /\ k = b
  \/ s = "FAILED" /\ k = b /\ AgentOf[t] = NoAgent
  \/ /\ AgentOf[t] # NoAgent /\ k = b + 1
     /\ \/ s \in {"IN_PROGRESS", "VERIFYING", "PASSED"}
        \/ s = "PENDING" /\ Left(k)
        \/ s = "FAILED" /\ ~Left(k)

(* In memory, in the rows and in what is sent, a task of the batch is       *)
(* something it has been since the batch began.                             *)
BeenInv ==
  /\ batch = {} => before = NoAttempts
  /\ \A t \in batch :
       /\ Left(before[t])
       /\ Been(t, status[t], attempt[t], before[t])
       /\ Been(t, dbStatus[t], dbAttempt[t], before[t])
       /\ Sent(t) => Been(t, snapStatus[t], snapAttempt[t], before[t])
       /\ pc[t] \in {"queued", "has_global", "admitted"} => attempt[t] = before[t]
       /\ pc[t] \in {"has_global", "admitted"} => AgentOf[t] # NoAgent

(* Outside batches memory equals the rows, or has ended every open task.    *)
EndsInv ==
  /\ loop \in {"planning", "plan_save", "top", "sleeping", "circuit_save", "resume_save"}
       => \A t \in Tasks : RowIsMemory(t)
  /\ loop = "cancel_save" => status = Ledger!Ended("SKIPPED") /\ attempt = dbAttempt
  /\ loop \in {"finalize", "final_save"} =>
       \/ \A t \in Tasks : RowIsMemory(t)
       \/ status = Ledger!Ended("FAILED") /\ attempt = dbAttempt

(* The workflow is IN_PROGRESS, in memory and in its row, while it runs; a  *)
(* verdict is decided only when the loop has been left.                     *)
WorkflowInv ==
  /\ loop \in {"plan_save", "resume_save", "top", "sleeping", "gather", "save_batch", "circuit_save"}
       => wf.status = "IN_PROGRESS"
  /\ loop = "gather" \/ batch # {} => dbWf.status = "IN_PROGRESS"
  /\ loop = "budget_save" => wf.status = "FAILED"
  /\ loop = "cancel_save" => wf.status = "CANCELLED"
  /\ loop = "final_save" => wf.status = FinalStatus
  /\ \A t \in Tasks : pc[t] \in {"locking", "storing", "counting"} => wfArg[t].status = "IN_PROGRESS"

(* A pending task has an attempt left. *)
AttemptsInv ==
  \A t \in Tasks :
    /\ status[t] = "PENDING" => Left(attempt[t])
    /\ dbStatus[t] = "PENDING" => Left(dbAttempt[t])

LInv == IInv /\ BeenInv /\ EndsInv /\ WorkflowInv /\ AttemptsInv

-----------------------------------------------------------------------------
(* A step of one coroutine keeps the invariant when its own task and row    *)
(* are then something the task has been, and it commits at most its own row *)
(* or everything sent.                                                      *)
LEMMA BatchStep ==
  ASSUME LInv, IInv', NEW t \in Tasks, pc[t] # "none", loop' = loop, UNCHANGED round,
         \A u \in Tasks \ {t} : /\ status'[u] = status[u] /\ attempt'[u] = attempt[u]
                               /\ pc'[u] = pc[u] /\ wfArg'[u] = wfArg[u],
         \/ \A u \in Tasks \ {t} : dbStatus'[u] = dbStatus[u] /\ dbAttempt'[u] = dbAttempt[u]
         \/ /\ \A u \in Tasks : Sent(u)
            /\ dbStatus' = snapStatus /\ dbAttempt' = snapAttempt,
         \A u \in Tasks : Sent(u)' =>
           \/ Sent(u) /\ snapStatus'[u] = snapStatus[u] /\ snapAttempt'[u] = snapAttempt[u]
           \/ snapStatus'[u] = status[u] /\ snapAttempt'[u] = attempt[u],
         wf'.status = wf.status, dbWf'.status = "IN_PROGRESS",
         pc'[t] \in {"locking", "storing", "counting"} => wfArg'[t].status = "IN_PROGRESS",
         Been(t, status'[t], attempt'[t], before[t]),
         Been(t, dbStatus'[t], dbAttempt'[t], before[t]),
         pc'[t] \in {"queued", "has_global", "admitted"} => attempt'[t] = before[t],
         pc'[t] \in {"has_global", "admitted"} => AgentOf[t] # NoAgent
  PROVE  LInv'
<1>1. /\ loop = "gather" /\ t \in batch /\ wf.status = "IN_PROGRESS"
      /\ batch' = batch /\ before' = before
  BY DEF LInv, IInv, CoroutineInv, WorkflowInv, round
<1>2. ASSUME NEW u \in batch
      PROVE  /\ Left(before[u])
             /\ Been(u, status'[u], attempt'[u], before[u])
             /\ Been(u, dbStatus'[u], dbAttempt'[u], before[u])
             /\ Sent(u)' => Been(u, snapStatus'[u], snapAttempt'[u], before[u])
             /\ pc'[u] \in {"queued", "has_global", "admitted"} => attempt'[u] = before[u]
             /\ pc'[u] \in {"has_global", "admitted"} => AgentOf[u] # NoAgent
  <2>0. u \in Tasks
    BY DEF LInv, IInv, TypeOK
  <2>1. /\ Left(before[u])
        /\ Been(u, status[u], attempt[u], before[u])
        /\ Been(u, dbStatus[u], dbAttempt[u], before[u])
        /\ Sent(u) => Been(u, snapStatus[u], snapAttempt[u], before[u])
        /\ pc[u] \in {"queued", "has_global", "admitted"} => attempt[u] = before[u]
        /\ pc[u] \in {"has_global", "admitted"} => AgentOf[u] # NoAgent
    BY DEF LInv, BeenInv
  <2>2. Been(u, status'[u], attempt'[u], before[u])
    BY <2>0, <2>1
  <2>3. Been(u, dbStatus'[u], dbAttempt'[u], before[u])
    BY <2>0, <2>1
  <2>4. Sent(u)' => Been(u, snapStatus'[u], snapAttempt'[u], before[u])
    BY <2>0, <2>1
  <2> QED BY <2>0, <2>1, <2>2, <2>3, <2>4
<1>3. BeenInv'
  BY <1>1, <1>2 DEF BeenInv
<1>4. AttemptsInv'
  <2> SUFFICES ASSUME NEW u \in Tasks
               PROVE  /\ status'[u] = "PENDING" => Left(attempt'[u])
                      /\ dbStatus'[u] = "PENDING" => Left(dbAttempt'[u])
    BY DEF AttemptsInv, Left
  <2>1. CASE u \in batch
    BY <1>2, <2>1 DEF Been
  <2>2. CASE u \notin batch
    <3>1. /\ status'[u] = status[u] /\ attempt'[u] = attempt[u]
          /\ dbStatus[u] = status[u] /\ dbAttempt[u] = attempt[u]
          /\ Sent(u) => snapStatus[u] = status[u] /\ snapAttempt[u] = attempt[u]
      BY <1>1, <2>2 DEF LInv, IInv, RoundInv, Batched
    <3>2. dbStatus'[u] = status[u] /\ dbAttempt'[u] = attempt[u]
      BY <1>1, <2>2, <3>1
    <3> QED BY <3>1, <3>2 DEF LInv, AttemptsInv
  <2> QED BY <2>1, <2>2
<1>5. EndsInv' /\ WorkflowInv'
  BY <1>1 DEF LInv, EndsInv, WorkflowInv
<1> QED BY <1>3, <1>4, <1>5 DEF LInv

(* What holds of a task whose coroutine is at work. *)
LEMMA AtWork ==
  ASSUME LInv, NEW t \in Tasks, pc[t] # "none"
  PROVE  /\ loop = "gather" /\ wf.status = "IN_PROGRESS" /\ dbWf.status = "IN_PROGRESS"
         /\ t \in batch /\ before[t] \in Nat /\ Left(before[t])
         /\ Been(t, status[t], attempt[t], before[t])
         /\ Been(t, dbStatus[t], dbAttempt[t], before[t])
         /\ Sent(t) => Been(t, snapStatus[t], snapAttempt[t], before[t])
         /\ pc[t] \in {"queued", "has_global", "admitted"} =>
              status[t] = "PENDING" /\ attempt[t] = before[t]
         /\ pc[t] \in {"has_global", "admitted"} => AgentOf[t] # NoAgent
BY DEF LInv, IInv, TypeOK, CoroutineInv, WorkflowInv, BeenInv

LEMMA SentSame ==
  ASSUME UNCHANGED <<sent, snap>>, NEW u, Sent(u)'
  PROVE  Sent(u) /\ snapStatus'[u] = snapStatus[u] /\ snapAttempt'[u] = snapAttempt[u]
BY DEF Sent, snap

LEMMA DispatchLInv ==
  ASSUME LInv, NEW t \in Tasks, IInv',
         RejectUnassigned(t) \/ AcquireGlobal(t) \/ AcquireAgent(t) \/ Start(t)
  PROVE  LInv'
<1> USE DEF mem, db, env, res, ends, hand
<1>0. TypeOK /\ TypeOK'
  BY DEF LInv, IInv
<1>1. /\ pc[t] \in {"queued", "has_global", "admitted"} /\ pc[t] # "none"
      /\ loop' = loop /\ UNCHANGED <<wf, wfArg, sent, snap, round, dbStatus, dbAttempt, dbWf>>
      /\ \A u \in Tasks \ {t} : /\ status'[u] = status[u] /\ attempt'[u] = attempt[u]
                               /\ pc'[u] = pc[u]
  BY <1>0 DEF RejectUnassigned, AcquireGlobal, AcquireAgent, Start, SetStatus, Goto, TypeOK
<1>2. status[t] = "PENDING" /\ attempt[t] = before[t] /\ attempt[t] \in Nat
  BY <1>0, <1>1, AtWork DEF TypeOK
<1>3. /\ Been(t, status'[t], attempt'[t], before[t])
      /\ pc'[t] \in {"has_global", "admitted", "writing"}
      /\ pc'[t] \in {"has_global", "admitted"} => attempt' = attempt /\ AgentOf[t] # NoAgent
  <2>1. CASE RejectUnassigned(t)
    BY <1>0, <1>2, <2>1 DEF RejectUnassigned, SetStatus, Goto, TypeOK, Been
  <2>2. CASE AcquireGlobal(t) \/ AcquireAgent(t)
    BY <1>0, <1>1, <1>2, <2>2, AtWork DEF AcquireGlobal, AcquireAgent, Goto, TypeOK, Been
  <2>3. CASE Start(t)
    <3>1. AgentOf[t] # NoAgent
      BY <2>3, AtWork DEF Start
    <3> QED BY <1>0, <1>2, <2>3, <3>1 DEF Start, SetStatus, Goto, TypeOK, Been
  <2> QED BY <2>1, <2>2, <2>3
<1>4. dbStatus'[t] = dbStatus[t] /\ dbAttempt'[t] = dbAttempt[t] /\ wf'.status = wf.status
  BY <1>1
<1> QED BY <1>1, <1>2, <1>3, <1>4, AtWork, SentSame, BatchStep

(* The coroutine goes on with the status its task has. *)
LEMMA ProceedPlace ==
  ASSUME LInv, NEW t \in Tasks, pc[t] # "none", Proceed(t)
  PROVE  /\ \A u \in Tasks \ {t} : pc'[u] = pc[u] /\ wfArg'[u] = wfArg[u]
         /\ wf'.status = wf.status
         /\ pc'[t] \in {"counting", "executing", "verifying", "none"}
         /\ pc'[t] = "counting" => wfArg'[t].status = "IN_PROGRESS"
<1>0. TypeOK /\ wf.status = "IN_PROGRESS"
  BY AtWork DEF LInv, IInv
<1>1. Counted(t).status = wf.status
  BY <1>0 DEF Counted, TypeOK, Workflow
<1> QED BY <1>0, <1>1 DEF Proceed, Goto, TypeOK

LEMMA WriteLInv ==
  ASSUME LInv, NEW t \in Tasks, IInv',
         UpdateTask(t) \/ SendWorkflow(t) \/ LockWorkflow(t) \/ StoreRow(t) \/ CommitSave(t)
  PROVE  LInv'
<1> USE DEF mem, db, env, res, ends, hand
<1>0. TypeOK /\ TypeOK'
  BY DEF LInv, IInv
<1>1. /\ pc[t] \in InTask /\ pc[t] # "none" /\ loop' = loop /\ UNCHANGED <<status, attempt, round>>
  BY DEF UpdateTask, SendWorkflow, LockWorkflow, StoreRow, CommitSave, InTask, InSave
<1>2. /\ loop = "gather" /\ wf.status = "IN_PROGRESS" /\ dbWf.status = "IN_PROGRESS"
      /\ Been(t, status[t], attempt[t], before[t])
      /\ Been(t, dbStatus[t], dbAttempt[t], before[t])
      /\ Sent(t) => Been(t, snapStatus[t], snapAttempt[t], before[t])
  BY <1>1, AtWork
<1>3. CASE UpdateTask(t)
  <2>1. UNCHANGED <<sent, snap, dbWf>> /\ dbStatus' = [dbStatus EXCEPT ![t] = status[t]]
        /\ dbAttempt' = [dbAttempt EXCEPT ![t] = attempt[t]]
    BY <1>3 DEF UpdateTask
  <2>2. /\ dbStatus'[t] = status[t] /\ dbAttempt'[t] = attempt[t]
        /\ \A u \in Tasks \ {t} : dbStatus'[u] = dbStatus[u] /\ dbAttempt'[u] = dbAttempt[u]
    BY <1>0, <2>1 DEF TypeOK
  <2>3. /\ \A u \in Tasks \ {t} : pc'[u] = pc[u] /\ wfArg'[u] = wfArg[u]
        /\ wf'.status = wf.status
        /\ pc'[t] \in {"counting", "executing", "verifying", "none", "saving"}
        /\ pc'[t] = "counting" => wfArg'[t].status = "IN_PROGRESS"
    <3>1. CASE Proceed(t)
      BY <1>1, <3>1, ProceedPlace
    <3>2. CASE ~Proceed(t)
      BY <1>0, <1>3, <3>2 DEF UpdateTask, Goto, TypeOK
    <3> QED BY <3>1, <3>2
  <2> QED BY <1>1, <1>2, <2>1, <2>2, <2>3, SentSame, BatchStep
<1>4. CASE SendWorkflow(t)
  <2>1. /\ UNCHANGED <<wf, sent, snap, dbStatus, dbAttempt, dbWf>>
        /\ pc'[t] = "locking" /\ wfArg'[t] = wf
        /\ \A u \in Tasks \ {t} : pc'[u] = pc[u] /\ wfArg'[u] = wfArg[u]
    BY <1>0, <1>4 DEF SendWorkflow, Goto, TypeOK
  <2> QED BY <1>1, <1>2, <2>1, SentSame, BatchStep
<1>5. CASE LockWorkflow(t) \/ StoreRow(t)
  <2>1. /\ UNCHANGED <<wf, wfArg, dbStatus, dbAttempt, dbWf>> /\ pc[t] \in {"locking", "storing"}
        /\ pc'[t] = "storing" /\ \A u \in Tasks \ {t} : pc'[u] = pc[u]
        /\ SendRow /\ sent < Len(RowOrder)
    BY <1>0, <1>5, RowsThere DEF LockWorkflow, StoreRow, Goto, TypeOK, LInv, IInv, SnapInv
  <2>2. wfArg'[t].status = "IN_PROGRESS"
    BY <2>1 DEF LInv, WorkflowInv
  <2> QED BY <1>0, <1>1, <1>2, <2>1, <2>2, SendRowSent, BatchStep
<1>6. CASE CommitSave(t)
  <2>1. /\ pc[t] = "storing" /\ dbStatus' = snapStatus /\ dbAttempt' = snapAttempt
        /\ dbWf' = wfArg[t] /\ Proceed(t) /\ EndTransaction /\ sent = Len(RowOrder)
    BY <1>6 DEF CommitSave
  <2>2. wfArg[t].status = "IN_PROGRESS"
    BY <2>1 DEF LInv, WorkflowInv
  <2>3. /\ \A u \in Tasks \ {t} : pc'[u] = pc[u] /\ wfArg'[u] = wfArg[u]
        /\ wf'.status = wf.status
        /\ pc'[t] \in {"counting", "executing", "verifying", "none"}
        /\ pc'[t] = "counting" => wfArg'[t].status = "IN_PROGRESS"
    BY <1>1, <2>1, ProceedPlace
  <2>4. \A u \in Tasks : Sent(u) /\ ~Sent(u)'
    BY <2>1, AllSent, NothingSent
  <2> QED BY <1>1, <1>2, <2>1, <2>2, <2>3, <2>4, BatchStep
<1> QED BY <1>3, <1>4, <1>5, <1>6

LEMMA ReportLInv ==
  ASSUME LInv, NEW t \in Tasks, IInv', AgentReturns(t) \/ VerifierReturns(t) \/ UpdateCounters(t)
  PROVE  LInv'
<1> USE DEF mem, db, env, res, ends, hand
<1>0. TypeOK /\ TypeOK'
  BY DEF LInv, IInv
<1>1. /\ pc[t] \in {"executing", "verifying", "counting"} /\ pc[t] # "none"
      /\ loop' = loop /\ UNCHANGED <<attempt, wf, wfArg, sent, snap, round, dbStatus, dbAttempt>>
      /\ pc'[t] \in {"writing", "none"} /\ \A u \in Tasks \ {t} : pc'[u] = pc[u]
  BY <1>0 DEF AgentReturns, VerifierReturns, UpdateCounters, Goto, TypeOK
<1>2. /\ dbWf.status = "IN_PROGRESS" /\ before[t] \in Nat
      /\ Been(t, status[t], attempt[t], before[t])
      /\ Been(t, dbStatus[t], dbAttempt[t], before[t])
  BY <1>1, AtWork
<1>3. dbWf'.status = "IN_PROGRESS"
  BY <1>1, <1>2 DEF AgentReturns, VerifierReturns, UpdateCounters, LInv, WorkflowInv
<1>4. /\ \A u \in Tasks \ {t} : status'[u] = status[u]
      /\ Been(t, status'[t], attempt'[t], before[t])
  <2>1. CASE UNCHANGED status
    BY <1>1, <1>2, <2>1
  <2>2. CASE ~UNCHANGED status
    <3>1. pc[t] \in {"executing", "verifying"}
      BY <2>2 DEF AgentReturns, VerifierReturns, UpdateCounters
    <3>2. status[t] \in {"IN_PROGRESS", "VERIFYING"}
      BY <3>1 DEF LInv, IInv, CoroutineInv
    <3>3. AgentOf[t] # NoAgent /\ attempt[t] = before[t] + 1
      BY <1>2, <3>2 DEF Been
    <3>4. \/ AttemptFails(t)
          \/ \E s \in {"VERIFYING", "PASSED"} : SetStatus(t, s)
      BY <2>2 DEF AgentReturns, VerifierReturns, UpdateCounters
    <3>5. /\ \A u \in Tasks \ {t} : status'[u] = status[u]
          /\ status'[t] \in {"VERIFYING", "PASSED"} \/ (status'[t] = "PENDING" /\ attempt[t] < MaxRetries)
             \/ (status'[t] = "FAILED" /\ ~(attempt[t] < MaxRetries))
      BY <1>0, <3>4 DEF AttemptFails, CanRetry, SetStatus, TypeOK
    <3> QED BY <1>1, <1>2, <3>3, <3>5 DEF Been, Left
  <2> QED BY <2>1, <2>2
<1>5. /\ dbStatus'[t] = dbStatus[t] /\ dbAttempt'[t] = dbAttempt[t] /\ wf'.status = wf.status
      /\ \A u \in Tasks \ {t} : /\ attempt'[u] = attempt[u] /\ wfArg'[u] = wfArg[u]
                               /\ dbStatus'[u] = dbStatus[u] /\ dbAttempt'[u] = dbAttempt[u]
  BY <1>1
<1> QED BY <1>1, <1>2, <1>3, <1>4, <1>5, SentSame, BatchStep

LEMMA InitLInv == Init => LInv
<1> SUFFICES ASSUME Init PROVE LInv
  OBVIOUS
<1>1. IInv
  BY InitInv
<1>2. BeenInv /\ EndsInv
  BY DEF Init, BeenInv, EndsInv, RowIsMemory, NoCoroutines
<1>3. WorkflowInv /\ AttemptsInv
  BY DEF Init, WorkflowInv, AttemptsInv, NoCoroutines, NoAttempts, Left
<1> QED BY <1>1, <1>2, <1>3 DEF LInv

(* BeenInv is about nothing once a batch is over, or before there is one.   *)
LEMMA NoBatchBeen ==
  ASSUME LInv, loop \notin Batched, UNCHANGED <<batch, before>> \/ EndBatch
  PROVE  BeenInv'
<1>1. batch = {}
  BY DEF LInv, IInv, RoundInv
<1> QED BY <1>1 DEF LInv, BeenInv, EndBatch

LEMMA LoopStepLInv == ASSUME LInv, IInv', LoopStep PROVE LInv'
<1> USE DEF mem, db, env, res, ends, hand, snap, round
<1>0. /\ TypeOK
      /\ loop # "gather" => \A t \in Tasks : pc[t] = "none"
      /\ loop \notin Batched => batch = {}
  BY NoneOutsideBatch DEF LInv, IInv, RoundInv
<1>1. CASE PlanReturns \/ PlanFails \/ LeaveCompleted \/ CircuitOpen \/ LeaveStalled \/ Sleep \/ Wake
  <2>1. /\ loop \in {"planning", "top", "sleeping"}
        /\ loop' \in {"plan_save", "done", "finalize", "circuit_save", "sleeping", "top"}
        /\ UNCHANGED <<pc, status, attempt, hand, db>>
    BY <1>1 DEF PlanReturns, PlanFails, LeaveCompleted, Unfinished, Unhindered, CircuitOpen,
                LeaveStalled, Sleep, NothingReady, Wake
  <2>2. loop' # "done" => wf'.status = "IN_PROGRESS"
    BY <1>0, <1>1 DEF PlanReturns, PlanFails, LeaveCompleted, Unfinished, Unhindered,
                      CircuitOpen,
                LeaveStalled, Sleep, NothingReady, Wake, LInv, WorkflowInv, TypeOK, Workflow
  <2>3. \A t \in Tasks : RowIsMemory(t)'
    BY <2>1 DEF LInv, EndsInv, RowIsMemory
  <2>4. BeenInv'
    BY <2>1, NoBatchBeen DEF Batched
  <2>5. EndsInv'
    BY <2>1, <2>3 DEF EndsInv
  <2>6. WorkflowInv' /\ AttemptsInv'
    BY <1>0, <2>1, <2>2 DEF LInv, WorkflowInv, AttemptsInv, Batched
  <2> QED BY <2>4, <2>5, <2>6 DEF LInv
<1>2. CASE WallTimeExceeded
  <2>1. /\ loop = "top" /\ loop' = "budget_save" /\ wf'.status = "FAILED"
        /\ UNCHANGED <<pc, status, attempt, hand, db>>
    BY <1>0, <1>2 DEF WallTimeExceeded, Unfinished, TypeOK, Workflow
  <2>2. BeenInv'
    BY <2>1, NoBatchBeen DEF Batched
  <2>3. EndsInv' /\ WorkflowInv' /\ AttemptsInv'
    BY <1>0, <2>1 DEF LInv, EndsInv, WorkflowInv, AttemptsInv, Batched
  <2> QED BY <2>2, <2>3 DEF LInv
<1>3. CASE ObeyCancel
  <2>1. /\ loop = "top" /\ loop' = "cancel_save" /\ wf'.status = "CANCELLED"
        /\ status' = Ends("SKIPPED") /\ UNCHANGED <<pc, attempt, hand, db>>
    BY <1>0, <1>3 DEF ObeyCancel, Unfinished, TypeOK, Workflow
  <2>2. dbStatus = status /\ dbAttempt = attempt
    BY <2>1 DEF LInv, IInv, RowsAreMemory
  <2>3. (status = Ledger!Ended("SKIPPED") /\ attempt = dbAttempt)'
    BY <2>1, <2>2 DEF Ends, Ledger!Ended, Ledger!Terminal, Terminal
  <2>4. BeenInv'
    BY <2>1, NoBatchBeen DEF Batched
  <2>5. EndsInv'
    BY <1>0, <2>1, <2>3 DEF EndsInv
  <2>6. \A t \in Tasks : status'[t] # "PENDING"
    BY <1>0, <2>1 DEF Ends, TypeOK, Terminal
  <2>7. WorkflowInv' /\ AttemptsInv'
    BY <1>0, <2>1, <2>6 DEF LInv, WorkflowInv, AttemptsInv, Batched
  <2> QED BY <2>4, <2>5, <2>7 DEF LInv
<1>4. CASE Dispatch
  <2>1. /\ loop = "top" /\ loop' = "gather" /\ UNCHANGED <<mem, wfArg, sent, snap, db>>
        /\ batch' = ReadyTasks(status) /\ before' = attempt
        /\ \A t \in Tasks : pc'[t] \in {"queued", "none"}
    BY <1>4 DEF Dispatch, Unhindered, Unfinished
  <2>2. dbWf = wf /\ dbStatus = status /\ dbAttempt = attempt /\ sent' = 0
    BY <2>1, NoneOutsideBatch DEF LInv, IInv, RowsAreMemory
  <2>3. ReadyTasks(status) # {} /\ \A t \in ReadyTasks(status) : t \in Tasks /\ status[t] = "PENDING"
    BY <1>4 DEF Dispatch, ReadyTasks, With
  <2>4. \A t \in ReadyTasks(status) : Left(attempt[t])
    BY <2>3 DEF LInv, AttemptsInv
  <2>5. \A t \in ReadyTasks(status) : Been(t, status[t], attempt[t], attempt[t])
    BY <2>3 DEF Been
  <2>6. \A t : ~Sent(t)'
    BY <2>2 DEF Sent
  <2>7. BeenInv'
    BY <2>1, <2>2, <2>3, <2>4, <2>5, <2>6 DEF BeenInv
  <2>8. EndsInv' /\ WorkflowInv' /\ AttemptsInv'
    BY <2>1, <2>2 DEF LInv, EndsInv, WorkflowInv, AttemptsInv
  <2> QED BY <2>7, <2>8 DEF LInv
<1>5. CASE Gathered
  <2>1. /\ loop = "gather" /\ (\A t \in Tasks : pc[t] = "none")
        /\ UNCHANGED <<pc, status, attempt, hand, db>>
        /\ \/ loop' = "budget_save" /\ wf'.status = "FAILED"
           \/ loop' = "save_batch" /\ wf' = wf
    BY <1>0, <1>5 DEF Gathered, AfterGather, TypeOK, Workflow
  <2>2. BeenInv'
    BY <2>1 DEF LInv, BeenInv, Sent
  <2>3. EndsInv' /\ WorkflowInv' /\ AttemptsInv'
    BY <2>1 DEF LInv, EndsInv, WorkflowInv, AttemptsInv
  <2> QED BY <2>2, <2>3 DEF LInv
<1>6. CASE SavePlan \/ SaveBatch \/ SaveResume \/ SaveBudgetFailure \/ SaveCancel \/ SaveFinal
  <2>1. /\ loop # "gather" /\ SaveState /\ UNCHANGED <<pc, mem, wfArg>>
        /\ loop' \in {"top", "done", "finalize"}
        /\ loop' = "top" => loop \in {"plan_save", "save_batch", "resume_save"}
        /\ EndBatch \/ (UNCHANGED <<batch, before>> /\ loop \notin Batched)
    BY <1>6 DEF SavePlan, SaveBatch, SaveResume, SaveBudgetFailure, SaveThen, SaveCancel,
                SaveFinal, Batched
  <2>2. \A t \in Tasks : RowIsMemory(t)'
    BY <2>1 DEF SaveState, UpsertWorkflow, UpsertWorkstreams, UpsertTasks, RowIsMemory
  <2>3. BeenInv' /\ batch' = {}
    BY <1>0, <2>1, NoBatchBeen DEF BeenInv, EndBatch
  <2>4. EndsInv'
    BY <2>1, <2>2 DEF EndsInv
  <2>5. WorkflowInv' /\ AttemptsInv'
    BY <1>0, <2>1, <2>3 DEF LInv, WorkflowInv, AttemptsInv, SaveState,
                            UpsertWorkflow, UpsertWorkstreams, UpsertTasks
  <2> QED BY <2>3, <2>4, <2>5 DEF LInv
<1>7. CASE SaveCircuitOpen
  <2>1. /\ loop = "circuit_save" /\ loop' = "finalize" /\ SaveState
        /\ status' = Ends("FAILED") /\ UNCHANGED <<pc, attempt, wf, hand>>
    BY <1>7 DEF SaveCircuitOpen, Checkpoint
  <2>2. (status = Ledger!Ended("FAILED") /\ attempt = dbAttempt)'
    BY <2>1 DEF SaveState, UpsertWorkflow, UpsertWorkstreams, UpsertTasks, Ends,
                Ledger!Ended, Ledger!Terminal, Terminal
  <2>3. BeenInv'
    BY <2>1, NoBatchBeen DEF Batched
  <2>4. EndsInv'
    BY <1>0, <2>1, <2>2 DEF EndsInv
  <2>5. \A t \in Tasks : status'[t] # "PENDING"
    BY <1>0, <2>1 DEF Ends, TypeOK, Terminal
  <2>6. WorkflowInv' /\ AttemptsInv'
    BY <1>0, <2>1, <2>5 DEF LInv, WorkflowInv, AttemptsInv, Batched, SaveState,
                            UpsertWorkflow, UpsertWorkstreams, UpsertTasks
  <2> QED BY <2>3, <2>4, <2>6 DEF LInv
<1>8. CASE Finalize
  <2>1. /\ loop = "finalize" /\ loop' = "final_save" /\ UNCHANGED <<pc, status, attempt, hand, db>>
        /\ wf'.status = FinalStatus
    BY <1>0, <1>8 DEF Finalize, TypeOK, Workflow
  <2>2. FinalStatus' = FinalStatus
    BY <2>1 DEF FinalStatus, IsComplete, IsFailed, With
  <2>3. BeenInv'
    BY <2>1, NoBatchBeen DEF Batched
  <2>4. EndsInv'
    BY <1>0, <2>1 DEF LInv, EndsInv, RowIsMemory, Ledger!Ended
  <2>5. WorkflowInv' /\ AttemptsInv'
    BY <1>0, <2>1, <2>2 DEF LInv, WorkflowInv, AttemptsInv, Batched
  <2> QED BY <2>3, <2>4, <2>5 DEF LInv
<1> QED
  BY <1>1, <1>2, <1>3, <1>4, <1>5, <1>6, <1>7, <1>8 DEF LoopStep

LEMMA OtherStepLInv ==
  ASSUME LInv, IInv',
         \/ \E t \in Tasks : Raises(t)
         \/ Cancel \/ WallClock \/ BreakerCools \/ Crash \/ Resume \/ Finished
         \/ UNCHANGED vars
  PROVE  LInv'
<1> USE DEF mem, db, env, res, ends, hand
<1>0. TypeOK
  BY DEF LInv, IInv
<1>1. ASSUME NEW t \in Tasks, Raises(t) PROVE LInv'
  <2>1. /\ pc[t] # "none" /\ loop' = loop /\ pc' = [pc EXCEPT ![t] = "none"]
        /\ UNCHANGED <<status, attempt, wf, wfArg, round, dbStatus, dbAttempt, dbWf>>
        /\ UNCHANGED <<sent, snap>> \/ EndTransaction
    BY <1>1 DEF Raises, Goto, InTask, InSave
  <2>2. pc'[t] = "none" /\ \A u \in Tasks \ {t} : pc'[u] = pc[u]
    BY <1>0, <2>1 DEF TypeOK
  <2>3. \A u \in Tasks : Sent(u)' =>
          Sent(u) /\ snapStatus'[u] = snapStatus[u] /\ snapAttempt'[u] = snapAttempt[u]
    BY <2>1, SentSame, NothingSent
  <2>4. /\ dbWf.status = "IN_PROGRESS"
        /\ Been(t, status[t], attempt[t], before[t])
        /\ Been(t, dbStatus[t], dbAttempt[t], before[t])
    BY <2>1, AtWork
  <2>5. /\ \A u \in Tasks : /\ status'[u] = status[u] /\ attempt'[u] = attempt[u]
                            /\ wfArg'[u] = wfArg[u]
                            /\ dbStatus'[u] = dbStatus[u] /\ dbAttempt'[u] = dbAttempt[u]
        /\ wf'.status = wf.status /\ dbWf'.status = dbWf.status
    BY <2>1
  <2> QED BY <2>1, <2>2, <2>3, <2>4, <2>5, BatchStep
<1>2. CASE Cancel \/ WallClock \/ BreakerCools \/ Finished \/ UNCHANGED vars
  <2>1. UNCHANGED <<loop, pc, mem, hand, db>>
    BY <1>2 DEF Cancel, WallClock, BreakerCools, Finished, vars
  <2>2. BeenInv'
    BY <2>1 DEF LInv, BeenInv, Sent, snap, round
  <2>3. EndsInv'
    BY <2>1 DEF LInv, EndsInv, RowIsMemory, Ledger!Ended
  <2>4. WorkflowInv' /\ AttemptsInv'
    BY <2>1 DEF LInv, WorkflowInv, AttemptsInv, FinalStatus, IsComplete, IsFailed, With, round
  <2> QED BY <2>2, <2>3, <2>4 DEF LInv
<1>3. CASE Crash
  <2>1. /\ loop' = "down" /\ (\A t \in Tasks : pc'[t] = "none") /\ UNCHANGED <<mem, wfArg, db>>
        /\ batch' = {} /\ before' = NoAttempts
    BY <1>3 DEF Crash, NoCoroutines, EndBatch
  <2> QED
    BY <2>1 DEF LInv, BeenInv, EndsInv, WorkflowInv, AttemptsInv
<1>4. CASE Resume
  <2>1. /\ loop \in {"done", "down"} /\ loop' = "resume_save" /\ UNCHANGED <<pc, batch, before, db>>
        /\ status' = dbStatus /\ attempt' = dbAttempt /\ wf'.status = "IN_PROGRESS"
    BY <1>0, <1>4 DEF Resume, LoadState, Running, TypeOK, Workflow, round
  <2>2. \A t \in Tasks : pc[t] = "none"
    BY <2>1, NoneOutsideBatch DEF LInv
  <2>3. BeenInv' /\ batch' = {}
    BY <2>1, NoBatchBeen DEF Batched, LInv, IInv, RoundInv
  <2> QED
    BY <2>1, <2>2, <2>3 DEF LInv, EndsInv, WorkflowInv, AttemptsInv, RowIsMemory
<1> QED BY <1>1, <1>2, <1>3, <1>4

LEMMA LedgerInvariant == Spec => []LInv
<1>1. LInv /\ [Next]_vars => LInv'
  <2> SUFFICES ASSUME LInv, [Next]_vars PROVE LInv'
    OBVIOUS
  <2>1. IInv'
    BY LoopStepInv, TaskStepInv, OtherStepInv DEF LInv, Next
  <2>2. ASSUME NEW t \in Tasks, TaskStep(t) PROVE LInv'
    BY <2>1, <2>2, DispatchLInv, WriteLInv, ReportLInv DEF TaskStep
  <2> QED BY <2>1, <2>2, LoopStepLInv, OtherStepLInv DEF Next
<1> QED BY InitLInv, <1>1, PTL DEF Spec

-----------------------------------------------------------------------------
LEMMA BeenIsLedger ==
  ASSUME NEW t \in Tasks, NEW s, NEW k, Been(t, s, k, before[t])
  PROVE  Ledger!HasBeen(t, s, k)
BY DEF Been, Left, Ledger!HasBeen, Ledger!Waiting, Ledger!Rejected, Ledger!AtWork, Ledger!Again,
       Ledger!OutOfTries, Ledger!AttemptLeft, Ledger!Active, Active

(* What a step within a batch, or at its end, does to the rows.             *)
LEMMA WorkStep ==
  ASSUME LInv, TypeOK', batch # {},
         \A t \in batch : Been(t, dbStatus'[t], dbAttempt'[t], before[t]),
         \A t \in Tasks \ batch : dbStatus'[t] = dbStatus[t] /\ dbAttempt'[t] = dbAttempt[t],
         \/ UNCHANGED <<batch, before>> /\ dbWf'.status = "IN_PROGRESS"
         \/ batch' = {} /\ dbWf'.status \in {"IN_PROGRESS", "FAILED"}
  PROVE  Ledger!Next
<1>1. dbWf.status = "IN_PROGRESS" /\ batch \subseteq Tasks
  BY DEF LInv, IInv, TypeOK, WorkflowInv
<1>2. \A t \in batch : Ledger!HasBeen(t, dbStatus'[t], dbAttempt'[t])
  BY <1>1, BeenIsLedger
<1>3. dbStatus' \in [Tasks -> Ledger!TaskStatus] /\ dbAttempt' \in [Tasks -> Nat]
  BY DEF TypeOK, TaskStatus, Ledger!TaskStatus, Active, Ledger!Active, Terminal, Ledger!Terminal
<1> QED BY <1>1, <1>2, <1>3 DEF Ledger!Next, Ledger!Work

(* The commits of the main loop. *)
LEMMA SaveIsAStep ==
  ASSUME LInv, TypeOK',
         SavePlan \/ SaveBatch \/ SaveResume \/ SaveBudgetFailure \/ SaveCancel
         \/ SaveCircuitOpen \/ SaveFinal
  PROVE  Ledger!Next
<1> USE DEF mem, db, hand, round
<1>0. /\ dbStatus' = status /\ dbAttempt' = attempt /\ dbWf' = wf
      /\ TypeOK
  BY DEF SavePlan, SaveBatch, SaveResume, SaveBudgetFailure, SaveThen, SaveCancel,
         SaveCircuitOpen, Checkpoint, SaveFinal, SaveState, UpsertWorkflow, UpsertWorkstreams,
         UpsertTasks, LInv, IInv
<1>1. CASE batch # {}
  <2>1. loop \in Batched
    BY <1>1 DEF LInv, IInv, RoundInv
  <2>2. SaveBatch \/ SaveBudgetFailure
    BY <2>1 DEF SavePlan, SaveResume, SaveThen, SaveCancel, SaveCircuitOpen, SaveFinal, Batched
  <2>3. batch' = {} /\ wf.status \in {"IN_PROGRESS", "FAILED"}
    BY <2>2 DEF SaveBatch, SaveBudgetFailure, SaveThen, EndBatch, LInv, WorkflowInv
  <2>4. /\ \A t \in batch : Been(t, status[t], attempt[t], before[t])
        /\ \A t \in Tasks \ batch : dbStatus[t] = status[t] /\ dbAttempt[t] = attempt[t]
    BY <2>1 DEF LInv, BeenInv, IInv, RoundInv
  <2> QED BY <1>0, <1>1, <2>3, <2>4, WorkStep
<1>2. CASE batch = {}
  <2>1. batch' = batch /\ before' = before
    BY <1>2 DEF SavePlan, SaveBatch, SaveResume, SaveBudgetFailure, SaveThen, SaveCancel,
                SaveCircuitOpen, SaveFinal, EndBatch, LInv, BeenInv
  <2>2. loop \in {"plan_save", "resume_save", "circuit_save", "save_batch", "budget_save"} =>
          \A t \in Tasks : RowIsMemory(t)
    BY <1>2 DEF LInv, EndsInv, IInv, RoundInv, Batched, RowIsMemory
  <2>3. (\A t \in Tasks : RowIsMemory(t)) => status = dbStatus /\ attempt = dbAttempt
    BY <1>0 DEF RowIsMemory, TypeOK
  <2>4. dbAttempt' = dbAttempt /\ dbStatus' \in {dbStatus, Ledger!Ended("FAILED"), Ledger!Ended("SKIPPED")}
    BY <1>0, <2>2, <2>3
       DEF SavePlan, SaveBatch, SaveResume, SaveBudgetFailure, SaveThen, SaveCancel,
           SaveCircuitOpen, SaveFinal, LInv, EndsInv
  <2>5. \/ dbWf'.status \in {dbWf.status, "IN_PROGRESS", "FAILED", "CANCELLED"}
        \/ dbWf'.status = "COMPLETED" /\ Ledger!IsComplete(dbStatus') /\ ~Ledger!IsFailed(dbStatus')
    <3>1. CASE SaveFinal
      BY <1>0, <3>1 DEF SaveFinal, LInv, WorkflowInv, FinalStatus, Ledger!IsComplete, IsComplete,
                        Ledger!IsFailed, IsFailed, Ledger!With, With, Ledger!Terminal, Terminal
    <3>2. CASE ~SaveFinal
      BY <1>0, <3>2 DEF SavePlan, SaveBatch, SaveResume, SaveBudgetFailure, SaveThen, SaveCancel,
                        SaveCircuitOpen, LInv, WorkflowInv
    <3> QED BY <3>1, <3>2
  <2> QED BY <1>2, <2>1, <2>4, <2>5 DEF Ledger!Next, Ledger!Decide
<1> QED BY <1>1, <1>2

LEMMA LedgerInit == Init => Ledger!Init
BY DEF Init, Ledger!Init, AllPending, NoAttempts, NewWorkflow

(* A batch is opened over pending tasks that may run and have tries left.   *)
LEMMA DispatchOpens == ASSUME LInv, Dispatch PROVE Ledger!Next
<1> USE DEF mem, db
<1>1. /\ loop = "top" /\ UNCHANGED <<dbStatus, dbAttempt, dbWf>>
      /\ batch' = ReadyTasks(status) /\ before' = attempt /\ ReadyTasks(status) # {}
  BY DEF Dispatch, Unhindered, Unfinished
<1>2. batch = {} /\ dbStatus = status /\ dbAttempt = attempt /\ dbWf = wf /\ wf.status = "IN_PROGRESS"
  BY <1>1 DEF LInv, IInv, RoundInv, RowsAreMemory, WorkflowInv, Batched
<1>3. \A t \in ReadyTasks(status) : /\ t \in Tasks /\ status[t] = "PENDING" /\ DepsPassed(status, t)
                                    /\ Left(attempt[t])
  BY DEF ReadyTasks, With, LInv, AttemptsInv
<1>4. \A t \in batch' : /\ dbStatus[t] = "PENDING" /\ Ledger!DepsPassed(dbStatus, t)
                        /\ Ledger!AttemptLeft(dbAttempt[t])
  BY <1>1, <1>2, <1>3 DEF DepsPassed, Ledger!DepsPassed, Left, Ledger!AttemptLeft
<1> QED BY <1>1, <1>2, <1>3, <1>4 DEF Ledger!Next, Ledger!Open

LEMMA LedgerStep == ASSUME LInv, LInv', [Next]_vars PROVE [Ledger!Next]_Ledger!ledger
<1> USE DEF mem, db, env, res, ends, hand, round
<1>0. TypeOK /\ TypeOK'
  BY DEF LInv, IInv
<1>1. CASE UNCHANGED <<db, round>>
  BY <1>1 DEF Ledger!ledger
<1>2. ASSUME NEW t \in Tasks, UpdateTask(t) \/ CommitSave(t) \/ UpdateCounters(t) PROVE Ledger!Next
  <2>1. pc[t] # "none" /\ loop' = loop /\ UNCHANGED <<batch, before>>
    BY <1>2 DEF UpdateTask, CommitSave, UpdateCounters
  <2>2. loop = "gather" /\ t \in batch
    BY <2>1, AtWork
  <2>3. dbWf'.status = "IN_PROGRESS"
    BY <2>1, <2>2 DEF LInv, WorkflowInv
  <2>4. \A u \in batch : Been(u, dbStatus'[u], dbAttempt'[u], before[u])
    BY <2>1 DEF LInv, BeenInv
  <2>5. ASSUME NEW u \in Tasks \ batch
        PROVE  dbStatus'[u] = dbStatus[u] /\ dbAttempt'[u] = dbAttempt[u]
    <3>1. /\ dbStatus[u] = status[u] /\ dbAttempt[u] = attempt[u]
          /\ dbStatus'[u] = status'[u] /\ dbAttempt'[u] = attempt'[u]
      BY <2>1, <2>2 DEF LInv, IInv, RoundInv, Batched
    <3>2. status' = status /\ attempt' = attempt
      BY <1>2 DEF UpdateTask, CommitSave, UpdateCounters
    <3> QED BY <3>1, <3>2
  <2> QED BY <1>0, <2>1, <2>2, <2>3, <2>4, <2>5, WorkStep
<1>3. CASE LoopStep
  <2>1. \/ UNCHANGED <<db, round>> \/ Dispatch
        \/ SavePlan \/ SaveBatch \/ SaveResume \/ SaveBudgetFailure \/ SaveCancel
        \/ SaveCircuitOpen \/ SaveFinal
    BY <1>3 DEF LoopStep, PlanReturns, PlanFails, LeaveCompleted, WallTimeExceeded, ObeyCancel,
                CircuitOpen, LeaveStalled, Sleep, NothingReady, Wake, Gathered,
                Finalize
  <2> QED BY <1>0, <1>1, <2>1, SaveIsAStep, DispatchOpens
<1>4. ASSUME NEW t \in Tasks, TaskStep(t) PROVE [Ledger!Next]_Ledger!ledger
  <2>1. \/ UNCHANGED <<db, round>> \/ UpdateTask(t) \/ CommitSave(t) \/ UpdateCounters(t)
    BY <1>4 DEF TaskStep, RejectUnassigned, AcquireGlobal, AcquireAgent, Start, SendWorkflow,
                LockWorkflow, StoreRow, AgentReturns, VerifierReturns
  <2> QED BY <1>1, <1>2, <2>1
<1>5. CASE Crash
  <2>1. UNCHANGED db /\ batch' = {} /\ before' = NoAttempts
    BY <1>5 DEF Crash, EndBatch
  <2>2. CASE batch = {}
    <3>1. UNCHANGED <<db, round>>
      BY <2>1, <2>2 DEF LInv, BeenInv
    <3> QED BY <1>1, <3>1
  <2>3. CASE batch # {}
    <3>1. dbWf'.status = "IN_PROGRESS"
      BY <2>1, <2>3 DEF LInv, WorkflowInv
    <3>2. \A t \in batch : Been(t, dbStatus'[t], dbAttempt'[t], before[t])
      BY <2>1 DEF LInv, BeenInv
    <3> QED BY <1>0, <2>1, <2>3, <3>1, <3>2, WorkStep
  <2> QED BY <2>2, <2>3
<1>6. CASE \/ \E t \in Tasks : Raises(t)
           \/ Cancel \/ WallClock \/ BreakerCools \/ Resume \/ Finished
           \/ UNCHANGED vars
  <2>1. UNCHANGED <<db, round>>
    BY <1>6 DEF Raises, Cancel, WallClock, BreakerCools, Resume, LoadState, Finished, vars
  <2> QED BY <1>1, <2>1
<1> QED BY <1>3, <1>4, <1>5, <1>6 DEF Next

(* The committed rows follow the ledger: for every graph, budget, order of  *)
(* rows and schedule, through overlapping snapshots, escaped exceptions,    *)
(* crashes and resumes.  A batch opens over tasks that may run, its rows    *)
(* hold what its tasks have been since, every other row stands still, a     *)
(* batch is worth one attempt, and COMPLETED is only ever committed over    *)
(* tasks that have all ended without a failure.                             *)
THEOREM ImplementsLedger == Spec => LedgerSpec
<1>1. LInv /\ LInv' /\ [Next]_vars => [Ledger!Next]_Ledger!ledger
  BY LedgerStep
<1> QED BY LedgerInvariant, LedgerInit, <1>1, PTL DEF Spec, LedgerSpec, Ledger!Spec

-----------------------------------------------------------------------------
(* The verdict.                                                            *)

(* What is known of the budget and the rows when the loop is left.          *)
VerdictInv ==
  /\ loop \notin {"gather", "budget_save", "done", "down"} => ~overBudget
  /\ loop = "budget_save" => overBudget \/ ~IsComplete(status)
  /\ loop = "planning" => dbWf.status = "PLANNING" /\ dbStatus = AllPending
  /\ \A t \in Tasks :
       status[t] # "CANCELLED" /\ dbStatus[t] # "CANCELLED" /\ snapStatus[t] # "CANCELLED"
  /\ VerdictTrue

(* Nobody but the dashboard cancels a task. *)
LEMMA NothingCancelled ==
  ASSUME LInv, VerdictInv, [Next]_vars
  PROVE  \A t \in Tasks :
           status'[t] # "CANCELLED" /\ dbStatus'[t] # "CANCELLED" /\ snapStatus'[t] # "CANCELLED"
<1> USE DEF mem, db, hand, snap
<1>0. TypeOK /\ \A t \in Tasks :
        status[t] # "CANCELLED" /\ dbStatus[t] # "CANCELLED" /\ snapStatus[t] # "CANCELLED"
  BY DEF LInv, IInv, VerdictInv
<1>1. \A t \in Tasks : status'[t] # "CANCELLED"
  <2>1. \/ status' = status
        \/ \E s \in {"SKIPPED", "FAILED"} : status' = Ends(s)
        \/ \E t \in Tasks, s \in TaskStatus \ {"CANCELLED"} : status' = [status EXCEPT ![t] = s]
        \/ status' = dbStatus
    BY DEF Next, LoopStep, PlanReturns, PlanFails, LeaveCompleted, WallTimeExceeded, ObeyCancel,
           CircuitOpen, Dispatch, LeaveStalled, Sleep, NothingReady, Wake, Gathered, SavePlan,
           SaveBatch, SaveResume, SaveBudgetFailure, SaveThen, SaveCancel, SaveCircuitOpen,
           Finalize, SaveFinal, TaskStep, RejectUnassigned, AcquireGlobal, AcquireAgent, Start,
           UpdateTask, SendWorkflow, LockWorkflow, StoreRow, CommitSave,
           AgentReturns, VerifierReturns, AttemptFails, SetStatus,
           UpdateCounters, Raises, Cancel, WallClock, BreakerCools, Crash, Resume, LoadState,
           Finished, vars, TaskStatus, Active, Terminal
  <2> QED BY <1>0, <2>1 DEF TypeOK, Ends
<1>2. \A t \in Tasks : dbStatus'[t] # "CANCELLED"
  <2>1. \/ dbStatus' = dbStatus \/ dbStatus' = status \/ dbStatus' = snapStatus
        \/ \E t \in Tasks : dbStatus' = [dbStatus EXCEPT ![t] = status[t]]
    BY DEF Next, LoopStep, PlanReturns, PlanFails, LeaveCompleted, WallTimeExceeded, ObeyCancel,
           CircuitOpen, Dispatch, LeaveStalled, Sleep, NothingReady, Wake, Gathered, SavePlan,
           SaveBatch, SaveResume, SaveBudgetFailure, SaveThen, SaveCancel, SaveCircuitOpen,
           Checkpoint, SaveState, UpsertTasks, Finalize, SaveFinal, TaskStep, RejectUnassigned,
           AcquireGlobal, AcquireAgent, Start, UpdateTask, SendWorkflow, LockWorkflow, StoreRow, CommitSave,
           AgentReturns,
           VerifierReturns, UpdateCounters, Raises, Cancel, WallClock, BreakerCools, Crash,
           Resume, Finished, vars
  <2> QED BY <1>0, <2>1 DEF TypeOK
<1>3. \A t \in Tasks : snapStatus'[t] # "CANCELLED"
  <2>1. \/ snapStatus' = snapStatus \/ snapStatus' = AllPending
        \/ \E r \in Tasks : snapStatus' = [snapStatus EXCEPT ![r] = status[r]]
    BY DEF Next, LoopStep, PlanReturns, PlanFails, LeaveCompleted, WallTimeExceeded, ObeyCancel,
           CircuitOpen, Dispatch, LeaveStalled, Sleep, NothingReady, Wake, Gathered, SavePlan,
           SaveBatch, SaveResume, SaveBudgetFailure, SaveThen, SaveCancel, SaveCircuitOpen,
           Finalize, SaveFinal, TaskStep, RejectUnassigned, AcquireGlobal, AcquireAgent, Start,
           UpdateTask, SendWorkflow, LockWorkflow, StoreRow, CommitSave, SendRow, EndTransaction,
           AgentReturns, VerifierReturns, UpdateCounters, Raises, Cancel, WallClock, BreakerCools,
           Crash, Resume, Finished, vars
  <2> QED BY <1>0, <2>1 DEF TypeOK, AllPending
<1> QED BY <1>1, <1>2, <1>3

LEMMA LoopStepVerdict ==
  ASSUME LInv, VerdictInv, LoopStep
  PROVE  /\ loop' \notin {"gather", "budget_save", "done", "down"} => ~overBudget'
         /\ loop' = "budget_save" => overBudget' \/ ~IsComplete(status')
         /\ loop' # "planning"
         /\ VerdictTrue'
<1> USE DEF mem, db, env, res, ends, hand, snap, round
<1>0. TypeOK
  BY DEF LInv, IInv
<1>1. CASE PlanFails
  BY <1>1 DEF PlanFails, VerdictInv, VerdictTrue, AllPending
<1>2. CASE SaveBudgetFailure
  <2>1. loop = "budget_save" /\ loop' = "done" /\ dbWf'.status = "FAILED" /\ dbStatus' = status
        /\ overBudget' = overBudget
    BY <1>2 DEF SaveBudgetFailure, SaveThen, SaveState, UpsertWorkflow, UpsertTasks, LInv,
                WorkflowInv
  <2>2. overBudget \/ ~IsComplete(status)
    BY <2>1 DEF VerdictInv
  <2>3. (\A t \in Tasks : status[t] = "PASSED") /\ Tasks # {} => IsComplete(status)
    BY DEF IsComplete, Terminal
  <2> QED BY <2>1, <2>2, <2>3 DEF VerdictTrue
<1>3. CASE SaveFinal
  <2>1. loop = "final_save" /\ loop' = "done" /\ dbWf'.status = FinalStatus /\ dbStatus' = status
        /\ overBudget' = overBudget /\ ~overBudget
    BY <1>3 DEF SaveFinal, SaveState, UpsertWorkflow, UpsertTasks, LInv, WorkflowInv, VerdictInv
  <2>2. ASSUME With(status, "SKIPPED") = {}
        PROVE  FinalStatus = "COMPLETED" <=> Tasks # {} /\ \A t \in Tasks : status[t] = "PASSED"
    <3>1. \A t \in Tasks : status[t] \in Terminal => status[t] \in {"PASSED", "FAILED"}
      BY <2>2 DEF With, VerdictInv, Terminal
    <3> QED BY <3>1 DEF FinalStatus, IsComplete, IsFailed, With, Terminal
  <2> QED BY <2>1, <2>2 DEF VerdictTrue
<1>4. CASE Gathered
  BY <1>4 DEF Gathered, AfterGather, VerdictTrue
<1>5. CASE WallTimeExceeded
  BY <1>5 DEF WallTimeExceeded, Unfinished, VerdictTrue
<1>6. CASE Dispatch
  BY <1>6 DEF Dispatch, VerdictTrue
<1>7. CASE \/ PlanReturns \/ LeaveCompleted \/ ObeyCancel \/ CircuitOpen \/ LeaveStalled \/ Sleep
           \/ Wake \/ SavePlan \/ SaveBatch \/ SaveResume \/ SaveCancel \/ SaveCircuitOpen
           \/ Finalize
  <2>1. overBudget' = overBudget /\ loop \notin {"gather", "budget_save", "done", "down"}
        /\ loop' \notin {"gather", "budget_save", "done", "down", "planning"}
    BY <1>7 DEF PlanReturns, LeaveCompleted, ObeyCancel, CircuitOpen, LeaveStalled, Sleep,
                NothingReady, Unhindered, Unfinished, Wake, SavePlan, SaveBatch, SaveResume,
                SaveThen, SaveCancel, SaveCircuitOpen, Finalize
  <2> QED BY <2>1 DEF VerdictInv, VerdictTrue
<1> QED BY <1>1, <1>2, <1>3, <1>4, <1>5, <1>6, <1>7 DEF LoopStep

LEMMA VerdictInvariant == Spec => []VerdictInv
<1> USE DEF mem, db, env, res, ends, hand, snap, round
<1>1. Init => VerdictInv
  BY DEF Init, VerdictInv, VerdictTrue, AllPending, NewWorkflow
<1>2. ASSUME LInv, VerdictInv, [Next]_vars PROVE VerdictInv'
  <2>1. \A t \in Tasks :
          status'[t] # "CANCELLED" /\ dbStatus'[t] # "CANCELLED" /\ snapStatus'[t] # "CANCELLED"
    BY <1>2, NothingCancelled
  <2>2. CASE LoopStep
    BY <1>2, <2>1, <2>2, LoopStepVerdict DEF VerdictInv
  <2>3. ASSUME NEW t \in Tasks, TaskStep(t) \/ Raises(t) PROVE VerdictInv'
    <3>1. loop' = loop /\ pc[t] # "none"
      BY <2>3 DEF TaskStep, RejectUnassigned, AcquireGlobal, AcquireAgent, Start, UpdateTask,
                  SendWorkflow, LockWorkflow, StoreRow, CommitSave,
                  AgentReturns, VerifierReturns, UpdateCounters, Raises, InTask, InSave
    <3>2. loop = "gather"
      BY <1>2, <3>1 DEF LInv, IInv, CoroutineInv
    <3> QED BY <2>1, <3>1, <3>2 DEF VerdictInv, VerdictTrue
  <2>4. CASE Crash \/ Resume
    BY <2>1, <2>4 DEF Crash, Resume, VerdictInv, VerdictTrue
  <2>5. CASE Cancel \/ WallClock \/ BreakerCools \/ Finished \/ UNCHANGED vars
    <3>1. UNCHANGED <<loop, status, dbStatus, snapStatus, dbWf, overBudget>>
      BY <2>5 DEF Cancel, WallClock, BreakerCools, Finished, vars
    <3> QED BY <1>2, <3>1 DEF VerdictInv, VerdictTrue, IsComplete, With
  <2> QED BY <1>2, <2>2, <2>3, <2>4, <2>5 DEF Next
<1> QED BY <1>1, <1>2, LedgerInvariant, PTL DEF Spec

(* A workflow in which nothing was skipped is committed as COMPLETED        *)
(* exactly when all its tasks passed within the budget                      *)
(* (orchestrator.py:353-362).                                               *)
THEOREM VerdictTrueHolds == Spec => []VerdictTrue
<1>1. VerdictInv => VerdictTrue
  BY DEF VerdictInv
<1> QED BY VerdictInvariant, <1>1, PTL

-----------------------------------------------------------------------------
(* The run that nothing disturbs counts exactly.                           *)

Outcome == {"PASSED", "FAILED"}

(* The tasks whose end has been counted: its coroutine is past the await    *)
(* after which it counts.                                                   *)
BeforeCount == {"writing"} \cup InSave
CountedAs(s) ==
  {t \in Tasks : status[t] = s /\ pc[t] \notin BeforeCount /\ AgentOf[t] # NoAgent}

(* From where the loop can come back to its top. *)
Steady == {"planning", "plan_save", "top", "sleeping", "gather", "save_batch"}

(* A task without an agent only fails. *)
AgentsOnly ==
  \A t \in Tasks : AgentOf[t] = NoAgent =>
    /\ pc[t] \in {"none", "queued"} \cup BeforeCount
    /\ pc[t] \in BeforeCount => status[t] = "FAILED"
    /\ status[t] \in {"PENDING", "FAILED", "SKIPPED"}

(* A workstream shows its tasks, or one of them is about to tell it.        *)
StreamExact(w) ==
  \/ ws[w] = WorkstreamStatusOf(status, Members(w))
  \/ \E t \in Members(w) : pc[t] = "writing"

CountsExact ==
  /\ wf.completed = Cardinality(CountedAs("PASSED"))
  /\ wf.failed = Cardinality(CountedAs("FAILED"))

StreamsExact == \A w \in Workstreams : Members(w) # {} => StreamExact(w)

ExactInv ==
  faults = 0 /\ resumes = 0 =>
    /\ loop # "resume_save" /\ AgentsOnly
    /\ loop \in Steady => CountsExact /\ StreamsExact

LEMMA InitExact == Init => ExactInv
<1> SUFFICES ASSUME Init PROVE ExactInv
  OBVIOUS
<1> USE DEF BeforeCount, InSave
<1>1. AgentsOnly /\ loop # "resume_save"
  BY DEF Init, AgentsOnly, NoCoroutines, AllPending
<1>2. CountedAs("PASSED") = {} /\ CountedAs("FAILED") = {}
  BY DEF Init, CountedAs, AllPending
<1>3. CountsExact
  BY <1>2, FS_EmptySet DEF CountsExact, Init, NewWorkflow
<1>4. ASSUME NEW w \in Workstreams, Members(w) # {} PROVE StreamExact(w)
  <2>1. {status[t] : t \in Members(w)} = {"PENDING"}
    BY <1>4 DEF Init, AllPending, Members
  <2>2. WorkstreamStatusOf(status, Members(w)) = "PENDING"
    BY <2>1 DEF WorkstreamStatusOf, Terminal, Active
  <2> QED BY <1>4, <2>2 DEF StreamExact, Init, WsPending
<1> QED BY <1>1, <1>3, <1>4 DEF ExactInv, StreamsExact

(* What a workstream shows depends on its own tasks. *)
LEMMA StreamSame ==
  ASSUME NEW st, NEW su, NEW M, \A t \in M : st[t] = su[t]
  PROVE  WorkstreamStatusOf(st, M) = WorkstreamStatusOf(su, M)
<1>1. {st[t] : t \in M} = {su[t] : t \in M}
  OBVIOUS
<1> QED BY <1>1 DEF WorkstreamStatusOf

(* The main loop neither counts nor moves a task while it may come back.    *)
LEMMA LoopStepExact == ASSUME IInv, ExactInv, LoopStep PROVE ExactInv'
<1> USE DEF BeforeCount, InSave
<1> USE DEF mem, db, env, res, ends, hand, snap, round
<1> SUFFICES ASSUME faults' = 0, resumes' = 0
             PROVE  /\ loop' # "resume_save" /\ AgentsOnly'
                    /\ loop' \in Steady => CountsExact' /\ StreamsExact'
  BY DEF ExactInv
<1>0. UNCHANGED <<faults, resumes>>
  BY DEF LoopStep, PlanReturns, PlanFails, LeaveCompleted, WallTimeExceeded, ObeyCancel,
         CircuitOpen, Dispatch, LeaveStalled, Sleep, NothingReady, Wake, Gathered,
         SavePlan, SaveBatch, SaveResume, SaveBudgetFailure, SaveThen, SaveCancel,
         SaveCircuitOpen, Finalize, SaveFinal
<1>1. loop # "resume_save" /\ AgentsOnly /\ (loop \in Steady => CountsExact /\ StreamsExact)
  BY <1>0 DEF ExactInv
<1>2. /\ loop' # "resume_save"
      /\ loop' \in Steady => loop \in Steady /\ status' = status /\ ws' = ws
  BY <1>1 DEF LoopStep, PlanReturns, PlanFails, LeaveCompleted, WallTimeExceeded, ObeyCancel,
         CircuitOpen, Dispatch, LeaveStalled, Sleep, NothingReady, Wake, Gathered, AfterGather,
         SavePlan, SaveBatch, SaveResume, SaveBudgetFailure, SaveThen, SaveCancel,
         SaveCircuitOpen, Finalize, SaveFinal, Steady, Unfinished, Unhindered
<1>3. wf'.completed = wf.completed /\ wf'.failed = wf.failed
  <2>1. wf' = wf \/ \E s : wf' = [wf EXCEPT !.status = s]
    BY DEF LoopStep, PlanReturns, PlanFails, LeaveCompleted, WallTimeExceeded, ObeyCancel,
         CircuitOpen, Dispatch, LeaveStalled, Sleep, NothingReady, Wake, Gathered,
         SavePlan, SaveBatch, SaveResume, SaveBudgetFailure, SaveThen, SaveCancel,
         SaveCircuitOpen, Finalize, SaveFinal
  <2>2. wf \in Workflow
    BY DEF IInv, TypeOK
  <2> QED BY <2>1, <2>2 DEF Workflow
<1>4. \A t \in Tasks : pc'[t] = pc[t] \/ (pc[t] = "none" /\ pc'[t] \in {"none", "queued"})
  <2>1. CASE Dispatch
    <3>1. \A t \in Tasks : pc[t] = "none"
      BY <2>1, NoneOutsideBatch DEF Dispatch, Unhindered, Unfinished
    <3> QED BY <2>1, <3>1 DEF Dispatch
  <2>2. CASE ~Dispatch
    BY <2>2 DEF LoopStep, PlanReturns, PlanFails, LeaveCompleted, WallTimeExceeded, ObeyCancel,
         CircuitOpen, LeaveStalled, Sleep, NothingReady, Wake, Gathered,
         SavePlan, SaveBatch, SaveResume, SaveBudgetFailure, SaveThen, SaveCancel,
         SaveCircuitOpen, Finalize, SaveFinal
  <2> QED BY <2>1, <2>2
<1>5. status' = status \/ \E s \in {"SKIPPED", "FAILED"} : status' = Ends(s)
  BY DEF LoopStep, PlanReturns, PlanFails, LeaveCompleted, WallTimeExceeded, ObeyCancel,
         CircuitOpen, Dispatch, LeaveStalled, Sleep, NothingReady, Wake, Gathered,
         SavePlan, SaveBatch, SaveResume, SaveBudgetFailure, SaveThen, SaveCancel,
         SaveCircuitOpen, Finalize, SaveFinal
<1>6. AgentsOnly'
  BY <1>1, <1>4, <1>5 DEF AgentsOnly, Ends, Terminal
<1>7. ASSUME loop' \in Steady PROVE CountsExact' /\ StreamsExact'
  <2>1. CountsExact /\ StreamsExact /\ status' = status /\ ws' = ws
    BY <1>1, <1>2, <1>7
  <2>2. CountedAs("PASSED")' = CountedAs("PASSED") /\ CountedAs("FAILED")' = CountedAs("FAILED")
    BY <1>4, <2>1 DEF CountedAs
  <2>3. CountsExact'
    BY <1>3, <2>1, <2>2 DEF CountsExact
  <2>4. \A w \in Workstreams : StreamExact(w) => StreamExact(w)'
    BY <1>4, <2>1 DEF StreamExact, Members
  <2> QED BY <2>1, <2>3, <2>4 DEF StreamsExact
<1> QED BY <1>2, <1>6, <1>7

(* A coroutine leaves the tasks of the others alone, and with them what     *)
(* they count for.                                                          *)
Own(t) == \A u \in Tasks \ {t} : pc'[u] = pc[u] /\ status'[u] = status[u]

LEMMA OwnTask == ASSUME IInv, NEW t \in Tasks, TaskStep(t) PROVE Own(t)
<1>0. TypeOK
  BY DEF IInv
<1>1. pc' = pc \/ \E place : pc' = [pc EXCEPT ![t] = place]
  BY DEF mem, TaskStep, RejectUnassigned, AcquireGlobal, AcquireAgent, Start, UpdateTask,
         SendWorkflow, LockWorkflow, StoreRow, CommitSave,
         Proceed, AgentReturns, VerifierReturns, UpdateCounters, Goto
<1>2. status' = status \/ \E e \in TaskStatus : status' = [status EXCEPT ![t] = e]
  BY DEF mem, TaskStep, RejectUnassigned, AcquireGlobal, AcquireAgent, Start, UpdateTask,
         SendWorkflow, LockWorkflow, StoreRow, CommitSave,
         AgentReturns, VerifierReturns, AttemptFails, SetStatus,
         UpdateCounters, TaskStatus, Active, Terminal
<1> QED BY <1>0, <1>1, <1>2 DEF Own, TypeOK

(* A coroutine that has not come to its count, and does not come to it.     *)
LEMMA NotYetExact ==
  ASSUME IInv, CountsExact, StreamsExact, NEW t \in Tasks, Own(t), UNCHANGED <<wf, ws>>,
         t \in CountedAs("PASSED") <=> t \in CountedAs("PASSED")',
         t \in CountedAs("FAILED") <=> t \in CountedAs("FAILED")',
         pc'[t] = "writing" \/ (pc[t] # "writing" /\ status'[t] = status[t])
  PROVE  CountsExact' /\ StreamsExact'
<1> USE DEF BeforeCount, InSave
<1>1. CountedAs("PASSED")' = CountedAs("PASSED") /\ CountedAs("FAILED")' = CountedAs("FAILED")
  BY DEF CountedAs, Own
<1>2. CountsExact'
  BY <1>1 DEF CountsExact
<1>3. ASSUME NEW w \in Workstreams, StreamExact(w) PROVE StreamExact(w)'
  <2>1. CASE \E u \in Members(w) : pc[u] = "writing"
    BY <2>1 DEF StreamExact, Members, Own
  <2>2. CASE t \in Members(w) /\ pc'[t] = "writing"
    BY <2>2 DEF StreamExact, Members
  <2>3. CASE /\ ~(t \in Members(w) /\ pc'[t] = "writing")
             /\ ws[w] = WorkstreamStatusOf(status, Members(w))
    <3>1. \A u \in Members(w) : status'[u] = status[u]
      BY <2>3 DEF Members, Own
    <3>2. WorkstreamStatusOf(status', Members(w)) = WorkstreamStatusOf(status, Members(w))
      BY <3>1, StreamSame
    <3> QED BY <2>3, <3>2 DEF StreamExact, Members
  <2> QED BY <1>3, <2>1, <2>2, <2>3 DEF StreamExact
<1> QED BY <1>2, <1>3 DEF StreamsExact

(* A coroutine that proceeds counts its task when the task has ended.       *)
LEMMA ProceedExact ==
  ASSUME IsFiniteSet(Tasks), IInv, CountsExact, AgentsOnly, NEW t \in Tasks,
         pc[t] \in BeforeCount, status' = status, Own(t), Proceed(t)
  PROVE  CountsExact'
<1> USE DEF BeforeCount, InSave
<1>0. TypeOK /\ wf.completed \in Nat /\ wf.failed \in Nat
  BY DEF IInv, TypeOK, Workflow
<1>1. \A s : t \notin CountedAs(s)
  BY DEF CountedAs
<1>2. pc'[t] \notin BeforeCount
  BY <1>0 DEF Proceed, Goto, TypeOK
<1>3. ASSUME NEW s \in Outcome
      PROVE  CountedAs(s)' = IF status[t] = s /\ AgentOf[t] # NoAgent THEN CountedAs(s) \cup {t}
                                                                      ELSE CountedAs(s)
  BY <1>1, <1>2 DEF CountedAs, Own
<1>4. ASSUME NEW s \in Outcome
      PROVE  /\ IsFiniteSet(CountedAs(s))
             /\ Cardinality(CountedAs(s) \cup {t}) = Cardinality(CountedAs(s)) + 1
  <2>1. IsFiniteSet(CountedAs(s))
    BY FS_Subset DEF CountedAs
  <2> QED BY <2>1, <1>1, FS_AddElement
<1>5. "PASSED" \in Outcome /\ "FAILED" \in Outcome
  BY DEF Outcome
<1>6. CASE status[t] \in Outcome /\ AgentOf[t] # NoAgent
  <2>1. wf' = Counted(t)
    BY <1>6 DEF Proceed, Outcome
  <2>2. CASE status[t] = "FAILED"
    <3>1. wf'.failed = wf.failed + 1 /\ wf'.completed = wf.completed
      BY <1>0, <2>1, <2>2 DEF Counted, TypeOK, Workflow
    <3>2. CountedAs("FAILED")' = CountedAs("FAILED") \cup {t} /\ CountedAs("PASSED")' = CountedAs("PASSED")
      BY <1>3, <1>5, <1>6, <2>2
    <3> QED BY <1>4, <1>5, <3>1, <3>2 DEF CountsExact
  <2>3. CASE status[t] = "PASSED"
    <3>1. wf'.failed = wf.failed /\ wf'.completed = wf.completed + 1
      BY <1>0, <2>1, <2>3 DEF Counted, TypeOK, Workflow
    <3>2. CountedAs("PASSED")' = CountedAs("PASSED") \cup {t} /\ CountedAs("FAILED")' = CountedAs("FAILED")
      BY <1>3, <1>5, <1>6, <2>3
    <3> QED BY <1>4, <1>5, <3>1, <3>2 DEF CountsExact
  <2> QED BY <1>6, <2>2, <2>3 DEF Outcome
<1>7. CASE ~(status[t] \in Outcome /\ AgentOf[t] # NoAgent)
  <2>1. wf' = wf
    BY <1>7 DEF Proceed, Outcome
  <2>2. CountedAs("PASSED")' = CountedAs("PASSED") /\ CountedAs("FAILED")' = CountedAs("FAILED")
    BY <1>3, <1>5, <1>7
  <2> QED BY <2>1, <2>2 DEF CountsExact
<1> QED BY <1>6, <1>7

(* UpdateTask brings the workstream up to date with what its tasks are then. *)
LEMMA UpdateExact ==
  ASSUME IsFiniteSet(Tasks), IInv, CountsExact, StreamsExact, AgentsOnly, NEW t \in Tasks,
         UpdateTask(t), Own(t)
  PROVE  CountsExact' /\ StreamsExact'
<1> USE DEF BeforeCount, InSave
<1> DEFINE w == WorkstreamOf[t]
<1>0. TypeOK /\ w \in Workstreams
  BY OrchestratorAssumption DEF IInv
<1>1. /\ pc[t] = "writing" /\ status' = status
      /\ ws' = [ws EXCEPT ![w] = WorkstreamStatusOf(status, Members(w))]
      /\ Proceed(t) \/ (pc' = [pc EXCEPT ![t] = "saving"] /\ UNCHANGED <<wf, wfArg>>)
  BY DEF UpdateTask, Goto
<1>2. CountsExact'
  <2>1. CASE Proceed(t)
    BY <1>1, <2>1, ProceedExact
  <2>2. CASE pc' = [pc EXCEPT ![t] = "saving"] /\ UNCHANGED <<wf, wfArg>>
    <3>1. CountedAs("PASSED")' = CountedAs("PASSED") /\ CountedAs("FAILED")' = CountedAs("FAILED")
      BY <1>0, <1>1, <2>2 DEF CountedAs, TypeOK
    <3> QED BY <2>2, <3>1 DEF CountsExact
  <2> QED BY <1>1, <2>1, <2>2
<1>3. ASSUME NEW v \in Workstreams, Members(v) # {} PROVE StreamExact(v)'
  <2>1. CASE v = w
    BY <1>0, <1>1, <2>1 DEF StreamExact, TypeOK, Members
  <2>2. CASE v # w
    <3>1. t \notin Members(v) /\ ws'[v] = ws[v] /\ StreamExact(v)
      BY <1>0, <1>1, <1>3, <2>2 DEF Members, TypeOK, StreamsExact
    <3> QED BY <1>1, <3>1 DEF StreamExact, Members, Own
  <2> QED BY <2>1, <2>2
<1> QED BY <1>2, <1>3 DEF StreamsExact

LEMMA TaskStepExact ==
  ASSUME IsFiniteSet(Tasks), IInv, ExactInv, NEW t \in Tasks, TaskStep(t)
  PROVE  ExactInv'
<1> USE DEF BeforeCount, InSave
<1> USE DEF mem, db, env, res, ends, hand, snap, round
<1> SUFFICES ASSUME faults' = 0, resumes' = 0
             PROVE  /\ loop' # "resume_save" /\ AgentsOnly'
                    /\ loop' \in Steady => CountsExact' /\ StreamsExact'
  BY DEF ExactInv
<1>0. UNCHANGED <<faults, resumes, loop>> /\ TypeOK /\ CoroutineInv
  BY DEF IInv, TaskStep, RejectUnassigned, AcquireGlobal, AcquireAgent, Start, UpdateTask,
         SendWorkflow, LockWorkflow, StoreRow, CommitSave,
         AgentReturns, VerifierReturns, UpdateCounters
<1>1. loop = "gather" /\ loop \in Steady
  BY <1>0 DEF CoroutineInv, Steady, TaskStep, RejectUnassigned, AcquireGlobal, AcquireAgent,
     Start, UpdateTask, SendWorkflow, LockWorkflow, StoreRow, CommitSave,
     AgentReturns, VerifierReturns, UpdateCounters
<1>2. AgentsOnly /\ CountsExact /\ StreamsExact
  BY <1>0, <1>1 DEF ExactInv
<1>3. Own(t)
  BY OwnTask
<1>4. CASE RejectUnassigned(t) \/ Start(t)
  <2>1. /\ pc[t] \in {"queued", "admitted"} /\ status[t] = "PENDING" /\ pc'[t] = "writing"
        /\ UNCHANGED <<wf, ws>>
    BY <1>0, <1>4 DEF RejectUnassigned, Start, Goto, TypeOK, CoroutineInv
  <2>2. AgentOf[t] = NoAgent => status'[t] = "FAILED"
    BY <1>0, <1>2, <1>4 DEF RejectUnassigned, Start, SetStatus, TypeOK, AgentsOnly
  <2>3. AgentsOnly'
    BY <1>2, <1>3, <2>1, <2>2 DEF AgentsOnly, Own
  <2> QED BY <1>0, <1>1, <1>2, <1>3, <2>1, <2>3, NotYetExact DEF CountedAs
<1>5. CASE AcquireGlobal(t) \/ AcquireAgent(t) \/ UpdateCounters(t)
  <2>1. /\ pc[t] \in {"queued", "has_global", "counting"} /\ UNCHANGED <<status, wf, ws>>
        /\ pc'[t] \in {"has_global", "admitted", "none"}
        /\ AgentOf[t] # NoAgent
    BY <1>0, <1>2, <1>5 DEF AcquireGlobal, AcquireAgent, UpdateCounters, Goto, TypeOK, AgentsOnly
  <2>2. AgentsOnly'
    BY <1>2, <1>3, <2>1 DEF AgentsOnly, Own
  <2> QED BY <1>0, <1>1, <1>2, <1>3, <2>1, <2>2, NotYetExact DEF CountedAs
<1>6. CASE AgentReturns(t) \/ VerifierReturns(t)
  <2>1. /\ pc[t] \in {"executing", "verifying"} /\ status[t] \in Active /\ UNCHANGED <<wf, ws>>
        /\ pc'[t] = "writing" \/ (pc'[t] = "none" /\ status' = status)
    BY <1>0, <1>6 DEF AgentReturns, VerifierReturns, Goto, TypeOK, CoroutineInv, Active
  <2>2. AgentOf[t] # NoAgent
    BY <1>2, <2>1 DEF AgentsOnly
  <2>3. AgentsOnly'
    BY <1>2, <1>3, <2>2 DEF AgentsOnly, Own
  <2> QED BY <1>0, <1>1, <1>2, <1>3, <2>1, <2>3, NotYetExact DEF CountedAs, Active
<1>7. CASE UpdateTask(t) \/ CommitSave(t)
  <2>1. pc[t] \in {"writing", "storing"} /\ status' = status
    BY <1>7 DEF UpdateTask, CommitSave
  <2>2. pc'[t] = "saving" \/ Proceed(t)
    BY <1>0, <1>7 DEF UpdateTask, CommitSave, Goto, TypeOK
  <2>3. AgentOf[t] = NoAgent => pc'[t] \in {"saving", "none"}
    BY <1>0, <1>2, <2>1, <2>2 DEF AgentsOnly, Proceed, Goto, TypeOK
  <2>4. AgentsOnly'
    BY <1>2, <1>3, <2>1, <2>3 DEF AgentsOnly, Own
  <2>5. CASE UpdateTask(t)
    BY <1>0, <1>1, <1>2, <1>3, <2>4, <2>5, UpdateExact
  <2>6. CASE CommitSave(t)
    <3>1. Proceed(t) /\ ws' = ws /\ pc[t] = "storing"
      BY <2>6 DEF CommitSave
    <3>2. CountsExact'
      BY <1>2, <1>3, <2>1, <3>1, ProceedExact
    <3>3. \A w \in Workstreams : StreamExact(w) => StreamExact(w)'
      BY <1>3, <2>1, <3>1 DEF StreamExact, Members, Own
    <3> QED BY <1>0, <1>1, <1>2, <2>4, <3>2, <3>3 DEF StreamsExact
  <2> QED BY <1>7, <2>5, <2>6
<1>8. CASE SendWorkflow(t) \/ LockWorkflow(t) \/ StoreRow(t)
  <2>1. /\ pc[t] \in InSave /\ pc'[t] \in InSave /\ UNCHANGED <<status, wf, ws>>
    BY <1>0, <1>8 DEF SendWorkflow, LockWorkflow, StoreRow, Goto, TypeOK
  <2>2. AgentsOnly'
    BY <1>2, <1>3, <2>1 DEF AgentsOnly, Own
  <2> QED BY <1>0, <1>1, <1>2, <1>3, <2>1, <2>2, NotYetExact DEF CountedAs
<1> QED BY <1>4, <1>5, <1>6, <1>7, <1>8 DEF TaskStep

LEMMA NextExact == ASSUME IsFiniteSet(Tasks) PROVE IInv /\ ExactInv /\ [Next]_vars => ExactInv'
<1> SUFFICES ASSUME IInv, ExactInv, [Next]_vars PROVE ExactInv'
  OBVIOUS
<1> USE DEF BeforeCount, InSave
<1> USE DEF mem, db, env, res, ends, hand, snap, round
<1>0. faults \in Nat /\ resumes \in Nat
  BY DEF IInv, TypeOK
<1>1. CASE LoopStep
  BY <1>1, LoopStepExact
<1>2. ASSUME NEW t \in Tasks, TaskStep(t) PROVE ExactInv'
  BY <1>2, TaskStepExact
<1>3. ASSUME NEW t \in Tasks, Raises(t) PROVE ExactInv'
  BY <1>0, <1>3 DEF Raises, ExactInv
<1>4. CASE Resume
  BY <1>0, <1>4 DEF Resume, ExactInv
<1>5. CASE Crash
  <2>1. UNCHANGED <<faults, resumes, status>> /\ loop' = "down" /\ pc' = NoCoroutines
    BY <1>5 DEF Crash
  <2>2. AgentsOnly => AgentsOnly'
    BY <2>1 DEF AgentsOnly, NoCoroutines
  <2> QED BY <2>1, <2>2 DEF ExactInv, Steady
<1>6. CASE Cancel \/ WallClock \/ BreakerCools \/ Finished \/ UNCHANGED vars
  <2>1. UNCHANGED <<faults, resumes, loop, pc, status, ws, wf>>
    BY <1>6 DEF Cancel, WallClock, BreakerCools, Finished, vars
  <2> QED BY <2>1 DEF ExactInv, AgentsOnly, CountsExact, CountedAs, StreamsExact, StreamExact
<1> QED BY <1>1, <1>2, <1>3, <1>4, <1>5, <1>6 DEF Next

(* Between batches of an undisturbed run the counters are what the tasks    *)
(* show, neither more nor less, and so are the workstreams                  *)
(* (orchestrator.py:760-788).                                               *)
THEOREM BarrierExactHolds ==
  ASSUME IsFiniteSet(Tasks)
  PROVE  Spec => []BarrierExact
<1>1. IInv /\ ExactInv => BarrierExact
  <2> SUFFICES ASSUME IInv, ExactInv, loop = "top", faults = 0, resumes = 0
               PROVE  /\ wf.completed = Cardinality(With(status, "PASSED"))
                      /\ wf.failed = Cardinality({t \in With(status, "FAILED") : AgentOf[t] # NoAgent})
                      /\ \A w \in Workstreams : Members(w) # {} =>
                           ws[w] = WorkstreamStatusOf(status, Members(w))
    BY DEF BarrierExact
  <2>1. AgentsOnly /\ CountsExact /\ StreamsExact /\ \A t \in Tasks : pc[t] = "none"
    BY NoneOutsideBatch DEF ExactInv, Steady
  <2>2. /\ CountedAs("PASSED") = With(status, "PASSED")
        /\ CountedAs("FAILED") = {t \in With(status, "FAILED") : AgentOf[t] # NoAgent}
    BY <2>1 DEF CountedAs, BeforeCount, InSave, With, AgentsOnly
  <2> QED BY <2>1, <2>2 DEF CountsExact, StreamsExact, StreamExact, Members
<1> QED BY <1>1, InitExact, NextExact, InductiveInvariant, PTL DEF Spec

-----------------------------------------------------------------------------
(* The circuit breaker that callers share (CircuitBreaker.tla).             *)

(* RecordFailure leaves a closed breaker closed only below the limit, and a *)
(* half-open breaker always opens with a new cooldown.                      *)
LEMMA FailureTrips ==
  ASSUME NEW x \in Breaker, NEW e \in Errors
  PROVE  /\ RecordFailure(x, e).state = "closed" => RecordFailure(x, e).failures < MaxFailures
         /\ RecordFailure(x, e).state # "half_open"
         /\ x.state = "half_open" => /\ RecordFailure(x, e).state = "open"
                                     /\ ~RecordFailure(x, e).cooled
<1>1. Heard(x, e).state = x.state /\ Heard(x, e).failures \in Nat
  BY DEF Heard, Breaker
<1>2. Tripped(Heard(x, e)).state = "open" /\ ~Tripped(Heard(x, e)).cooled
  BY DEF Tripped, Heard, Breaker
<1>3. \/ RecordFailure(x, e) = Tripped(Heard(x, e))
      \/ /\ RecordFailure(x, e) = Heard(x, e)
         /\ x.state # "half_open" /\ ~(Heard(x, e).failures >= MaxFailures)
  BY DEF RecordFailure
<1> QED BY <1>1, <1>2, <1>3, BreakerAssumption

(* What the other methods leave in the record. *)
LEMMA OtherMethods ==
  ASSUME NEW x \in Breaker
  PROVE  /\ Refreshed(x).state \in {"half_open", x.state}
         /\ Refreshed(x).state = "half_open" /\ x.state # "half_open" => x.state = "open" /\ x.cooled
         /\ Refreshed(x).failures = x.failures
         /\ RecordSuccess(x).state = "closed" /\ RecordSuccess(x).failures = 0
         /\ Reset(x).state = "closed" /\ Reset(x).failures = 0
         /\ CoolDown(x).state = x.state /\ CoolDown(x).failures = x.failures
BY DEF Refreshed, RecordSuccess, Reset, NewBreaker, CoolDown, Breaker

HealthInv == BreakerTypeOK /\ ClosedIsHealthy

(* What a step does to the breaker. *)
LEMMA SharedStep ==
  ASSUME BreakerTypeOK, BreakerNext
  PROVE  /\ \/ UNCHANGED recorded /\ shared' \in {shared, Refreshed(shared), RecordSuccess(shared), Reset(shared)}
            \/ UNCHANGED recorded /\ shared.state = "open" /\ shared' = CoolDown(shared)
            \/ recorded' = recorded + 1 /\ \E e \in Errors : shared' = RecordFailure(shared, e)
         /\ calling' \subseteq Callers /\ recorded' \in 0 .. FailureBound
<1>1. \/ UNCHANGED recorded /\ shared' \in {shared, Refreshed(shared), RecordSuccess(shared), Reset(shared)}
      \/ UNCHANGED recorded /\ shared.state = "open" /\ shared' = CoolDown(shared)
      \/ /\ recorded' = recorded + 1 /\ recorded < FailureBound
         /\ \E e \in Errors : shared' = RecordFailure(shared, e)
  BY DEF BreakerNext, Ask, Succeed, Fail, ResetBreaker, Elapse
<1>2. calling' \subseteq Callers
  BY DEF BreakerTypeOK, BreakerNext, Ask, Succeed, Fail, ResetBreaker, Elapse
<1>3. recorded' \in 0 .. FailureBound
  BY <1>1, CallersAssumption DEF BreakerTypeOK
<1> QED BY <1>1, <1>2, <1>3

LEMMA HealthHolds == BreakerSpec => []HealthInv
<1>1. BreakerInit => HealthInv
  <2> SUFFICES ASSUME BreakerInit PROVE HealthInv
    OBVIOUS
  <2>1. NewBreaker \in Breaker
    BY DEF NewBreaker, Breaker, BreakerStates
  <2> QED
    BY <2>1, BreakerAssumption, CallersAssumption DEF BreakerInit, HealthInv, BreakerTypeOK, ClosedIsHealthy, NewBreaker
<1>2. HealthInv /\ [BreakerNext]_cbVars => HealthInv'
  <2> SUFFICES ASSUME HealthInv, [BreakerNext]_cbVars PROVE HealthInv'
    OBVIOUS
  <2>0. shared \in Breaker /\ recorded \in Nat /\ (shared.state = "closed" => shared.failures < MaxFailures)
    BY CallersAssumption DEF HealthInv, BreakerTypeOK, ClosedIsHealthy
  <2>1. ASSUME shared' \in {shared, Refreshed(shared), RecordSuccess(shared), Reset(shared), CoolDown(shared)}
        PROVE  shared' \in Breaker /\ ClosedIsHealthy'
    <3>1. shared' \in Breaker
      BY <2>0, <2>1, BreakerType DEF Reset
    <3>2. shared'.state = "closed" => shared'.failures < MaxFailures
      BY <2>0, <2>1, OtherMethods, BreakerAssumption
    <3> QED BY <3>1, <3>2 DEF ClosedIsHealthy
  <2>2. ASSUME \E e \in Errors : shared' = RecordFailure(shared, e)
        PROVE  shared' \in Breaker /\ ClosedIsHealthy'
    BY <2>0, <2>2, BreakerType, FailureTrips DEF ClosedIsHealthy
  <2>3. CASE UNCHANGED cbVars
    BY <2>3 DEF HealthInv, BreakerTypeOK, ClosedIsHealthy, cbVars
  <2>4. CASE BreakerNext
    <3>1. shared' \in Breaker /\ ClosedIsHealthy'
      BY <2>1, <2>2, <2>4, SharedStep DEF HealthInv
    <3> QED BY <2>4, <3>1, SharedStep DEF HealthInv, BreakerTypeOK
  <2> QED BY <2>3, <2>4
<1> QED BY <1>1, <1>2, PTL DEF BreakerSpec

(* A breaker that lets calls through without a probe has seen fewer than    *)
(* MaxFailures failures since the last success.                             *)
THEOREM ClosedIsHealthyHolds == BreakerSpec => []ClosedIsHealthy
<1>1. HealthInv => ClosedIsHealthy
  BY DEF HealthInv
<1> QED BY HealthHolds, <1>1, PTL

(* Half open is reached from an open breaker whose cooldown is over, and a  *)
(* failure heard of then opens the breaker with a new cooldown.             *)
THEOREM HalfOpenEarnedHolds == BreakerSpec => HalfOpenEarned
<1> DEFINE Earned ==
      /\ shared'.state = "half_open" /\ shared.state # "half_open" => shared.state = "open" /\ shared.cooled
      /\ shared.state = "half_open" /\ recorded' > recorded => shared'.state = "open" /\ ~shared'.cooled
<1>1. HealthInv /\ [BreakerNext]_cbVars => [Earned]_cbVars
  <2> SUFFICES ASSUME HealthInv, BreakerNext PROVE Earned
    OBVIOUS
  <2>1. shared \in Breaker /\ recorded \in Nat
    BY CallersAssumption DEF HealthInv, BreakerTypeOK
  <2>2. CASE UNCHANGED recorded /\ shared' \in {shared, Refreshed(shared), RecordSuccess(shared), Reset(shared)}
    BY <2>1, <2>2, OtherMethods
  <2>3. CASE UNCHANGED recorded /\ shared.state = "open" /\ shared' = CoolDown(shared)
    BY <2>1, <2>3, OtherMethods
  <2>4. CASE recorded' = recorded + 1 /\ \E e \in Errors : shared' = RecordFailure(shared, e)
    BY <2>1, <2>4, FailureTrips
  <2> QED BY <2>2, <2>3, <2>4, SharedStep DEF HealthInv
<1> QED BY <1>1, HealthHolds, PTL DEF BreakerSpec, HalfOpenEarned
=============================================================================
