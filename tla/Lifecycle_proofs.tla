--------------------------- MODULE Lifecycle_proofs ---------------------------
(***************************************************************************)
(* What is proved of a workflow on the dashboard server that handles one   *)
(* request at a time, for every number of requests, crashes and faults and *)
(* every task graph: it never has two background tasks, and the registry   *)
(* names the one it has (OneRunner); and, on top of that, what becomes of  *)
(* its rows.                                                               *)
(***************************************************************************)
EXTENDS Lifecycle, FiniteSetTheorems, TLAPS

(* What the registry's check covers: from it to the start of the new        *)
(* background task nobody may register another one.                        *)
Resuming == {"retry_reset", "retry_count", "retry_mark", "retry_resume"}

OneBusy  == \A h, k \in Requests : req[h] \in InFlight /\ req[k] \in InFlight => h = k
StillFree == \A h \in Requests : req[h] \in Resuming => registry = NoRunner

Types ==
  /\ registry \in Runners \cup {NoRunner}
  /\ run \in [Runners -> Places]
  /\ req \in [Requests -> InFlight \cup Answers]

IInv == Types /\ OneBusy /\ StillFree /\ OneRunner

(* A background task moves on without leaving the registry.                *)
Moves ==
  /\ UNCHANGED <<registry, req>>
  /\ \/ run' = run
     \/ \E r \in Runners, p \in Places : Live(r) /\ run' = [run EXCEPT ![r] = p]

(* A request moves on, or is answered, and touches neither the background   *)
(* tasks nor the registry.                                                 *)
Handles ==
  /\ UNCHANGED <<registry, run>>
  /\ \E h \in Requests, p \in InFlight \cup Answers :
       /\ req[h] \in InFlight
       /\ req' = [req EXCEPT ![h] = p]
       /\ p \in Resuming => req[h] \in Resuming \/ registry = NoRunner

(* The inductive invariant survives a move of a background task. *)
LEMMA MovesKeep == IInv /\ Moves => IInv'
<1> SUFFICES ASSUME IInv, Moves PROVE IInv'
  OBVIOUS
<1>1. OneBusy' /\ StillFree'
  BY DEF IInv, Moves, OneBusy, StillFree
<1>2. CASE run' = run
  BY <1>1, <1>2 DEF IInv, Moves, Types, OneRunner, Live
<1>3. CASE \E r \in Runners, p \in Places : Live(r) /\ run' = [run EXCEPT ![r] = p]
  <2>1. PICK r \in Runners, p \in Places : Live(r) /\ run' = [run EXCEPT ![r] = p]
    BY <1>3
  <2>2. Types'
    BY <2>1 DEF IInv, Moves, Types
  <2>3. OneRunner'
    BY <2>1 DEF IInv, Moves, Types, OneRunner, Live
  <2> QED BY <1>1, <2>2, <2>3 DEF IInv
<1> QED BY <1>2, <1>3 DEF Moves

(* The inductive invariant survives a step of a request's handler. *)
LEMMA HandlesKeep == IInv /\ Handles => IInv'
<1> SUFFICES ASSUME IInv, Handles PROVE IInv'
  OBVIOUS
<1>1. PICK h \in Requests, p \in InFlight \cup Answers :
        /\ req[h] \in InFlight
        /\ req' = [req EXCEPT ![h] = p]
        /\ p \in Resuming => req[h] \in Resuming \/ registry = NoRunner
  BY DEF Handles
<1>2. Types'
  BY <1>1 DEF IInv, Handles, Types
<1>3. OneBusy'
  BY <1>1 DEF IInv, Types, OneBusy
<1>4. StillFree'
  BY <1>1 DEF IInv, Handles, Types, StillFree
<1>5. OneRunner'
  BY DEF IInv, Handles, OneRunner, Live
<1> QED BY <1>2, <1>3, <1>4, <1>5 DEF IInv

(* Every step of a background task but the last is a move. *)
LEMMA RunnersMove ==
  ASSUME NEW r \in Runners, IInv, RunnerStep(r), ~Close(r)
  PROVE  Moves
<1> USE DEF Live, Places, GotoRun
<1>1. CASE Load(r)
  BY <1>1 DEF Load, Moves
<1>2. CASE SavePlan(r)
  BY <1>2 DEF SavePlan, Moves
<1>3. CASE Dispatch(r)
  BY <1>3 DEF Dispatch, Moves
<1>4. CASE SaveBatch(r) \/ BudgetEnds(r)
  BY <1>4 DEF SaveBatch, BudgetEnds, FailOverBudget, Gathered, Moves
<1>5. CASE ObeyCancel(r)
  BY <1>5 DEF ObeyCancel, AtTop, Moves
<1>6. CASE LeaveLoop(r)
  BY <1>6 DEF LeaveLoop, AtTop, Moves
<1>7. CASE Finalize(r)
  BY <1>7 DEF Finalize, Moves
<1>8. CASE MarkFailed(r)
  BY <1>8 DEF MarkFailed, Moves
<1>9. CASE \E t \in Tasks : StartTask(r, t) \/ RejectTask(r, t) \/ EndTask(r, t)
  BY <1>9 DEF StartTask, RejectTask, EndTask, Moves
<1> QED BY <1>1, <1>2, <1>3, <1>4, <1>5, <1>6, <1>7, <1>8, <1>9 DEF RunnerStep

(* The last step frees the registry, in which there was nobody else. *)
LEMMA CloseKeeps == \A r \in Runners : IInv /\ Close(r) => IInv'
<1> SUFFICES ASSUME NEW r \in Runners, IInv, Close(r) PROVE IInv'
  OBVIOUS
<1> USE DEF Close, GotoRun
<1>1. Types' /\ OneBusy' /\ StillFree'
  BY DEF IInv, Types, Places, OneBusy, StillFree
<1>2. OneRunner'
  BY DEF IInv, Types, OneRunner, Live
<1> QED BY <1>1, <1>2 DEF IInv

(* Every step of a handler but the start of a background task is a handler's *)
(* own.                                                                      *)
LEMMA RequestsHandle ==
  ASSUME NEW h \in Requests, IInv, RequestStep(h), ~RetryResume(h)
  PROVE  Handles
<1>0. ASSUME NEW p \in InFlight \cup Answers, GotoReq(h, p), req[h] \in InFlight,
             p \notin Resuming, UNCHANGED <<registry, run>>
      PROVE  Handles
  BY <1>0 DEF Handles, GotoReq
<1> USE DEF InFlight, Answers, Resuming, GotoReq, runners, rows
<1>1. CASE CancelSignal(h)
  <2>1. GotoReq(h, "cancel_update") /\ req[h] = "cancel" /\ UNCHANGED <<registry, run>>
    BY <1>1 DEF CancelSignal
  <2> QED BY <2>1, <1>0
<1>2. CASE CancelUpdate(h)
  <2>1. GotoReq(h, "refused") \/ GotoReq(h, "ok")
    BY <1>2 DEF CancelUpdate
  <2>2. req[h] = "cancel_update" /\ UNCHANGED <<registry, run>>
    BY <1>2 DEF CancelUpdate
  <2> QED BY <2>1, <2>2, <1>0
<1>3. CASE RetryRead(h)
  <2>1. GotoReq(h, "retry_check") \/ GotoReq(h, "refused")
    BY <1>3 DEF RetryRead
  <2>2. req[h] = "retry" /\ UNCHANGED <<registry, run>>
    BY <1>3 DEF RetryRead
  <2> QED BY <2>1, <2>2, <1>0
<1>4. CASE RetryCheck(h)
  BY <1>4 DEF RetryCheck, Handles
<1>5. CASE RetryReset(h)
  BY <1>5 DEF RetryReset, Handles
<1>6. CASE RetryCount(h)
  BY <1>6 DEF RetryCount, Handles
<1>7. CASE RetryMark(h)
  BY <1>7 DEF RetryMark, Handles
<1>8. CASE RetryRaises(h)
  BY <1>8 DEF RetryRaises, Handles
<1>9. CASE DeleteRead(h)
  <2>1. GotoReq(h, "delete_tasks") \/ GotoReq(h, "refused")
    BY <1>9 DEF DeleteRead
  <2>2. req[h] = "delete" /\ UNCHANGED <<registry, run>>
    BY <1>9 DEF DeleteRead
  <2> QED BY <2>1, <2>2, <1>0
<1>10. CASE DeleteTasks(h)
  <2>1. GotoReq(h, "delete_workstreams")
    BY <1>10 DEF DeleteTasks
  <2>2. req[h] = "delete_tasks" /\ UNCHANGED <<registry, run>>
    BY <1>10 DEF DeleteTasks
  <2> QED BY <2>1, <2>2, <1>0
<1>11. CASE DeleteWorkstreams(h)
  <2>1. GotoReq(h, "delete_workflow") \/ GotoReq(h, "error")
    BY <1>11 DEF DeleteWorkstreams
  <2>2. req[h] = "delete_workstreams" /\ UNCHANGED <<registry, run>>
    BY <1>11 DEF DeleteWorkstreams
  <2> QED BY <2>1, <2>2, <1>0
<1>12. CASE DeleteWorkflow(h)
  BY <1>12 DEF DeleteWorkflow, Handles
<1> QED BY <1>1, <1>2, <1>3, <1>4, <1>5, <1>6, <1>7, <1>8, <1>9, <1>10, <1>11, <1>12
        DEF RequestStep

(* The retry starts its background task into a registry that is still free. *)
LEMMA ResumeKeeps == \A h \in Requests : IInv /\ RetryResume(h) => IInv'
<1> SUFFICES ASSUME NEW h \in Requests, IInv, RetryResume(h) PROVE IInv'
  OBVIOUS
<1> USE DEF RetryResume, GotoReq, GotoRun
<1>0. req[h] \in InFlight /\ req[h] \in Resuming /\ h \in Runners
  BY DEF InFlight, Resuming, Runners
<1>1. registry = NoRunner /\ \A r \in Runners : ~Live(r)
  BY <1>0, LifecycleAssumption DEF IInv, StillFree, OneRunner, Runners
<1>2. \A k \in Requests : req[k] \in InFlight => k = h
  BY <1>0 DEF IInv, OneBusy
<1>3. Types'
  BY <1>0 DEF IInv, Types, Places, InFlight, Answers
<1>4. OneBusy'
  BY <1>2 DEF IInv, Types, OneBusy, InFlight
<1>5. StillFree'
  BY <1>2 DEF IInv, Types, StillFree, Resuming, InFlight
<1>6. OneRunner'
  BY <1>0, <1>1 DEF IInv, Types, OneRunner, Live
<1> QED BY <1>3, <1>4, <1>5, <1>6 DEF IInv

(* A mishap of a background task is a move of it, or leaves it where it is. *)
LEMMA MishapsMove ==
  ASSUME NEW r \in Runners, IInv, Mishap(r)
  PROVE  Moves
<1> USE DEF Live, Places, GotoRun
<1>1. CASE CircuitOpens(r)
  BY <1>1 DEF CircuitOpens, AtTop, Moves
<1>2. CASE WallTimeEnds(r)
  BY <1>2 DEF WallTimeEnds, FailOverBudget, AtTop, Moves
<1>3. CASE Raise(r)
  BY <1>3 DEF Raise, Moves
<1>4. CASE MarkFailedRaises(r)
  BY <1>4 DEF MarkFailedRaises, Moves
<1>5. CASE \E t \in Tasks : RetryTask(r, t) \/ TaskRaises(r, t) \/ BreaksLimit(r, t)
  BY <1>5 DEF RetryTask, TaskRaises, BreaksLimit, Moves
<1> QED BY <1>1, <1>2, <1>3, <1>4, <1>5 DEF Mishap

(* With at most one request at a time, a request arrives when none is in    *)
(* flight.                                                                  *)
LEMMA ArriveKeeps ==
  ASSUME MaxOverlap \in {0, 1}, IsFiniteSet(Requests)
  PROVE  \A h \in Requests : IInv /\ Arrive(h) => IInv'
<1> SUFFICES ASSUME NEW h \in Requests, IInv, Arrive(h) PROVE IInv'
  OBVIOUS
<1>1. IsFiniteSet(Busy) /\ Cardinality(Busy) \in Nat
  <2>1. Busy \subseteq Requests
    BY DEF Busy
  <2> QED BY <2>1, FS_Subset, FS_CardinalityType
<1>2. Cardinality(Busy) = 0
  BY <1>1 DEF Arrive
<1>3. Busy = {}
  BY <1>1, <1>2, FS_EmptySet
<1>4. \A k \in Requests : req[k] \notin InFlight
  BY <1>3 DEF Busy
<1>5. PICK k \in Kinds : req' = [req EXCEPT ![h] = k]
  BY DEF Arrive, GotoReq
<1>6. k \in InFlight /\ k \notin Resuming
  BY LifecycleAssumption DEF InFlight, Resuming
<1>7. UNCHANGED <<registry, run>>
  BY DEF Arrive, runners
<1>8. Types'
  BY <1>5, <1>6, <1>7 DEF IInv, Types
<1>9. OneBusy'
  BY <1>4, <1>5 DEF IInv, Types, OneBusy
<1>10. StillFree'
  BY <1>4, <1>5, <1>6, <1>7 DEF IInv, Types, StillFree, Resuming, InFlight
<1>11. OneRunner'
  BY <1>7 DEF IInv, OneRunner, Live
<1> QED BY <1>8, <1>9, <1>10, <1>11 DEF IInv

(* The crash ends every background task and every request. *)
LEMMA CrashKeeps == IInv /\ Crash => IInv'
<1> SUFFICES ASSUME IInv, Crash PROVE IInv'
  OBVIOUS
<1>1. \A h \in Requests : req'[h] \notin InFlight
  BY DEF IInv, Types, Crash, Busy, InFlight, Answers
<1>2. Types'
  BY DEF IInv, Types, Crash, Places, Answers
<1>3. OneRunner'
  BY DEF IInv, Types, Crash, OneRunner, Live
<1>4. OneBusy' /\ StillFree'
  BY <1>1 DEF OneBusy, StillFree, Resuming, InFlight
<1> QED BY <1>2, <1>3, <1>4 DEF IInv

(* The launch registers its background task. *)
LEMMA InitHolds == Init => IInv
BY DEF Init, IInv, Types, OneBusy, StillFree, OneRunner, Live, Runners, Places,
       InFlight, Answers, Resuming

LEMMA LaunchMoves ==
  ASSUME IInv, Generate \/ Seed \/ Plan \/ PlanFails
  PROVE  Moves
<1> Launch \in Runners
  BY DEF Runners
<1> QED BY DEF Generate, Seed, Plan, PlanFails, Moves, Live, Places, GotoRun

LEMMA StepKeeps ==
  ASSUME MaxOverlap \in {0, 1}, IsFiniteSet(Requests)
  PROVE  IInv /\ [Next]_vars => IInv'
<1> SUFFICES ASSUME IInv, [Next]_vars PROVE IInv'
  OBVIOUS
<1>1. CASE Generate \/ Seed \/ Plan \/ PlanFails
  BY <1>1, LaunchMoves, MovesKeep
<1>2. ASSUME NEW r \in Runners, RunnerStep(r) PROVE IInv'
  BY <1>2, RunnersMove, MovesKeep, CloseKeeps
<1>3. ASSUME NEW h \in Requests, RequestStep(h) PROVE IInv'
  BY <1>3, RequestsHandle, HandlesKeep, ResumeKeeps
<1>4. ASSUME NEW h \in Requests, Arrive(h) PROVE IInv'
  BY <1>4, ArriveKeeps
<1>5. ASSUME NEW r \in Runners, Mishap(r) PROVE IInv'
  BY <1>5, MishapsMove, MovesKeep
<1>6. CASE Crash
  BY <1>6, CrashKeeps
<1>7. CASE Startup
  <2>1. UNCHANGED <<registry, run, req>>
    BY <1>7 DEF Startup, Restart, FailOrphan, CancelOrphanTasks, runners
  <2> QED BY <2>1, MovesKeep DEF Moves
<1>8. CASE UNCHANGED vars
  BY <1>8, MovesKeep DEF Moves, vars, runners
<1>9. Launch \in Runners /\ Requests \subseteq Runners
  BY DEF Runners
<1> QED BY <1>1, <1>2, <1>3, <1>4, <1>5, <1>6, <1>7, <1>8, <1>9 DEF Next, LaunchStep

(* When requests do not overlap, every background task of the workflow is   *)
(* the one the registry names, so there is at most one: cancel reaches it   *)
(* and retry sees it.  Overlapping retries break this (see OneRunner).      *)
THEOREM OneRunnerHolds ==
  ASSUME MaxOverlap \in {0, 1}, IsFiniteSet(Requests)
  PROVE  Spec => []OneRunner
<1>1. IInv => OneRunner
  BY DEF IInv
<1> QED BY <1>1, InitHolds, StepKeeps, PTL DEF Spec

-----------------------------------------------------------------------------
(* What a coroutine of r's batch does: task t becomes s, and the rows are   *)
(* written by one of its statements or not at all.                         *)
TaskActs(r, t, s) ==
  /\ run[r] = "looping" /\ t \in left[r] /\ s \in BatchStatus
  /\ mem' = [mem EXCEPT ![r] = [mem[r] EXCEPT ![t] = s]]
  /\ row' \in {row, RowAfter("in_progress"), "in_progress"} /\ UNCHANGED spec
  /\ taskRow' \in [Tasks -> TaskStatus \cup {Absent}]
  /\ \A u \in Tasks : taskRow'[u] \in {taskRow[u]}
       \cup (IF u = t THEN {s} ELSE IF u \in batch[r] THEN Had(r, u) ELSE {mem[r][u]})
  /\ left' \in {left, [left EXCEPT ![r] = @ \ {t}]} /\ (left' = left => s = "IN_PROGRESS")
  /\ over' \in {over, [over EXCEPT ![r] = TRUE]}
  /\ faults' \in 0 .. MaxFaults
  /\ UNCHANGED <<server, fresh, registry, run, batch, signalled, req, noted, crashes>>

(* A coroutine runs in the batch, and its task has not ended. *)
LeftInv ==
  \A r \in Runners :
    /\ left[r] \subseteq batch[r]
    /\ left[r] # {} => run[r] = "looping"
    /\ \A t \in left[r] : mem[r][t] \in {"PENDING", "IN_PROGRESS"}

LEMMA HadTyped ==
  ASSUME TypeOK, NEW r \in Runners, NEW u \in Tasks
  PROVE  Had(r, u) \subseteq TaskStatus \cup {Absent}
BY DEF TypeOK, Memory, Had, TaskStatus, Active

LEMMA BecomesActs ==
  ASSUME TypeOK, NEW r \in Runners, NEW t \in batch[r], NEW s \in BatchStatus,
         NEW w \in {row, RowAfter("in_progress")}, Becomes(r, t, s, w)
  PROVE  /\ mem' = [mem EXCEPT ![r] = [mem[r] EXCEPT ![t] = s]]
         /\ row' \in {row, RowAfter("in_progress"), "in_progress"} /\ UNCHANGED spec
         /\ taskRow' \in [Tasks -> TaskStatus \cup {Absent}]
         /\ \A u \in Tasks : taskRow'[u] \in {taskRow[u]}
              \cup (IF u = t THEN {s} ELSE IF u \in batch[r] THEN Had(r, u) ELSE {mem[r][u]})
<1>0. /\ taskRow \in [Tasks -> TaskStatus \cup {Absent}] /\ t \in Tasks
      /\ mem[r] \in [Tasks -> TaskStatus \cup {Absent}] /\ batch[r] \subseteq Tasks
      /\ s \in TaskStatus
  BY DEF TypeOK, Memory, BatchStatus, TaskStatus, Active, Terminal
<1>1. mem' = [mem EXCEPT ![r] = [mem[r] EXCEPT ![t] = s]]
  BY DEF Becomes, SetMem
<1>2. CASE UpdateTask(t, s, w)
  BY <1>0, <1>1, <1>2 DEF UpdateTask
<1>3. CASE UpsertBeside(r, t, s)
  <2>1. PICK sent \in [batch[r] -> BatchStatus] :
          /\ sent[t] = s
          /\ \A u \in batch[r] \ {t} : sent[u] \in Had(r, u)
          /\ Upsert("in_progress", [u \in Tasks |-> IF u \in batch[r] THEN sent[u] ELSE mem[r][u]])
    BY <1>3 DEF UpsertBeside
  <2>2. \A u \in batch[r] : sent[u] \in TaskStatus
    BY <2>1 DEF BatchStatus, TaskStatus, Active, Terminal
  <2>3. row' = "in_progress" /\ UNCHANGED spec
    BY <2>1 DEF Upsert
  <2>4. \A u \in Tasks : taskRow'[u] \in {taskRow[u], IF u \in batch[r] THEN sent[u] ELSE mem[r][u]}
        /\ taskRow' \in [Tasks -> TaskStatus \cup {Absent}]
    BY <2>1, <2>2, <1>0 DEF Upsert
  <2> QED BY <2>1, <2>3, <2>4, <1>0, <1>1
<1> QED BY <1>2, <1>3 DEF Becomes

LEMMA TasksAct ==
  ASSUME TypeOK, LeftInv, NEW r \in Runners, NEW t \in Tasks,
         \/ StartTask(r, t) \/ RejectTask(r, t) \/ EndTask(r, t)
         \/ RetryTask(r, t) \/ TaskRaises(r, t) \/ BreaksLimit(r, t)
  PROVE  \E s \in BatchStatus : TaskActs(r, t, s)
<1>0. /\ run[r] = "looping" /\ t \in left[r] /\ t \in batch[r]
      /\ mem[r][t] \in {"PENDING", "IN_PROGRESS"}
  BY DEF LeftInv, Runs, StartTask, RejectTask, EndTask, RetryTask, TaskRaises, BreaksLimit
<1>1. /\ mem \in [Runners -> Memory] /\ mem[r] \in [Tasks -> TaskStatus \cup {Absent}]
      /\ taskRow \in [Tasks -> TaskStatus \cup {Absent}]
      /\ faults \in 0 .. MaxFaults /\ (faults < MaxFaults => faults + 1 \in 0 .. MaxFaults)
  BY LifecycleAssumption DEF TypeOK, Memory
<1>2. {"PENDING", "IN_PROGRESS", "PASSED", "FAILED"} = BatchStatus
  BY DEF BatchStatus
<1> USE <1>0, <1>1, <1>2 DEF TaskActs, CoroutineEnds
<1>3. CASE StartTask(r, t)
  <2>1. Becomes(r, t, "IN_PROGRESS", row) /\ UNCHANGED <<left, over, faults>>
        /\ UNCHANGED <<server, fresh, registry, run, batch, signalled, req, noted, crashes>>
    BY <1>3 DEF StartTask, work, bounds
  <2>2. TaskActs(r, t, "IN_PROGRESS")
    BY <2>1, BecomesActs
  <2> QED BY <2>2
<1>4. CASE RejectTask(r, t)
  <2>1. Becomes(r, t, "FAILED", row) /\ left' = [left EXCEPT ![r] = @ \ {t}] /\ UNCHANGED <<over, faults>>
        /\ UNCHANGED <<server, fresh, registry, run, batch, signalled, req, noted, crashes>>
    BY <1>4 DEF RejectTask, bounds
  <2>2. left' # left
    BY <2>1 DEF TypeOK
  <2>3. TaskActs(r, t, "FAILED")
    BY <2>1, <2>2, BecomesActs
  <2> QED BY <2>3
<1>5. CASE EndTask(r, t)
  <2>1. PICK s \in {"PASSED", "FAILED"} : Becomes(r, t, s, RowAfter("in_progress"))
    BY <1>5 DEF EndTask
  <2>2. left' = [left EXCEPT ![r] = @ \ {t}] /\ UNCHANGED <<over, faults>>
        /\ UNCHANGED <<server, fresh, registry, run, batch, signalled, req, noted, crashes>>
    BY <1>5 DEF EndTask, bounds
  <2>3. left' # left
    BY <2>2 DEF TypeOK
  <2>4. TaskActs(r, t, s)
    BY <2>1, <2>2, <2>3, BecomesActs
  <2> QED BY <2>4
<1>6. CASE RetryTask(r, t)
  <2>1. Becomes(r, t, "PENDING", row) /\ left' = [left EXCEPT ![r] = @ \ {t}]
        /\ UNCHANGED over /\ faults' \in 0 .. MaxFaults
        /\ UNCHANGED <<server, fresh, registry, run, batch, signalled, req, noted, crashes>>
    BY <1>6 DEF RetryTask, Fault
  <2>2. left' # left
    BY <2>1 DEF TypeOK
  <2>3. TaskActs(r, t, "PENDING")
    BY <2>1, <2>2, BecomesActs
  <2> QED BY <2>3
<1>7. CASE TaskRaises(r, t)
  <2>1. left' = [left EXCEPT ![r] = @ \ {t}] /\ UNCHANGED over /\ faults' \in 0 .. MaxFaults
        /\ UNCHANGED <<server, fresh, registry, run, batch, signalled, req, noted, crashes>>
    BY <1>7 DEF TaskRaises, Fault
  <2>2. left' # left
    BY <2>1 DEF TypeOK
  <2>3. PICK s \in BatchStatus :
          \/ mem' = [mem EXCEPT ![r] = [mem[r] EXCEPT ![t] = s]] /\ UNCHANGED <<row, spec, taskRow>>
          \/ \E w \in {row, RowAfter("in_progress")} : Becomes(r, t, s, w)
    BY <1>7 DEF TaskRaises, SetMem, rows
  <2>4. TaskActs(r, t, s)
    BY <2>1, <2>2, <2>3, BecomesActs
  <2> QED BY <2>4
<1>8. CASE BreaksLimit(r, t)
  <2>1. left' = [left EXCEPT ![r] = @ \ {t}] /\ over' = [over EXCEPT ![r] = TRUE]
        /\ faults' \in 0 .. MaxFaults
        /\ UNCHANGED <<server, fresh, registry, run, batch, signalled, req, noted, crashes>>
    BY <1>8 DEF BreaksLimit, Fault
  <2>2. left' # left
    BY <2>1 DEF TypeOK
  <2>3. CASE UNCHANGED <<mem, rows>>
    <3>1. mem' = [mem EXCEPT ![r] = [mem[r] EXCEPT ![t] = "IN_PROGRESS"]]
      BY <2>3, <1>8 DEF BreaksLimit
    <3>2. TaskActs(r, t, "IN_PROGRESS")
      BY <2>1, <2>2, <2>3, <3>1 DEF rows
    <3> QED BY <3>2
  <2>4. CASE Becomes(r, t, "PASSED", RowAfter("in_progress"))
    <3>1. TaskActs(r, t, "PASSED")
      BY <2>1, <2>2, <2>4, BecomesActs
    <3> QED BY <3>1
  <2> QED BY <1>8, <2>3, <2>4 DEF BreaksLimit
<1> QED BY <1>3, <1>4, <1>5, <1>6, <1>7, <1>8

(* What the main loop's statements write are statuses. *)
LEMMA WritesTyped ==
  ASSUME TypeOK, NEW m \in Memory, NEW s \in RowStatus
  PROVE  Upsert(s, m) => row' \in RowStatus /\ spec' \in BOOLEAN /\ taskRow' \in Memory
BY DEF TypeOK, Upsert, Memory

LEMMA TypeKept == TypeOK /\ LeftInv /\ [Next]_vars => TypeOK'
<1> SUFFICES ASSUME TypeOK, LeftInv, [Next]_vars PROVE TypeOK'
  OBVIOUS
<1>0. /\ NoTasks \in Memory /\ Launch \in Runners /\ Requests \subseteq Runners
      /\ "in_progress" \in RowStatus /\ "cancelled" \in RowStatus
      /\ "completed" \in RowStatus /\ "failed" \in RowStatus
  BY DEF NoTasks, Memory, Runners, RowStatus, Settled
<1>1. ASSUME NEW r \in Runners
      PROVE  /\ mem[r] \in Memory /\ taskRow \in Memory /\ FinalStatus(r) \in RowStatus
             /\ \A s \in TaskStatus : Ends(r, s) \in Memory
             /\ \A t \in Tasks, s \in TaskStatus : [mem[r] EXCEPT ![t] = s] \in Memory
  BY <1>0 DEF TypeOK, Memory, Ends, FinalStatus
<1>2. ASSUME NEW r \in Runners, NEW p \in Places
      PROVE  GotoRun(r, p) => run' \in [Runners -> Places]
  BY DEF GotoRun, TypeOK
<1>3. ASSUME NEW r \in Runners, NEW m \in Memory
      PROVE  SetMem(r, m) => mem' \in [Runners -> Memory]
  BY DEF SetMem, TypeOK
<1>4. ASSUME NEW h \in Requests, NEW p \in InFlight \cup Answers
      PROVE  GotoReq(h, p) => req' \in [Requests -> InFlight \cup Answers]
  BY DEF GotoReq, TypeOK
<1>41. ASSUME NEW r \in Runners PROVE LeaveBatch(r) => batch' \in [Runners -> SUBSET Tasks]
  BY DEF LeaveBatch, TypeOK
<1>5. CASE UNCHANGED vars
  BY <1>5 DEF vars, rows, runners, work, bounds, TypeOK
<1>6. CASE Generate \/ Seed \/ Plan \/ PlanFails
  <2>1. CASE Generate
    BY <2>1, <1>0, <1>2 DEF Generate, TypeOK, Places, rows, work, bounds
  <2>2. CASE Seed
    BY <2>2, <1>0, <1>2 DEF Seed, TypeOK, Places, rows, work, bounds
  <2>3. CASE Plan
    <3>1. [t \in Tasks |-> "PENDING"] \in Memory
      BY DEF Memory, TaskStatus
    <3> QED BY <2>3, <3>1, <1>0, <1>2, <1>3 DEF Plan, TypeOK, Places, rows, work, bounds
  <2>4. CASE PlanFails
    BY <2>4, <1>0, <1>2 DEF PlanFails, TypeOK, Places, rows, work, bounds
  <2> QED BY <1>6, <2>1, <2>2, <2>3, <2>4
<1>61. ASSUME NEW r \in Runners, NEW t \in Tasks, NEW s \in BatchStatus, TaskActs(r, t, s)
       PROVE  TypeOK'
  <2>1. s \in TaskStatus
    BY DEF BatchStatus, TaskStatus, Active, Terminal
  <2>2. mem' \in [Runners -> Memory]
    BY <1>61, <2>1, <1>1 DEF TaskActs, TypeOK
  <2>3. left' \in [Runners -> SUBSET Tasks] /\ over' \in [Runners -> BOOLEAN]
    BY <1>61 DEF TaskActs, TypeOK
  <2>4. row' \in RowStatus /\ taskRow' \in Memory
    BY <1>61, <1>0 DEF TaskActs, TypeOK, RowAfter, Memory
  <2> QED BY <1>61, <2>2, <2>3, <2>4 DEF TaskActs, TypeOK
<1>7. ASSUME NEW r \in Runners, RunnerStep(r) PROVE TypeOK'
  <2> USE <1>1, <1>2, <1>3, <1>41, WritesTyped DEF TypeOK, Places, rows, work, bounds
  <2>1. CASE Load(r)
    BY <2>1 DEF Load
  <2>2. CASE SavePlan(r)
    BY <2>2, <1>0 DEF SavePlan
  <2>3. CASE Dispatch(r)
    <3>1. ReadyTasks(mem[r]) \in SUBSET Tasks
      BY DEF ReadyTasks, With
    <3> QED BY <2>3, <3>1 DEF Dispatch
  <2>4. CASE SaveBatch(r)
    BY <2>4, <1>0 DEF SaveBatch
  <2>5. CASE ObeyCancel(r)
    BY <2>5, <1>0 DEF ObeyCancel, AtTop, TaskStatus, Terminal
  <2>6. CASE LeaveLoop(r)
    BY <2>6 DEF LeaveLoop
  <2>7. CASE Finalize(r)
    BY <2>7, <1>0 DEF Finalize
  <2>8. CASE MarkFailed(r)
    BY <2>8, <1>0 DEF MarkFailed
  <2>9. CASE Close(r)
    BY <2>9, <1>0 DEF Close
  <2>10. CASE \E t \in Tasks : StartTask(r, t) \/ RejectTask(r, t) \/ EndTask(r, t)
    BY <2>10, <1>61, TasksAct
  <2>11. CASE BudgetEnds(r)
    BY <2>11, <1>0 DEF BudgetEnds, FailOverBudget
  <2> QED BY <1>7, <2>1, <2>2, <2>3, <2>4, <2>5, <2>6, <2>7, <2>8, <2>9, <2>10, <2>11 DEF RunnerStep
<1>8. ASSUME NEW r \in Runners, Mishap(r) PROVE TypeOK'
  <2> USE <1>0, <1>1, <1>2, <1>3, <1>41, WritesTyped DEF TypeOK, Places, rows, work, bounds, Fault
  <2>0. faults < MaxFaults => faults + 1 \in 0 .. MaxFaults
    BY LifecycleAssumption
  <2>1. CASE CircuitOpens(r)
    BY <2>1, <2>0 DEF CircuitOpens, TaskStatus, Terminal
  <2>2. CASE WallTimeEnds(r)
    BY <2>2, <2>0 DEF WallTimeEnds, FailOverBudget
  <2>3. CASE Raise(r) \/ MarkFailedRaises(r)
    BY <2>3, <2>0 DEF Raise, MarkFailedRaises
  <2>4. CASE \E t \in Tasks : RetryTask(r, t) \/ TaskRaises(r, t) \/ BreaksLimit(r, t)
    BY <2>4, <1>61, TasksAct
  <2> QED BY <1>8, <2>1, <2>2, <2>3, <2>4 DEF Mishap
<1>9. ASSUME NEW h \in Requests, Arrive(h) \/ RequestStep(h) PROVE TypeOK'
  <2> USE <1>0, <1>4 DEF TypeOK, InFlight, Answers, rows, runners, work, bounds
  <2>1. CASE Arrive(h)
    BY <2>1, LifecycleAssumption DEF Arrive
  <2>2. CASE CancelSignal(h) \/ CancelUpdate(h)
    BY <2>2 DEF CancelSignal, CancelUpdate
  <2>3. CASE RetryRead(h) \/ RetryCheck(h) \/ RetryCount(h) \/ RetryRaises(h)
    BY <2>3 DEF RetryRead, RetryCheck, RetryCount, RetryRaises
  <2>4. CASE RetryReset(h)
    <3>1. taskRow' \in Memory
      BY <2>4 DEF RetryReset, Memory, TaskStatus
    <3> QED BY <2>4, <3>1 DEF RetryReset
  <2>5. CASE RetryMark(h)
    BY <2>5 DEF RetryMark, RowAfter, RowStatus
  <2>6. CASE RetryResume(h)
    BY <2>6, <1>2 DEF RetryResume, Places
  <2>7. CASE DeleteRead(h) \/ DeleteTasks(h) \/ DeleteWorkstreams(h)
    BY <2>7 DEF DeleteRead, DeleteTasks, DeleteWorkstreams
  <2>8. CASE DeleteWorkflow(h)
    BY <2>8 DEF DeleteWorkflow, RowStatus
  <2> QED BY <1>9, <2>1, <2>2, <2>3, <2>4, <2>5, <2>6, <2>7, <2>8 DEF RequestStep
<1>10. CASE Crash
  <2>1. crashes' \in 0 .. MaxCrashes
    BY <1>10, LifecycleAssumption DEF Crash, TypeOK
  <2> QED BY <1>10, <1>0, <2>1 DEF Crash, TypeOK, Places, Answers, rows
<1>11. CASE Startup
  <2> USE DEF TypeOK, rows, runners, work, bounds
  <2>1. CASE Restart
    BY <2>1 DEF Restart
  <2>2. CASE FailOrphan
    BY <2>2, <1>0 DEF FailOrphan, Orphan
  <2>3. CASE CancelOrphanTasks
    <3>1. taskRow' \in Memory
      BY <2>3 DEF CancelOrphanTasks, Memory, TaskStatus, Terminal
    <3> QED BY <2>3, <3>1 DEF CancelOrphanTasks
  <2> QED BY <1>11, <2>1, <2>2, <2>3 DEF Startup
<1> QED BY <1>0, <1>5, <1>6, <1>7, <1>8, <1>9, <1>10, <1>11 DEF Next, LaunchStep

(* A step that leaves every coroutine where it is. *)
LEMMA LeftFrame ==
  ASSUME LeftInv,
         \A r \in Runners : left'[r] \subseteq left[r] /\ left'[r] \subseteq batch'[r],
         \A r \in Runners : left'[r] # {} => run'[r] = run[r] /\ mem'[r] = mem[r]
  PROVE  LeftInv'
BY DEF LeftInv

LEMMA LeftKept == TypeOK /\ IInv /\ LeftInv /\ [Next]_vars => LeftInv'
<1> SUFFICES ASSUME TypeOK, IInv, LeftInv, [Next]_vars PROVE LeftInv'
  OBVIOUS
<1>0. /\ Launch \in Runners /\ Requests \subseteq Runners
      /\ run \in [Runners -> Places] /\ mem \in [Runners -> Memory]
      /\ batch \in [Runners -> SUBSET Tasks] /\ left \in [Runners -> SUBSET Tasks]
      /\ \A r \in Runners : left[r] \subseteq batch[r] /\ (left[r] # {} => run[r] = "looping")
  BY DEF Runners, TypeOK, LeftInv
<1>1. ASSUME NEW r \in Runners, UNCHANGED left, left[r] = {},
             \A q \in Runners : q # r => run'[q] = run[q] /\ mem'[q] = mem[q] /\ batch'[q] = batch[q]
      PROVE  LeftInv'
  BY <1>1, <1>0, LeftFrame
<1>2. ASSUME NEW r \in Runners, NEW t \in Tasks, NEW s \in BatchStatus, TaskActs(r, t, s)
      PROVE  LeftInv'
  <2>1. mem'[r] = [mem[r] EXCEPT ![t] = s] /\ \A q \in Runners : q # r => mem'[q] = mem[q]
    BY <1>2, <1>0 DEF TaskActs
  <2>2. UNCHANGED <<run, batch>> /\ (\A q \in Runners : left'[q] \subseteq left[q])
        /\ (t \in left'[r] => s = "IN_PROGRESS")
    BY <1>2, <1>0 DEF TaskActs
  <2>3. \A u \in Tasks : mem'[r][u] = IF u = t THEN s ELSE mem[r][u]
    BY <2>1, <1>0 DEF Memory
  <2>4. \A q \in Runners : \A u \in left'[q] : mem'[q][u] \in {"PENDING", "IN_PROGRESS"}
    <3>1. ASSUME NEW u \in left'[r] PROVE mem'[r][u] \in {"PENDING", "IN_PROGRESS"}
      BY <3>1, <2>2, <2>3, <1>0 DEF LeftInv
    <3>2. ASSUME NEW q \in Runners, q # r, NEW u \in left'[q]
          PROVE  mem'[q][u] \in {"PENDING", "IN_PROGRESS"}
      BY <3>2, <2>1, <2>2 DEF LeftInv
    <3> QED BY <3>1, <3>2
  <2> QED BY <2>2, <2>4, <1>0 DEF LeftInv
<1>3. CASE UNCHANGED vars
  BY <1>3, <1>0, LeftFrame DEF vars, runners, work
<1>4. CASE Generate \/ Seed \/ Plan \/ PlanFails
  <2>1. run[Launch] # "looping" /\ UNCHANGED <<batch, left>>
        /\ \A q \in Runners : q # Launch => run'[q] = run[q] /\ mem'[q] = mem[q]
    BY <1>4, <1>0 DEF Generate, Seed, Plan, PlanFails, GotoRun, SetMem, work
  <2> QED BY <2>1, <1>0, <1>1
<1>5. ASSUME NEW r \in Runners, RunnerStep(r) \/ Mishap(r) PROVE LeftInv'
  <2> USE <1>0 DEF GotoRun, SetMem, LeaveBatch, work
  <2>1. CASE Load(r) \/ SavePlan(r) \/ Finalize(r) \/ MarkFailed(r) \/ MarkFailedRaises(r) \/ Close(r)
    <3>1. run[r] # "looping" /\ UNCHANGED <<batch, left>>
          /\ \A q \in Runners : q # r => run'[q] = run[q] /\ mem'[q] = mem[q]
      BY <2>1 DEF Load, SavePlan, Finalize, MarkFailed, MarkFailedRaises, Close
    <3> QED BY <3>1, <1>1
  <2>2. CASE Dispatch(r)
    <3>1. /\ UNCHANGED <<run, mem>> /\ run[r] = "looping"
          /\ batch' = [batch EXCEPT ![r] = ReadyTasks(mem[r])]
          /\ left' = [left EXCEPT ![r] = ReadyTasks(mem[r])]
      BY <2>2 DEF Dispatch, AtTop
    <3>2. \A t \in ReadyTasks(mem[r]) : mem[r][t] = "PENDING"
      BY DEF ReadyTasks, With
    <3> QED BY <3>1, <3>2 DEF LeftInv
  <2>3. CASE SaveBatch(r) \/ BudgetEnds(r)
    <3>1. left[r] = {} /\ UNCHANGED left
          /\ \A q \in Runners : q # r => run'[q] = run[q] /\ mem'[q] = mem[q] /\ batch'[q] = batch[q]
      BY <2>3 DEF SaveBatch, BudgetEnds, FailOverBudget, Gathered
    <3> QED BY <3>1, <1>1
  <2>4. CASE ObeyCancel(r) \/ LeaveLoop(r) \/ CircuitOpens(r) \/ WallTimeEnds(r)
    <3>1. batch[r] = {} /\ UNCHANGED left
          /\ \A q \in Runners : q # r => run'[q] = run[q] /\ mem'[q] = mem[q] /\ batch'[q] = batch[q]
      BY <2>4 DEF ObeyCancel, LeaveLoop, CircuitOpens, WallTimeEnds, FailOverBudget, AtTop
    <3> QED BY <3>1, <1>1
  <2>5. CASE Raise(r)
    <3>1. left[r] = {} /\ UNCHANGED left
          /\ \A q \in Runners : q # r => run'[q] = run[q] /\ mem'[q] = mem[q] /\ batch'[q] = batch[q]
      BY <2>5 DEF Raise
    <3> QED BY <3>1, <1>1
  <2>6. CASE \E t \in Tasks : \/ StartTask(r, t) \/ RejectTask(r, t) \/ EndTask(r, t)
                              \/ RetryTask(r, t) \/ TaskRaises(r, t) \/ BreaksLimit(r, t)
    BY <2>6, <1>2, TasksAct
  <2> QED BY <1>5, <2>1, <2>2, <2>3, <2>4, <2>5, <2>6 DEF RunnerStep, Mishap
<1>6. ASSUME NEW h \in Requests, Arrive(h) \/ RequestStep(h) PROVE LeftInv'
  <2>1. CASE RetryResume(h) /\ run' # run
    <3>1. UNCHANGED <<mem, batch, left>> /\ run' = [run EXCEPT ![h] = "loading"]
      BY <2>1 DEF RetryResume, GotoRun, work
    <3>2. ~Live(h)
      BY <2>1, <1>0, LifecycleAssumption
         DEF RetryResume, IInv, StillFree, OneRunner, Resuming, Runners
    <3>3. left[h] = {}
      BY <3>2, <1>0 DEF Live
    <3> QED BY <3>1, <3>3, <1>0, <1>1
  <2>2. CASE UNCHANGED run
    <3>1. UNCHANGED <<mem, batch, left>>
      BY <1>6 DEF Arrive, RequestStep, CancelSignal, CancelUpdate, RetryRead, RetryCheck, RetryReset,
         RetryCount, RetryMark, RetryResume, RetryRaises, DeleteRead, DeleteTasks,
         DeleteWorkstreams, DeleteWorkflow, runners, work
    <3> QED BY <2>2, <3>1, <1>0, LeftFrame
  <2>3. UNCHANGED run \/ RetryResume(h)
    BY <1>6 DEF Arrive, RequestStep, CancelSignal, CancelUpdate, RetryRead, RetryCheck, RetryReset,
       RetryCount, RetryMark, RetryRaises, DeleteRead, DeleteTasks,
       DeleteWorkstreams, DeleteWorkflow, runners
  <2> QED BY <2>1, <2>2, <2>3
<1>7. CASE Crash
  BY <1>7 DEF Crash, LeftInv
<1>8. CASE Startup
  BY <1>8, <1>0, LeftFrame DEF Startup, Restart, FailOrphan, CancelOrphanTasks, runners, work
<1> QED BY <1>0, <1>3, <1>4, <1>5, <1>6, <1>7, <1>8 DEF Next, LaunchStep

(* While the server is down or recovers, nothing runs and nothing is asked. *)
Quiet == server # "up" => Busy = {} /\ \A r \in Runners : ~Live(r)

Known == TypeOK /\ IInv /\ Quiet /\ LeftInv

LEMMA QuietKept == TypeOK /\ Quiet /\ [Next]_vars => Quiet'
<1> SUFFICES ASSUME TypeOK, Quiet, [Next]_vars, server' # "up" PROVE Quiet'
  BY DEF Quiet
<1>1. CASE Crash
  <2>1. \A h \in Requests : req'[h] \notin InFlight
    BY <1>1 DEF Crash, Busy, TypeOK, InFlight, Answers
  <2>2. \A r \in Runners : run'[r] \in {"none", "ended", "dead"}
    BY <1>1 DEF Crash, TypeOK, Live
  <2> QED BY <2>1, <2>2 DEF Quiet, Busy, Live
<1>2. CASE ~Crash
  <2>1. server # "up"
    <3>1. CASE UNCHANGED vars
      BY <3>1 DEF vars
    <3>2. CASE LaunchStep \/ PlanFails \/ \E r \in Runners : RunnerStep(r) \/ Mishap(r)
      BY <3>2 DEF LaunchStep, Generate, Seed, Plan, PlanFails, RunnerStep, Load, SavePlan, Dispatch,
         StartTask, RejectTask, EndTask, SaveBatch, BudgetEnds, FailOverBudget, ObeyCancel,
         LeaveLoop, Finalize, MarkFailed, Close, Mishap, CircuitOpens, WallTimeEnds, Raise,
         MarkFailedRaises, RetryTask, TaskRaises, BreaksLimit
    <3>3. CASE \E h \in Requests : Arrive(h) \/ RequestStep(h)
      BY <3>3 DEF Arrive, RequestStep, CancelSignal, CancelUpdate, RetryRead, RetryCheck,
         RetryReset, RetryCount, RetryMark, RetryResume, RetryRaises, DeleteRead, DeleteTasks,
         DeleteWorkstreams, DeleteWorkflow
    <3>4. CASE Startup
      BY <3>4 DEF Startup, Restart, FailOrphan, CancelOrphanTasks
    <3> QED BY <1>2, <3>1, <3>2, <3>3, <3>4 DEF Next, Runners
  <2>2. (\A r \in Runners : ~Live(r)) /\ (\A h \in Requests : req[h] \notin InFlight)
    BY <2>1 DEF Quiet, Busy
  <2>3. UNCHANGED <<run, req>>
    <3>1. CASE UNCHANGED vars
      BY <3>1 DEF vars, runners
    <3>2. CASE Startup
      BY <3>2 DEF Startup, Restart, FailOrphan, CancelOrphanTasks, runners
    <3>3. ASSUME NEW r \in Runners PROVE ~RunnerStep(r) /\ ~Mishap(r)
      BY <2>2 DEF Live, RunnerStep, Load, SavePlan, Dispatch, StartTask, RejectTask, EndTask,
         Runs, SaveBatch, BudgetEnds, Gathered, ObeyCancel, LeaveLoop, AtTop, Finalize, MarkFailed,
         Close, Mishap, CircuitOpens, WallTimeEnds, Raise, MarkFailedRaises, RetryTask, TaskRaises,
         BreaksLimit
    <3>4. ~LaunchStep /\ ~PlanFails
      BY <2>2, <3>3 DEF Live, Runners, LaunchStep, PlanFails, Generate, Seed, Plan
    <3>5. ASSUME NEW h \in Requests PROVE ~Arrive(h) /\ ~RequestStep(h)
      BY <2>1, <2>2 DEF InFlight, Arrive, RequestStep, CancelSignal, CancelUpdate, RetryRead,
         RetryCheck, RetryReset, RetryCount, RetryMark, RetryResume, RetryRaises, DeleteRead,
         DeleteTasks, DeleteWorkstreams, DeleteWorkflow
    <3> QED BY <1>2, <3>1, <3>2, <3>3, <3>4, <3>5 DEF Next, Runners
  <2> QED BY <2>2, <2>3 DEF Quiet, Busy, Live
<1> QED BY <1>1, <1>2

(* Two background tasks that live are one. *)
LEMMA Alone ==
  ASSUME IInv, NEW r \in Runners, NEW q \in Runners, Live(r), Live(q)
  PROVE  r = q
BY DEF IInv, OneRunner

(* What a background task will write keeps the rows of the tasks that       *)
(* passed: before the plan there is none, afterwards it knows them.         *)
Writing == {"saving", "looping", "finalizing"}
Unplanned == {"generating", "seeding", "planning"}
Respects(r) == \A t \in Tasks : taskRow[t] = "PASSED" => mem[r][t] \in {"PASSED", Absent}
PassedInv ==
  /\ \A r \in Runners : run[r] \in Writing => Respects(r)
  /\ run[Launch] \in Unplanned => \A t \in Tasks : taskRow[t] # "PASSED"

PassedStep ==
  \A t \in Tasks :
    taskRow[t] = "PASSED" /\ (\A r \in Runners : t \notin batch[r])
      => taskRow'[t] \in {"PASSED", Absent}

(* A step that makes no task pass, and starts no writing. *)
LEMMA PassedFrame ==
  ASSUME PassedInv,
         \A t \in Tasks : taskRow'[t] = "PASSED" <=> taskRow[t] = "PASSED",
         \A r \in Runners : run'[r] \in Writing => run[r] \in Writing /\ mem'[r] = mem[r],
         run'[Launch] \in Unplanned => run[Launch] \in Unplanned
  PROVE  PassedInv' /\ PassedStep
BY DEF PassedInv, Respects, PassedStep

(* The main loop's write of what it knows. *)
LEMMA PassedWrite ==
  ASSUME Known, PassedInv, NEW r \in Runners, Live(r), NEW m \in Memory,
         run[r] \in Writing \/ run[r] = "planning",
         \A t \in Tasks : taskRow[t] = "PASSED" => m[t] \in {"PASSED", Absent},
         UNCHANGED taskRow \/ \E s \in RowStatus : Upsert(s, m),
         run'[r] \in Writing => mem' = [mem EXCEPT ![r] = m],
         run'[r] \notin Unplanned,
         \A q \in Runners : q # r => run'[q] = run[q]
  PROVE  PassedInv' /\ PassedStep
<1>1. \A t \in Tasks : /\ taskRow[t] = "PASSED" => taskRow'[t] \in {"PASSED", Absent}
                       /\ taskRow'[t] = "PASSED" => m[t] \in {"PASSED", Absent}
  BY DEF Upsert, Known, TypeOK, Memory
<1>2. \A q \in Runners : q # r => run[q] \notin Writing \cup Unplanned
  BY Alone DEF Known, Live, Writing, Unplanned
<1>3. \A q \in Runners : run'[q] \in Writing => q = r
  BY <1>2
<1>4. mem \in [Runners -> Memory]
  BY DEF Known, TypeOK
<1>5. run'[r] \in Writing => Respects(r)'
  BY <1>1, <1>4 DEF Respects
<1>6. run'[Launch] \notin Unplanned
  BY <1>2 DEF Runners
<1> QED BY <1>1, <1>3, <1>5, <1>6 DEF PassedInv, PassedStep

(* A coroutine's write: outside the batch the snapshot is what is known,    *)
(* and inside it a row can only fall behind the memory.                     *)
LEMMA PassedByTask ==
  ASSUME Known, PassedInv, NEW r \in Runners, NEW t \in Tasks, NEW s \in BatchStatus,
         TaskActs(r, t, s)
  PROVE  PassedInv' /\ PassedStep
<1>0. /\ mem \in [Runners -> Memory] /\ mem[r] \in [Tasks -> TaskStatus \cup {Absent}]
      /\ t \in left[r] /\ left[r] \subseteq batch[r] /\ mem[r][t] \in {"PENDING", "IN_PROGRESS"}
      /\ run[r] = "looping" /\ UNCHANGED run
      /\ mem' = [mem EXCEPT ![r] = [mem[r] EXCEPT ![t] = s]]
  BY DEF Known, TypeOK, Memory, LeftInv, TaskActs
<1>1. Respects(r)
  BY <1>0 DEF PassedInv, Writing
<1>2. taskRow[t] # "PASSED"
  BY <1>0, <1>1 DEF Respects, Absent
<1>3. \A u \in Tasks : mem'[r][u] = IF u = t THEN s ELSE mem[r][u]
  BY <1>0
<1>4. \A u \in Tasks : taskRow'[u] = "PASSED" => mem'[r][u] \in {"PASSED", Absent}
  BY <1>1, <1>2, <1>3, <1>0 DEF TaskActs, Had, Respects
<1>5. Respects(r)'
  BY <1>4 DEF Respects
<1>6. \A q \in Runners : q # r => run[q] \notin Writing \cup Unplanned
  BY <1>0, Alone DEF Known, Live, Writing, Unplanned
<1>7. PassedInv'
  BY <1>0, <1>5, <1>6 DEF PassedInv, Runners, Unplanned
<1>8. ASSUME NEW u \in Tasks, taskRow[u] = "PASSED", \A q \in Runners : u \notin batch[q]
      PROVE  taskRow'[u] \in {"PASSED", Absent}
  BY <1>0, <1>1, <1>8 DEF TaskActs, Respects
<1> QED BY <1>7, <1>8 DEF PassedStep

LEMMA PassedKeptByRunner ==
  ASSUME Known, PassedInv, NEW r \in Runners, RunnerStep(r) \/ Mishap(r)
  PROVE  PassedInv' /\ PassedStep
<1> USE DEF Writing, Unplanned, GotoRun, SetMem, rows
<1>0. /\ mem \in [Runners -> Memory] /\ mem[r] \in Memory /\ run \in [Runners -> Places]
      /\ taskRow \in Memory /\ FinalStatus(r) \in RowStatus
      /\ "in_progress" \in RowStatus /\ "cancelled" \in RowStatus
      /\ "completed" \in RowStatus /\ "failed" \in RowStatus
  BY DEF Known, TypeOK, RowStatus, Settled, FinalStatus
<1>01. [mem EXCEPT ![r] = mem[r]] = mem
  BY <1>0
<1>02. run[r] \in Writing => Respects(r)
  BY DEF PassedInv
<1>1. CASE Load(r)
  <2>1. UNCHANGED taskRow /\ run[r] = "loading"
    BY <1>1 DEF Load
  <2>2. CASE row = Absent
    <3>1. run' = [run EXCEPT ![r] = "failing"] /\ UNCHANGED <<mem, taskRow>>
      BY <1>1, <2>2 DEF Load
    <3> QED BY <3>1, <1>0, PassedFrame DEF Runners
  <2>3. CASE row # Absent
    <3>1. mem' = [mem EXCEPT ![r] = taskRow] /\ run' = [run EXCEPT ![r] = "saving"]
      BY <1>1, <2>3 DEF Load
    <3>2. \A q \in Runners : q # r => run[q] \notin Writing \cup Unplanned
      BY <2>1, Alone DEF Known, Live
    <3>3. \A q \in Runners : run'[q] \in Writing => q = r
      BY <3>1, <3>2, <1>0
    <3>4. Respects(r)'
      BY <3>1, <2>1, <1>0 DEF Respects
    <3>5. run'[Launch] \notin Unplanned
      BY <3>1, <3>2, <1>0 DEF Runners
    <3> QED BY <2>1, <3>3, <3>4, <3>5 DEF PassedInv, PassedStep
  <2> QED BY <2>2, <2>3
<1>2. CASE SavePlan(r)
  BY <1>2, <1>0, <1>01, <1>02, PassedWrite DEF SavePlan, Live, Respects
<1>3. CASE Dispatch(r)
  BY <1>3, <1>0, PassedFrame DEF Dispatch
<1>4. CASE SaveBatch(r)
  BY <1>4, <1>0, <1>01, <1>02, PassedWrite DEF SaveBatch, Gathered, Live, Respects
<1>5. CASE ObeyCancel(r)
  <2>1. Ends(r, "SKIPPED") \in Memory
    BY <1>0 DEF Ends, Memory, TaskStatus, Terminal
  <2>2. run[r] = "looping" /\ run' = [run EXCEPT ![r] = "finalizing"]
        /\ mem' = [mem EXCEPT ![r] = Ends(r, "SKIPPED")] /\ Upsert("cancelled", Ends(r, "SKIPPED"))
    BY <1>5 DEF ObeyCancel, AtTop
  <2>3. \A t \in Tasks : taskRow[t] = "PASSED" => Ends(r, "SKIPPED")[t] \in {"PASSED", Absent}
    BY <1>02, <2>2 DEF Respects, Ends, Terminal
  <2> QED BY <2>1, <2>2, <2>3, <1>0, PassedWrite DEF Live
<1>6. CASE LeaveLoop(r)
  <2>1. run[r] = "looping" /\ run' = [run EXCEPT ![r] = "finalizing"] /\ UNCHANGED <<mem, taskRow>>
    BY <1>6 DEF LeaveLoop, AtTop
  <2> QED BY <2>1, <1>0, PassedFrame
<1>7. CASE Finalize(r)
  <2>1. \E s \in RowStatus : Upsert(s, mem[r])
    BY <1>7, <1>0 DEF Finalize
  <2>2. run[r] = "finalizing" /\ run' = [run EXCEPT ![r] = "closing"]
    BY <1>7 DEF Finalize
  <2> QED BY <2>1, <2>2, <1>0, <1>01, <1>02, PassedWrite DEF Live, Respects
<1>8. CASE MarkFailed(r) \/ MarkFailedRaises(r)
  <2>1. run' = [run EXCEPT ![r] = "closing"] /\ UNCHANGED <<mem, taskRow>>
    BY <1>8 DEF MarkFailed, MarkFailedRaises
  <2> QED BY <2>1, <1>0, PassedFrame
<1>9. CASE Close(r)
  BY <1>9, <1>0, PassedFrame DEF Close
<1>10. CASE \E t \in Tasks : \/ StartTask(r, t) \/ RejectTask(r, t) \/ EndTask(r, t)
                             \/ RetryTask(r, t) \/ TaskRaises(r, t) \/ BreaksLimit(r, t)
  BY <1>10, TasksAct, PassedByTask DEF Known
<1>11. CASE CircuitOpens(r)
  <2>1. Upsert("in_progress", mem[r]) /\ mem' = [mem EXCEPT ![r] = Ends(r, "FAILED")]
        /\ run[r] = "looping" /\ run' = [run EXCEPT ![r] = "finalizing"]
    BY <1>11 DEF CircuitOpens, AtTop
  <2>2. \A t \in Tasks : /\ taskRow[t] = "PASSED" => taskRow'[t] \in {"PASSED", Absent}
                         /\ taskRow'[t] = "PASSED" => mem[r][t] \in {"PASSED", Absent}
    BY <2>1, <1>02, <1>0 DEF Upsert, Respects, Memory
  <2>3. \A q \in Runners : q # r => run[q] \notin Writing \cup Unplanned
    BY <2>1, Alone DEF Known, Live
  <2>4. Respects(r)'
    BY <2>1, <2>2, <1>0 DEF Respects, Ends, Terminal
  <2> QED BY <2>1, <2>2, <2>3, <2>4, <1>0 DEF PassedInv, PassedStep, Runners
<1>12. CASE BudgetEnds(r) \/ WallTimeEnds(r)
  <2>1. run[r] = "looping" /\ run' = [run EXCEPT ![r] = "failing"] /\ Upsert("failed", mem[r])
        /\ UNCHANGED mem
    BY <1>12 DEF BudgetEnds, WallTimeEnds, FailOverBudget, Gathered, AtTop
  <2> QED BY <2>1, <1>0, <1>01, <1>02, PassedWrite DEF Live, Respects
<1>13. CASE Raise(r)
  BY <1>13, <1>0, PassedFrame DEF Raise
<1> QED BY <1>1, <1>2, <1>3, <1>4, <1>5, <1>6, <1>7, <1>8, <1>9, <1>10, <1>11, <1>12, <1>13
        DEF RunnerStep, Mishap

LEMMA PassedStepKeeps == Known /\ PassedInv /\ [Next]_vars => PassedInv' /\ PassedStep
<1> SUFFICES ASSUME Known, PassedInv, [Next]_vars PROVE PassedInv' /\ PassedStep
  OBVIOUS
<1>0. Launch \in Runners /\ Requests \subseteq Runners /\ Launch \notin Requests
      /\ run \in [Runners -> Places] /\ mem \in [Runners -> Memory] /\ taskRow \in Memory
  BY LifecycleAssumption DEF Runners, Known, TypeOK
<1>1. CASE UNCHANGED vars
  BY <1>1, PassedFrame DEF vars, rows, runners, work
<1>2. ASSUME NEW r \in Runners, RunnerStep(r) \/ Mishap(r) PROVE PassedInv' /\ PassedStep
  BY <1>2, PassedKeptByRunner
<1>3. CASE Generate \/ Seed \/ PlanFails
  BY <1>3, <1>0, PassedFrame DEF Generate, Seed, PlanFails, GotoRun, Writing, Unplanned, rows
<1>4. CASE Plan
  <2>1. run[Launch] = "planning" /\ run' = [run EXCEPT ![Launch] = "saving"]
        /\ mem' = [mem EXCEPT ![Launch] = [t \in Tasks |-> "PENDING"]] /\ UNCHANGED taskRow
    BY <1>4 DEF Plan, GotoRun, SetMem, rows
  <2>2. \A t \in Tasks : taskRow[t] # "PASSED"
    BY <2>1 DEF PassedInv, Unplanned
  <2>3. PassedInv'
    BY <2>1, <2>2, <1>0 DEF PassedInv, Respects, Unplanned
  <2> QED BY <2>1, <2>3 DEF PassedStep
<1>5. ASSUME NEW h \in Requests, Arrive(h) \/ RequestStep(h) PROVE PassedInv' /\ PassedStep
  <2>1. CASE RetryResume(h)
    <3>1. run' = run \/ run' = [run EXCEPT ![h] = "loading"]
      BY <2>1 DEF RetryResume, GotoRun
    <3> QED BY <2>1, <3>1, <1>0, PassedFrame DEF RetryResume, Writing, Unplanned, rows
  <2>2. CASE DeleteTasks(h) \/ DeleteWorkflow(h)
    <3>1. UNCHANGED <<run, mem>> /\ (UNCHANGED taskRow \/ taskRow' = NoTasks)
      BY <2>2 DEF DeleteTasks, DeleteWorkflow, runners, rows
    <3> QED BY <3>1 DEF PassedInv, Respects, PassedStep, NoTasks, Absent
  <2>3. CASE RetryReset(h)
    BY <2>3, PassedFrame DEF RetryReset, Resets, runners
  <2>4. CASE ~(RetryResume(h) \/ DeleteTasks(h) \/ DeleteWorkflow(h) \/ RetryReset(h))
    <3>1. UNCHANGED <<run, mem, taskRow>>
      BY <1>5, <2>4 DEF Arrive, RequestStep, CancelSignal, CancelUpdate, RetryRead, RetryCheck,
         RetryCount, RetryMark, RetryRaises, DeleteRead, DeleteWorkstreams, rows, runners
    <3> QED BY <3>1, PassedFrame
  <2> QED BY <2>1, <2>2, <2>3, <2>4
<1>6. CASE Crash
  BY <1>6, <1>0, PassedFrame DEF Crash, Live, Writing, Unplanned, rows
<1>7. CASE Startup
  <2>1. UNCHANGED <<run, mem>>
    BY <1>7 DEF Startup, Restart, FailOrphan, CancelOrphanTasks, runners
  <2>2. \A t \in Tasks : taskRow'[t] = "PASSED" <=> taskRow[t] = "PASSED"
    BY <1>7 DEF Startup, Restart, FailOrphan, CancelOrphanTasks, rows, Terminal
  <2> QED BY <2>1, <2>2, PassedFrame
<1> QED BY <1>0, <1>1, <1>2, <1>3, <1>4, <1>5, <1>6, <1>7 DEF Next, LaunchStep

-----------------------------------------------------------------------------
LEMMA KnownHolds ==
  ASSUME MaxOverlap \in {0, 1}, IsFiniteSet(Requests)
  PROVE  Init => Known /\ PassedInv
<1> SUFFICES ASSUME Init PROVE Known /\ PassedInv
  OBVIOUS
<1>1. TypeOK
  <2>1. NoTasks \in Memory /\ Launch \in Runners
    BY DEF NoTasks, Memory, Runners
  <2>2. run \in [Runners -> Places] /\ mem \in [Runners -> Memory]
    BY <2>1 DEF Init, Places
  <2>3. req \in [Requests -> InFlight \cup Answers] /\ row \in RowStatus
    BY DEF Init, Answers, RowStatus
  <2>4. faults \in 0 .. MaxFaults /\ crashes \in 0 .. MaxCrashes
    BY LifecycleAssumption DEF Init
  <2> QED BY <2>1, <2>2, <2>3, <2>4 DEF Init, TypeOK
<1>2. IInv
  BY InitHolds
<1>3. Quiet
  BY DEF Init, Quiet
<1>4. PassedInv
  BY DEF Init, PassedInv, Writing, Unplanned, NoTasks, Absent
<1>5. LeftInv
  BY DEF Init, LeftInv
<1> QED BY <1>1, <1>2, <1>3, <1>4, <1>5 DEF Known

LEMMA KnownKept ==
  ASSUME MaxOverlap \in {0, 1}, IsFiniteSet(Requests)
  PROVE  Known /\ [Next]_vars => Known'
BY TypeKept, QuietKept, LeftKept, StepKeeps DEF Known

(* A task that passed keeps its row, once its batch is over, until the      *)
(* workflow is deleted, whatever is cancelled, retried, resumed or          *)
(* recovered: the orchestrator that writes the rows has read them, and is   *)
(* the only one.                                                            *)
THEOREM PassedKeptHolds ==
  ASSUME MaxOverlap \in {0, 1}, IsFiniteSet(Requests)
  PROVE  Spec => PassedKept
<1>1. Known /\ PassedInv /\ [Next]_vars => (Known /\ PassedInv)'
  BY KnownKept, PassedStepKeeps
<1>2. Known /\ PassedInv /\ [Next]_vars
        => [\A t \in Tasks :
              taskRow[t] = "PASSED" /\ (\A r \in Runners : t \notin batch[r])
                => taskRow'[t] \in {"PASSED", Absent}]_vars
  BY PassedStepKeeps DEF PassedStep
<1> QED BY <1>1, <1>2, KnownHolds, PTL DEF Spec, PassedKept

-----------------------------------------------------------------------------
(* The row of a workflow and what executes it.                             *)
Final == {"completed", "failed"}
Idle(r) == run[r] \in {"none", "failing", "closing", "ended", "dead"}
SettledInv ==
  /\ SettledIsIdle
  /\ \A h \in Requests : req[h] = "retry_resume" => row \notin Final

LEMMA SettledFrame ==
  ASSUME SettledInv, row' \in Final => row \in Final,
         \A r \in Runners : Idle(r) => Idle(r)',
         \A h \in Requests : req'[h] = "retry_resume" => req[h] = "retry_resume"
  PROVE  SettledInv'
BY DEF SettledInv, SettledIsIdle, Final, Idle

LEMMA SettledUnlessFinal == row' \notin Final => SettledInv'
BY DEF SettledInv, SettledIsIdle, Final

(* The only background task goes idle; a retry would not have passed it.    *)
LEMMA SettledByTheOne ==
  ASSUME Known, NEW r \in Runners, Live(r), Idle(r)',
         \A q \in Runners : q # r => run'[q] = run[q], UNCHANGED req
  PROVE  SettledInv'
<1>1. \A q \in Runners : Idle(q)'
  BY Alone DEF Known, Idle, Live
<1>2. \A h \in Requests : req[h] # "retry_resume"
  BY LifecycleAssumption DEF Known, IInv, StillFree, OneRunner, Resuming, Runners
<1> QED BY <1>1, <1>2 DEF SettledInv, SettledIsIdle, Idle

LEMMA SettledKeptByRunner ==
  ASSUME Known, SettledInv, NEW r \in Runners, RunnerStep(r) \/ Mishap(r)
  PROVE  SettledInv'
<1> USE DEF GotoRun, SetMem, rows
<1>0. /\ run \in [Runners -> Places] /\ UNCHANGED req
      /\ (~Idle(r) => row \notin Final)
  <2>1. UNCHANGED req
    BY DEF RunnerStep, Load, SavePlan, Dispatch, StartTask, RejectTask, EndTask, SaveBatch,
       BudgetEnds, FailOverBudget, ObeyCancel, LeaveLoop, Finalize, MarkFailed, Close, Mishap,
       CircuitOpens, WallTimeEnds, Raise, MarkFailedRaises, RetryTask, TaskRaises, BreaksLimit
  <2> QED BY <2>1 DEF Known, TypeOK, SettledInv, SettledIsIdle, Idle, Final
<1>1. CASE Load(r) \/ Dispatch(r) \/ LeaveLoop(r) \/ Raise(r)
  <2>1. ~Idle(r) \/ UNCHANGED run
    BY <1>1 DEF Load, Dispatch, LeaveLoop, Raise, AtTop, Idle, Live
  <2>2. UNCHANGED row
    BY <1>1 DEF Load, Dispatch, LeaveLoop, Raise
  <2> QED BY <2>1, <2>2, <1>0, SettledUnlessFinal, SettledFrame DEF Idle
<1>2. CASE SavePlan(r) \/ SaveBatch(r) \/ ObeyCancel(r) \/ CircuitOpens(r)
  <2>1. row' \in {"in_progress", "cancelled"}
    BY <1>2 DEF SavePlan, SaveBatch, ObeyCancel, CircuitOpens, Upsert
  <2> QED BY <2>1, SettledUnlessFinal DEF Final
<1>3. CASE Finalize(r) \/ BudgetEnds(r) \/ WallTimeEnds(r)
  <2>1. Live(r) /\ (run' = [run EXCEPT ![r] = "closing"] \/ run' = [run EXCEPT ![r] = "failing"])
    BY <1>3 DEF Finalize, BudgetEnds, WallTimeEnds, FailOverBudget, Gathered, AtTop, Live
  <2> QED BY <2>1, <1>0, SettledByTheOne DEF Idle
<1>4. CASE MarkFailed(r) \/ MarkFailedRaises(r)
  <2>1. Live(r) /\ run' = [run EXCEPT ![r] = "closing"]
    BY <1>4 DEF MarkFailed, MarkFailedRaises, Live
  <2> QED BY <2>1, <1>0, SettledByTheOne DEF Idle
<1>5. CASE Close(r)
  <2>1. Live(r) /\ run' = [run EXCEPT ![r] = "ended"]
    BY <1>5 DEF Close, Live
  <2> QED BY <2>1, <1>0, SettledByTheOne DEF Idle
<1>6. CASE \E t \in Tasks : \/ StartTask(r, t) \/ RejectTask(r, t) \/ EndTask(r, t)
                            \/ RetryTask(r, t) \/ TaskRaises(r, t) \/ BreaksLimit(r, t)
  <2>1. PICK t \in Tasks, s \in BatchStatus : TaskActs(r, t, s)
    BY <1>6, TasksAct DEF Known
  <2>2. row \notin Final /\ row' \in {row, RowAfter("in_progress"), "in_progress"}
    BY <2>1, <1>0 DEF TaskActs, Idle
  <2> QED BY <2>2, SettledUnlessFinal DEF Final, RowAfter, Absent
<1> QED BY <1>1, <1>2, <1>3, <1>4, <1>5, <1>6 DEF RunnerStep, Mishap

LEMMA SettledKept == Known /\ SettledInv /\ [Next]_vars => SettledInv'
<1> SUFFICES ASSUME Known, SettledInv, [Next]_vars PROVE SettledInv'
  OBVIOUS
<1>0. Launch \in Runners /\ Requests \subseteq Runners /\ run \in [Runners -> Places]
      /\ req \in [Requests -> InFlight \cup Answers]
  BY DEF Runners, Known, TypeOK
<1>1. CASE UNCHANGED vars
  BY <1>1, SettledFrame DEF vars, rows, runners, Idle
<1>2. CASE Generate \/ Seed \/ Plan \/ PlanFails
  <2>1. UNCHANGED row /\ row \notin Final
    BY <1>2, <1>0 DEF Generate, Seed, Plan, PlanFails, rows, SettledInv, SettledIsIdle, Final
  <2> QED BY <2>1, SettledUnlessFinal
<1>3. ASSUME NEW r \in Runners, RunnerStep(r) \/ Mishap(r) PROVE SettledInv'
  BY <1>3, SettledKeptByRunner
<1>4. ASSUME NEW h \in Requests, Arrive(h) \/ RequestStep(h) PROVE SettledInv'
  <2> USE DEF GotoReq, rows, runners
  <2>1. CASE RetryMark(h)
    BY <2>1, SettledUnlessFinal DEF RetryMark, RowAfter, Final, Absent
  <2>2. CASE RetryResume(h)
    BY <2>2, SettledUnlessFinal DEF RetryResume, SettledInv
  <2>3. CASE CancelUpdate(h)
    BY <2>3, <1>0, SettledFrame DEF CancelUpdate, Final, Idle
  <2>4. CASE DeleteWorkflow(h)
    BY <2>4, <1>0, SettledFrame DEF DeleteWorkflow, Final, Idle, Absent
  <2>5. CASE \/ Arrive(h) \/ CancelSignal(h) \/ RetryRead(h) \/ RetryCheck(h) \/ RetryReset(h)
            \/ RetryCount(h) \/ RetryRaises(h) \/ DeleteRead(h) \/ DeleteTasks(h)
            \/ DeleteWorkstreams(h)
    <3>1. UNCHANGED <<row, run>> /\ \E p \in (InFlight \cup Answers) \ {"retry_resume"} : GotoReq(h, p)
      BY <2>5, LifecycleAssumption DEF Arrive, CancelSignal, RetryRead, RetryCheck, RetryReset,
         RetryCount, RetryRaises, DeleteRead, DeleteTasks, DeleteWorkstreams, InFlight, Answers
    <3> QED BY <3>1, <1>0, SettledFrame DEF Idle
  <2> QED BY <1>4, <2>1, <2>2, <2>3, <2>4, <2>5 DEF RequestStep
<1>5. CASE Crash
  <2>1. \A h \in Requests : req'[h] # "retry_resume"
    BY <1>5, <1>0 DEF Crash, Busy, InFlight
  <2>2. \A r \in Runners : Idle(r)'
    BY <1>5, <1>0 DEF Crash, Live, Idle
  <2> QED BY <2>1, <2>2 DEF SettledInv, SettledIsIdle, Idle
<1>6. CASE Startup
  <2>1. UNCHANGED <<run, req>> /\ server # "up"
    BY <1>6 DEF Startup, Restart, FailOrphan, CancelOrphanTasks, runners
  <2>2. \A r \in Runners : Idle(r)
    BY <2>1, <1>0 DEF Known, Quiet, Live, Idle
  <2>3. \A h \in Requests : req[h] # "retry_resume"
    BY <2>1 DEF Known, Quiet, Busy, InFlight
  <2> QED BY <2>1, <2>2, <2>3 DEF SettledInv, SettledIsIdle, Idle
<1> QED BY <1>0, <1>1, <1>2, <1>3, <1>4, <1>5, <1>6 DEF Next, LaunchStep

(* A workflow whose row says completed or failed is executed by nobody, so  *)
(* what delete and retry conclude from the row is so.                       *)
THEOREM SettledIsIdleHolds ==
  ASSUME MaxOverlap \in {0, 1}, IsFiniteSet(Requests)
  PROVE  Spec => []SettledIsIdle
<1>1. Init => SettledInv
  BY DEF Init, SettledInv, SettledIsIdle, Final
<1>2. SettledInv => SettledIsIdle
  BY DEF SettledInv
<1>3. Known /\ SettledInv /\ [Next]_vars => (Known /\ SettledInv)'
  BY KnownKept, SettledKept
<1> QED BY <1>1, <1>2, <1>3, KnownHolds, PTL DEF Spec

-----------------------------------------------------------------------------
(* Only the recovery writes CANCELLED, and a retry resets it before the     *)
(* rows are loaded: no orchestrator ever has a cancelled task.              *)
Cleared == {"retry_count", "retry_mark", "retry_resume"}
NoCancelledRow == \A t \in Tasks : taskRow[t] # "CANCELLED"
DoneInv ==
  /\ CompletedIsDone
  /\ fresh => server = "cancel_tasks" /\ row = "failed"
  /\ \A r \in Runners, t \in Tasks : mem[r][t] # "CANCELLED"
  /\ \A r \in Runners : Live(r) => NoCancelledRow
  /\ \A h \in Requests : req[h] \in Cleared => NoCancelledRow

(* A step that writes no task row and completes no workflow. *)
LEMMA DoneFrame ==
  ASSUME DoneInv, UNCHANGED <<taskRow, fresh>>, row' = "completed" => row = "completed",
         fresh => UNCHANGED <<server, row>>,
         \A r \in Runners, t \in Tasks : mem'[r][t] # "CANCELLED",
         \A r \in Runners : Live(r)' => Live(r) \/ NoCancelledRow,
         \A h \in Requests : req'[h] \in Cleared => req[h] \in Cleared
  PROVE  DoneInv'
BY DEF DoneInv, CompletedIsDone, NoCancelledRow

(* A step of an orchestrator that writes what it knows. *)
LEMMA DoneByTheOne ==
  ASSUME Known, DoneInv, NEW r \in Runners, Live(r), UNCHANGED <<server, fresh, req>>,
         \A t \in Tasks : taskRow'[t] # "CANCELLED",
         \A q \in Runners, t \in Tasks : mem'[q][t] # "CANCELLED",
         row' = "completed"
           => \A t \in Tasks : taskRow'[t] \in {"PASSED", "SKIPPED", Absent}
  PROVE  DoneInv'
<1>1. server = "up" /\ ~fresh
  BY DEF Known, Quiet, DoneInv
<1> QED BY <1>1 DEF DoneInv, CompletedIsDone, NoCancelledRow

LEMMA DoneKeptByRunner ==
  ASSUME Known, SettledInv, DoneInv, NEW r \in Runners, RunnerStep(r) \/ Mishap(r)
  PROVE  DoneInv'
<1> USE DEF GotoRun, SetMem, rows
<1>0. /\ run \in [Runners -> Places] /\ mem \in [Runners -> Memory] /\ taskRow \in Memory
      /\ mem[r] \in [Tasks -> TaskStatus \cup {Absent}] /\ UNCHANGED <<server, fresh, req>>
  <2>1. UNCHANGED <<server, fresh, req>>
    BY DEF RunnerStep, Load, SavePlan, Dispatch, StartTask, RejectTask, EndTask, SaveBatch,
       BudgetEnds, FailOverBudget, ObeyCancel, LeaveLoop, Finalize, MarkFailed, Close, Mishap,
       CircuitOpens, WallTimeEnds, Raise, MarkFailedRaises, RetryTask, TaskRaises, BreaksLimit
  <2> QED BY <2>1 DEF Known, TypeOK, Memory
<1>01. Live(r)
  BY DEF Live, RunnerStep, Load, SavePlan, Dispatch, StartTask, RejectTask, EndTask, Runs,
     SaveBatch, BudgetEnds, Gathered, ObeyCancel, LeaveLoop, AtTop, Finalize, MarkFailed,
     Close, Mishap, CircuitOpens, WallTimeEnds, Raise, MarkFailedRaises, RetryTask, TaskRaises,
     BreaksLimit
<1>02. /\ \A t \in Tasks : taskRow[t] # "CANCELLED"
       /\ \A q \in Runners, t \in Tasks : mem[q][t] # "CANCELLED"
  BY <1>01 DEF DoneInv, NoCancelledRow
<1>03. ~Idle(r) => row \notin Final
  BY DEF SettledInv, SettledIsIdle, Idle, Final
<1>04. ASSUME NEW m \in Memory, mem' \in {mem, [mem EXCEPT ![r] = m]},
              \A t \in Tasks : m[t] # "CANCELLED"
       PROVE  \A q \in Runners, t \in Tasks : mem'[q][t] # "CANCELLED"
  BY <1>04, <1>0, <1>02
<1>05. ASSUME NEW s, NEW m \in Memory, Upsert(s, m), \A t \in Tasks : m[t] # "CANCELLED"
       PROVE  \A t \in Tasks : taskRow'[t] # "CANCELLED"
  BY <1>05, <1>02 DEF Upsert
<1>06. ASSUME NEW s \in {"SKIPPED", "FAILED"}
       PROVE  Ends(r, s) \in Memory /\ \A t \in Tasks : Ends(r, s)[t] # "CANCELLED"
  BY <1>02, <1>0 DEF Ends, Memory, TaskStatus, Terminal
<1>1. CASE Load(r)
  <2>1. ~Idle(r) /\ UNCHANGED <<row, taskRow>> /\ mem' \in {mem, [mem EXCEPT ![r] = taskRow]}
    BY <1>1 DEF Load, Idle
  <2>2. \A q \in Runners, t \in Tasks : mem'[q][t] # "CANCELLED"
    BY <2>1, <1>0, <1>02, <1>04
  <2> QED BY <2>1, <2>2, <1>0, <1>01, <1>02, <1>03, DoneByTheOne DEF Final
<1>2. CASE SavePlan(r) \/ SaveBatch(r) \/ BudgetEnds(r) \/ WallTimeEnds(r)
  <2>1. UNCHANGED mem /\ \E s \in {"in_progress", "failed"} : Upsert(s, mem[r])
    BY <1>2 DEF SavePlan, SaveBatch, BudgetEnds, WallTimeEnds, FailOverBudget
  <2>2. \A t \in Tasks : taskRow'[t] # "CANCELLED"
    BY <2>1, <1>0, <1>02, <1>05 DEF Memory
  <2>3. row' # "completed"
    BY <2>1 DEF Upsert
  <2> QED BY <2>1, <2>2, <2>3, <1>0, <1>01, <1>02, DoneByTheOne
<1>3. CASE Dispatch(r) \/ LeaveLoop(r) \/ Raise(r)
  <2>1. ~Idle(r) /\ UNCHANGED <<row, taskRow, mem>>
    BY <1>3, <1>01 DEF Dispatch, LeaveLoop, Raise, AtTop, Idle, Live
  <2> QED BY <2>1, <1>0, <1>01, <1>02, <1>03, DoneByTheOne DEF Final
<1>4. CASE ObeyCancel(r)
  <2>1. mem' = [mem EXCEPT ![r] = Ends(r, "SKIPPED")] /\ Upsert("cancelled", Ends(r, "SKIPPED"))
    BY <1>4 DEF ObeyCancel
  <2>2. \A t \in Tasks : taskRow'[t] # "CANCELLED"
    BY <2>1, <1>05, <1>06
  <2>3. \A q \in Runners, t \in Tasks : mem'[q][t] # "CANCELLED"
    BY <2>1, <1>04, <1>06
  <2>4. row' # "completed"
    BY <2>1 DEF Upsert
  <2> QED BY <2>2, <2>3, <2>4, <1>0, <1>01, DoneByTheOne
<1>5. CASE CircuitOpens(r)
  <2>1. mem' = [mem EXCEPT ![r] = Ends(r, "FAILED")] /\ Upsert("in_progress", mem[r])
    BY <1>5 DEF CircuitOpens
  <2>2. \A t \in Tasks : taskRow'[t] # "CANCELLED"
    BY <2>1, <1>0, <1>02, <1>05 DEF Memory
  <2>3. \A q \in Runners, t \in Tasks : mem'[q][t] # "CANCELLED"
    BY <2>1, <1>04, <1>06
  <2>4. row' # "completed"
    BY <2>1 DEF Upsert
  <2> QED BY <2>2, <2>3, <2>4, <1>0, <1>01, DoneByTheOne
<1>6. CASE Finalize(r)
  <2>1. UNCHANGED mem /\ Upsert(FinalStatus(r), mem[r])
    BY <1>6 DEF Finalize
  <2>2. \A t \in Tasks : taskRow'[t] # "CANCELLED"
    BY <2>1, <1>0, <1>02, <1>05 DEF Memory
  <2>3. ASSUME row' = "completed", NEW t \in Tasks PROVE taskRow'[t] \in {"PASSED", "SKIPPED", Absent}
    <3>1. IsComplete(mem[r]) /\ ~IsFailed(mem[r])
      BY <2>1, <2>3 DEF Upsert, FinalStatus
    <3>2. mem[r][t] \in {"PASSED", "SKIPPED"}
      BY <3>1, <1>02 DEF IsComplete, IsFailed, With, Terminal
    <3> QED BY <3>2, <2>1 DEF Upsert, Absent
  <2> QED BY <2>1, <2>2, <2>3, <1>0, <1>01, <1>02, DoneByTheOne
<1>7. CASE MarkFailed(r) \/ MarkFailedRaises(r)
  <2>1. UNCHANGED <<taskRow, mem>> /\ (row' = "completed" => row = "completed")
    BY <1>7 DEF MarkFailed, MarkFailedRaises
  <2>2. row = "completed" => \A t \in Tasks : taskRow[t] \in {"PASSED", "SKIPPED", Absent}
    BY DEF DoneInv, CompletedIsDone
  <2> QED BY <2>1, <2>2, <1>0, <1>01, <1>02, DoneByTheOne
<1>8. CASE Close(r)
  <2>1. UNCHANGED <<row, taskRow>> /\ mem' = [mem EXCEPT ![r] = NoTasks]
    BY <1>8 DEF Close
  <2>2. NoTasks \in Memory /\ \A t \in Tasks : NoTasks[t] # "CANCELLED"
    BY DEF NoTasks, Memory, Absent
  <2>3. \A q \in Runners, t \in Tasks : mem'[q][t] # "CANCELLED"
    BY <2>1, <2>2, <1>04
  <2>4. row = "completed" => \A t \in Tasks : taskRow[t] \in {"PASSED", "SKIPPED", Absent}
    BY DEF DoneInv, CompletedIsDone
  <2> QED BY <2>1, <2>3, <2>4, <1>0, <1>01, <1>02, DoneByTheOne
<1>9. CASE \E t \in Tasks : \/ StartTask(r, t) \/ RejectTask(r, t) \/ EndTask(r, t)
                            \/ RetryTask(r, t) \/ TaskRaises(r, t) \/ BreaksLimit(r, t)
  <2>1. PICK t \in Tasks, s \in BatchStatus : TaskActs(r, t, s)
    BY <1>9, TasksAct DEF Known
  <2>2. row' # "completed"
    BY <2>1, <1>03 DEF TaskActs, Idle, Final, RowAfter, Absent
  <2>3. \A u \in Tasks : taskRow'[u] # "CANCELLED"
    BY <2>1, <1>02 DEF TaskActs, Had, BatchStatus
  <2>4. [mem[r] EXCEPT ![t] = s] \in Memory
        /\ \A u \in Tasks : [mem[r] EXCEPT ![t] = s][u] # "CANCELLED"
    BY <2>1, <1>0, <1>02 DEF Memory, BatchStatus, TaskStatus, Active, Terminal
  <2>5. \A q \in Runners, u \in Tasks : mem'[q][u] # "CANCELLED"
    BY <2>1, <2>4, <1>04 DEF TaskActs
  <2> QED BY <2>2, <2>3, <2>5, <1>0, <1>01, DoneByTheOne
<1> QED BY <1>1, <1>2, <1>3, <1>4, <1>5, <1>6, <1>7, <1>8, <1>9 DEF RunnerStep, Mishap

LEMMA DoneKeptByRequest ==
  ASSUME Known, DoneInv, NEW h \in Requests, Arrive(h) \/ RequestStep(h)
  PROVE  DoneInv'
<1> USE DEF GotoReq, rows, runners
<1>0. /\ req \in [Requests -> InFlight \cup Answers] /\ run \in [Runners -> Places]
      /\ h \in Runners /\ UNCHANGED <<server, fresh, mem>>
      /\ \A r \in Runners, t \in Tasks : mem[r][t] # "CANCELLED"
  <2>1. UNCHANGED <<server, fresh, mem>>
    BY DEF Arrive, RequestStep, CancelSignal, CancelUpdate, RetryRead, RetryCheck, RetryReset,
       RetryCount, RetryMark, RetryResume, RetryRaises, DeleteRead, DeleteTasks,
       DeleteWorkstreams, DeleteWorkflow
  <2> QED BY <2>1 DEF Known, TypeOK, DoneInv, Runners
<1>1. server = "up" /\ ~fresh
  <2>1. req[h] \in InFlight \/ server = "up"
    BY DEF InFlight, Arrive, RequestStep, CancelSignal, CancelUpdate, RetryRead,
       RetryCheck, RetryReset, RetryCount, RetryMark, RetryResume, RetryRaises, DeleteRead,
       DeleteTasks, DeleteWorkstreams, DeleteWorkflow
  <2> QED BY <2>1 DEF Known, Quiet, Busy, DoneInv
<1>2. CASE RetryReset(h)
  <2>1. req' = [req EXCEPT ![h] = "retry_count"] /\ UNCHANGED <<run, row>>
    BY <1>2 DEF RetryReset
  <2>2. \A t \in Tasks : taskRow'[t] \in {taskRow[t], "PENDING"} \ {"CANCELLED"}
        /\ (taskRow[t] \notin {"FAILED", "CANCELLED"} => taskRow'[t] = taskRow[t])
    BY <1>2 DEF RetryReset, Resets
  <2>3. CompletedIsDone'
    BY <2>1, <2>2 DEF DoneInv, CompletedIsDone, Absent
  <2> QED BY <2>1, <2>2, <2>3, <1>0, <1>1 DEF DoneInv, NoCancelledRow, Live
<1>3. CASE DeleteTasks(h) \/ DeleteWorkflow(h)
  <2>1. UNCHANGED run /\ (row' = "completed" => row = "completed")
        /\ (taskRow' = NoTasks \/ UNCHANGED taskRow)
        /\ \E p \in {"delete_workstreams", "error", "ok"} : req' = [req EXCEPT ![h] = p]
    BY <1>3 DEF DeleteTasks, DeleteWorkflow, Absent
  <2>2. \A t \in Tasks : taskRow'[t] = Absent \/ taskRow'[t] = taskRow[t]
    BY <2>1 DEF NoTasks
  <2> QED BY <2>1, <2>2, <1>0, <1>1 DEF DoneInv, CompletedIsDone, NoCancelledRow, Live, Cleared, Absent
<1>4. CASE RetryResume(h)
  <2>1. req[h] = "retry_resume" /\ UNCHANGED <<row, taskRow>>
        /\ (\E p \in {"error", "ok"} : req' = [req EXCEPT ![h] = p])
    BY <1>4 DEF RetryResume
  <2>2. NoCancelledRow
    BY <2>1 DEF DoneInv, Cleared
  <2> QED BY <2>1, <2>2, <1>0, <1>1, DoneFrame DEF Cleared
<1>5. CASE ~(RetryReset(h) \/ DeleteTasks(h) \/ DeleteWorkflow(h) \/ RetryResume(h))
  <2>1. UNCHANGED <<taskRow, run>> /\ (row' = "completed" => row = "completed")
    BY <1>5 DEF Arrive, RequestStep, CancelSignal, CancelUpdate, RetryRead, RetryCheck,
       RetryCount, RetryMark, RetryRaises, DeleteRead, DeleteWorkstreams, RowAfter, Absent
  <2>2. PICK p \in InFlight \cup Answers :
          req' = [req EXCEPT ![h] = p] /\ (p \in Cleared => req[h] \in Cleared)
    BY <1>5, LifecycleAssumption DEF Arrive, RequestStep, CancelSignal, CancelUpdate, RetryRead,
       RetryCheck, RetryCount, RetryMark, RetryRaises, DeleteRead, DeleteWorkstreams, Cleared,
       InFlight, Answers
  <2> QED BY <2>1, <2>2, <1>0, <1>1, DoneFrame DEF Live
<1> QED BY <1>2, <1>3, <1>4, <1>5

LEMMA DoneKept == Known /\ SettledInv /\ DoneInv /\ [Next]_vars => DoneInv'
<1> SUFFICES ASSUME Known, SettledInv, DoneInv, [Next]_vars PROVE DoneInv'
  OBVIOUS
<1>0. /\ Launch \in Runners /\ Requests \subseteq Runners /\ run \in [Runners -> Places]
      /\ mem \in [Runners -> Memory] /\ taskRow \in Memory
      /\ req \in [Requests -> InFlight \cup Answers]
      /\ \A r \in Runners, t \in Tasks : mem[r][t] # "CANCELLED"
  BY DEF Runners, Known, TypeOK, DoneInv
<1>1. CASE UNCHANGED vars
  BY <1>1, <1>0, DoneFrame DEF vars, rows, runners, Live
<1>2. CASE Generate \/ Seed \/ Plan \/ PlanFails
  <2>1. Live(Launch) /\ UNCHANGED <<server, fresh, row, taskRow, req>>
    BY <1>2 DEF Generate, Seed, Plan, PlanFails, Live, rows
  <2>2. mem' \in {mem, [mem EXCEPT ![Launch] = [t \in Tasks |-> "PENDING"]]}
    BY <1>2 DEF Generate, Seed, Plan, PlanFails, SetMem
  <2>3. \A r \in Runners, t \in Tasks : mem'[r][t] # "CANCELLED"
    BY <2>2, <1>0
  <2>4. ~fresh
    BY <2>1, <1>0 DEF Known, Quiet, DoneInv
  <2> QED BY <2>1, <2>3, <2>4, <1>0, DoneFrame DEF DoneInv
<1>3. ASSUME NEW r \in Runners, RunnerStep(r) \/ Mishap(r) PROVE DoneInv'
  BY <1>3, DoneKeptByRunner
<1>4. ASSUME NEW h \in Requests, Arrive(h) \/ RequestStep(h) PROVE DoneInv'
  BY <1>4, DoneKeptByRequest
<1>5. CASE Crash
  <2>1. \A h \in Requests : req'[h] \notin Cleared
    BY <1>5, <1>0 DEF Crash, Busy, InFlight, Cleared
  <2>2. \A r \in Runners : ~Live(r)'
    BY <1>5, <1>0 DEF Crash, Live
  <2>3. UNCHANGED <<row, taskRow>> /\ ~fresh' /\ mem' = [r \in Runners |-> NoTasks]
    BY <1>5 DEF Crash, rows
  <2> QED BY <2>1, <2>2, <2>3 DEF DoneInv, CompletedIsDone, NoTasks, Absent
<1>6. CASE Startup
  <2>1. UNCHANGED <<run, req, mem>> /\ server # "up"
    BY <1>6 DEF Startup, Restart, FailOrphan, CancelOrphanTasks, runners
  <2>2. \A r \in Runners : ~Live(r)'
    BY <2>1 DEF Known, Quiet, Live
  <2>3. \A h \in Requests : req'[h] \notin Cleared
    BY <2>1 DEF Known, Quiet, Busy, InFlight, Cleared
  <2>4. CompletedIsDone' /\ (fresh' => server' = "cancel_tasks" /\ row' = "failed")
    <3>1. CASE Restart
      BY <3>1 DEF Restart, rows, DoneInv, CompletedIsDone
    <3>2. CASE FailOrphan
      BY <3>2 DEF FailOrphan, DoneInv, CompletedIsDone
    <3>3. CASE CancelOrphanTasks
      <4>1. row = "completed" => UNCHANGED taskRow
        <5> SUFFICES ASSUME row = "completed" PROVE UNCHANGED taskRow
          OBVIOUS
        <5>1. taskRow' = [t \in Tasks |-> taskRow[t]]
          BY <3>3 DEF CancelOrphanTasks, DoneInv
        <5> QED BY <5>1, <1>0 DEF Memory
      <4> QED BY <4>1, <3>3 DEF CancelOrphanTasks, DoneInv, CompletedIsDone
    <3> QED BY <1>6, <3>1, <3>2, <3>3 DEF Startup
  <2> QED BY <2>1, <2>2, <2>3, <2>4, <1>0 DEF DoneInv
<1> QED BY <1>0, <1>1, <1>2, <1>3, <1>4, <1>5, <1>6 DEF Next, LaunchStep

(* Beside the row of a completed workflow every task's row has passed or    *)
(* was skipped, whatever is cancelled, retried, recovered or saved late.    *)
THEOREM CompletedIsDoneHolds ==
  ASSUME MaxOverlap \in {0, 1}, IsFiniteSet(Requests)
  PROVE  Spec => []CompletedIsDone
<1>1. Init => SettledInv /\ DoneInv
  BY DEF Init, SettledInv, SettledIsIdle, Final, DoneInv, CompletedIsDone, NoCancelledRow, NoTasks,
     Absent, Cleared
<1>2. DoneInv => CompletedIsDone
  BY DEF DoneInv
<1>3. Known /\ SettledInv /\ DoneInv /\ [Next]_vars => (Known /\ SettledInv /\ DoneInv)'
  BY KnownKept, SettledKept, DoneKept
<1> QED BY <1>1, <1>2, <1>3, KnownHolds, PTL DEF Spec
=============================================================================
