----------------------------- MODULE TaskLedger -----------------------------
(***************************************************************************)
(* What a workflow promises whoever reads its committed rows, whatever     *)
(* happens to the process that writes them.  Tasks are worked on in        *)
(* batches.  A batch takes tasks that have not begun, whose dependencies'  *)
(* rows have passed and that have an attempt left, while the workflow is   *)
(* open.  Until the batch is over the row of such a task may be whatever   *)
(* the task has been since the batch began, also something older than it   *)
(* was before; no other row moves.  Each batch is worth one attempt, and a *)
(* task fails on its own only when no attempt is left.  Between batches    *)
(* the whole workflow may be given up (every open task fails) or abandoned *)
(* (every open task is skipped), and only then is it COMPLETED, over tasks *)
(* that all ended without a failure.                                       *)
(***************************************************************************)
EXTENDS TaskGraph

CONSTANTS
  MaxRetries,   \* attempts a task has; the first is always granted
  Unassigned    \* tasks that nobody can work on

VARIABLES
  row, tries, verdict,
  open,         \* the tasks of the batch under way
  base          \* the attempts every task had used when it began

ledger == <<row, tries, verdict, open, base>>

AttemptLeft(n) == n = 0 \/ n < MaxRetries

(* What t can have been, with which attempts, since the batch began. *)
Waiting(t, s, k)  == s = "PENDING" /\ k = base[t]
Rejected(t, s, k) == s = "FAILED" /\ k = base[t] /\ t \in Unassigned
AtWork(t, s, k)   == s \in Active \cup {"PASSED"} /\ k = base[t] + 1
Again(t, s, k)    == s = "PENDING" /\ k = base[t] + 1 /\ AttemptLeft(k)
OutOfTries(t, s, k) == s = "FAILED" /\ k = base[t] + 1 /\ ~AttemptLeft(k)

HasBeen(t, s, k) ==
  \/ Waiting(t, s, k) \/ Rejected(t, s, k)
  \/ t \notin Unassigned /\ (AtWork(t, s, k) \/ Again(t, s, k) \/ OutOfTries(t, s, k))

Open ==
  /\ open = {} /\ verdict = "IN_PROGRESS"
  /\ open' # {} /\ open' \subseteq Tasks /\ base' = tries
  /\ \A t \in open' : row[t] = "PENDING" /\ DepsPassed(row, t) /\ AttemptLeft(tries[t])
  /\ UNCHANGED <<row, tries, verdict>>

Work ==
  /\ open # {}
  /\ row' \in [Tasks -> TaskStatus] /\ tries' \in [Tasks -> Nat]
  /\ \A t \in open : HasBeen(t, row'[t], tries'[t])
  /\ \A t \in Tasks \ open : row'[t] = row[t] /\ tries'[t] = tries[t]
  /\ \/ UNCHANGED <<open, base, verdict>>
     \/ open' = {} /\ verdict' \in {"IN_PROGRESS", "FAILED"}

Ended(s) == [t \in Tasks |-> IF row[t] \in Terminal THEN row[t] ELSE s]

Decide ==
  /\ open = {} /\ UNCHANGED <<tries, open, base>>
  /\ row' \in {row, Ended("FAILED"), Ended("SKIPPED")}
  /\ \/ verdict' \in {verdict, "IN_PROGRESS", "FAILED", "CANCELLED"}
     \/ verdict' = "COMPLETED" /\ IsComplete(row') /\ ~IsFailed(row')

Init == /\ row = [t \in Tasks |-> "PENDING"]
        /\ tries = [t \in Tasks |-> 0]
        /\ verdict = "PLANNING"
        /\ open = {} /\ base = [t \in Tasks |-> 0]

Next == Open \/ Work \/ Decide
Spec == Init /\ [][Next]_ledger
=============================================================================
