---------------------------- MODULE BreakerState ----------------------------
(***************************************************************************)
(* The methods of rooben.resilience.CircuitBreaker as functions of a       *)
(* breaker record.  CircuitBreaker.tla runs them on their own; the         *)
(* orchestrator holds one such record.                                     *)
(***************************************************************************)
EXTENDS Naturals, FiniteSets

CONSTANTS
  Errors,         \* the distinct error messages (their md5 prefixes)
  MaxFailures,    \* max_failures: consecutive failures that open the breaker
  MaxIdentical    \* max_identical: occurrences of one error that open it

ASSUME BreakerAssumption ==
  /\ MaxFailures \in Nat \ {0}
  /\ MaxIdentical \in Nat \ {0}

BreakerStates == {"closed", "open", "half_open"}

(* state: _state; failures: _consecutive_failures; hashes: _error_hashes;   *)
(* cooled: whether cooldown_seconds have passed since _opened_at.           *)
Breaker == [state : BreakerStates, failures : Nat,
            hashes : [Errors -> Nat], cooled : BOOLEAN]

NewBreaker ==
  [state |-> "closed", failures |-> 0, hashes |-> [e \in Errors |-> 0], cooled |-> FALSE]

(* Slips: half open without a cooldown; a success that keeps the count.     *)
RefreshedAtOnce(b) == [b EXCEPT !.state = IF @ = "open" THEN "half_open" ELSE @]
RecordSuccessUncleared(b) == [b EXCEPT !.state = "closed"]

(* The state property: reading it moves OPEN to HALF_OPEN after the cooldown. *)
Refreshed(b) ==
  [b EXCEPT !.state = IF @ = "open" /\ b.cooled THEN "half_open" ELSE @]

(* can_proceed; the caller keeps Refreshed(b) *)
CanProceed(b) == Refreshed(b).state \in {"closed", "half_open"}

(* _trip: opening starts a new cooldown *)
Tripped(b) == [b EXCEPT !.state = "open", !.cooled = FALSE]

(* record_success: the recorded error hashes stay *)
RecordSuccess(b) == [b EXCEPT !.failures = 0, !.state = "closed"]

(* record_failure *)
Heard(b, e) == [b EXCEPT !.failures = @ + 1, !.hashes[e] = @ + 1]

RecordFailure(b, e) ==
  LET heard == Heard(b, e)
  IN  IF \/ b.state = "half_open"
         \/ heard.failures >= MaxFailures
         \/ \E x \in Errors : heard.hashes[x] >= MaxIdentical
      THEN Tripped(heard)
      ELSE heard

(* reset: _opened_at = 0.0 lies in the past of any monotonic clock *)
Reset(b) == NewBreaker

(* time: the cooldown of an open breaker elapses *)
CoolDown(b) == [b EXCEPT !.cooled = TRUE]
=============================================================================
