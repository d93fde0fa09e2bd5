--------------------------- MODULE CircuitBreaker ---------------------------
(***************************************************************************)
(* A circuit breaker shared by callers that ask it before a call and       *)
(* report afterwards.  A call is slow: between the question and the report *)
(* others report, the breaker opens, and the cooldown elapses.             *)
(***************************************************************************)
EXTENDS BreakerState

CONSTANTS
  Callers,        \* tasks that go through the breaker at the same time
  Resettable,     \* whether somebody calls reset()
  FailureBound    \* bound: failures that are recorded in all

ASSUME CallersAssumption == Resettable \in BOOLEAN /\ FailureBound \in Nat

VARIABLES
  shared,         \* the breaker
  calling,        \* callers whose call has been let through and is under way
  recorded        \* failures recorded so far, up to FailureBound

cbVars == <<shared, calling, recorded>>

BreakerInit == shared = NewBreaker /\ calling = {} /\ recorded = 0

(* can_proceed() by a caller; it calls only when told so. *)
Ask(c) ==
  /\ c \notin calling
  /\ shared' = Refreshed(shared)
  /\ calling' = IF CanProceed(shared) THEN calling \cup {c} ELSE calling
  /\ UNCHANGED recorded

Succeed(c) ==
  /\ c \in calling
  /\ shared' = RecordSuccess(shared)
  /\ calling' = calling \ {c}
  /\ UNCHANGED recorded

Fail(c, e) ==
  /\ c \in calling /\ recorded < FailureBound
  /\ shared' = RecordFailure(shared, e)
  /\ calling' = calling \ {c}
  /\ recorded' = recorded + 1

ResetBreaker == Resettable /\ shared' = Reset(shared) /\ UNCHANGED <<calling, recorded>>

Elapse == /\ shared.state = "open" /\ ~shared.cooled
          /\ shared' = CoolDown(shared)
          /\ UNCHANGED <<calling, recorded>>

BreakerNext ==
  \/ \E c \in Callers : Ask(c) \/ Succeed(c) \/ \E e \in Errors : Fail(c, e)
  \/ ResetBreaker \/ Elapse

BreakerSpec == BreakerInit /\ [][BreakerNext]_cbVars

-----------------------------------------------------------------------------
BreakerTypeOK == shared \in Breaker /\ calling \subseteq Callers /\ recorded \in 0..FailureBound

(* However many late reports arrive in whatever order, a breaker that lets  *)
(* calls through without a probe has seen fewer than MaxFailures failures   *)
(* since the last success.                                                  *)
ClosedIsHealthy == shared.state = "closed" => shared.failures < MaxFailures

(* A breaker becomes half open only once the cooldown that started with the *)
(* last trip is over, and a failure it then hears of opens it again and     *)
(* starts a new cooldown.                                                   *)
HalfOpenEarned ==
  [][/\ shared'.state = "half_open" /\ shared.state # "half_open" => shared.state = "open" /\ shared.cooled
     /\ shared.state = "half_open" /\ recorded' > recorded => shared'.state = "open" /\ ~shared'.cooled]_cbVars
=============================================================================
