------------------------------ MODULE ApiCalls ------------------------------
(***************************************************************************)
(* The way of a model call: the sliding window that lets a task of one     *)
(* agent start (security/rate_limiter.py), the provider with its shared    *)
(* client, the shared concurrency limiter and the retries inside it        *)
(* (planning/*_provider.py, resilience/api_retry.py), and the record of    *)
(* what the call cost (security/budget.py).                                *)
(*                                                                         *)
(* Time is relative: a timestamp is kept as its age, so that time needs    *)
(* no bound.                                                               *)
(***************************************************************************)
EXTENDS Naturals, FiniteSets, Sequences, SequencesExt

CONSTANTS
  Calls,          \* the tasks, each of which makes one call
  Limited,        \* those that use AnthropicProvider; the others OpenAI or Bedrock
  MaxConcurrent,  \* concurrency_limit of the first provider that was built
  MaxRetries,     \* max_api_retries
  Window,         \* the 60 seconds, in ticks of the retry's sleep
  MaxPerWindow,   \* max_per_minute
  Costs,          \* what a call may cost
  MaxCost,        \* max_cost_usd; 0 is unlimited, as in the code
  Callbacks,      \* how many cost callbacks are registered
  MaxCancels      \* bound: calls that are cancelled

ASSUME ApiAssumption ==
  /\ Limited \subseteq Calls
  /\ {MaxConcurrent, Window, MaxPerWindow} \subseteq Nat \ {0}
  /\ {MaxRetries, MaxCost, Callbacks, MaxCancels} \subseteq Nat
  /\ Costs \subseteq Nat

VARIABLES
  pc,        \* pc[c]: where the call is
  nap,       \* nap[c]: c sleeps a tick before it asks the window again
  stamps,    \* _timestamps of the agent: whose start is in the list
  age,       \* age[c]: the ticks since c was let in, at most Window
  queue,     \* the waiters of the limiter's semaphore, first come first served
  permits,   \* the semaphore's value
  waiting,   \* APIConcurrencyLimiter._waiting
  attempt,   \* attempt[c]: retries so far
  client,    \* the provider's _client: its number, 0 is None
  mine,      \* mine[c]: the client the call captured
  built,     \* clients built so far
  spent,     \* BudgetTracker.total_cost_usd
  cost,      \* cost[c]: what the answered call cost
  billed,    \* billed[k]: what callback k was told of
  told,      \* told[c]: how many callbacks were told of c
  cancels    \* used up of MaxCancels

window == <<nap, stamps, age>>
limiter == <<queue, permits, waiting>>
clients == <<client, mine, built>>
budget == <<spent, cost, billed, told>>
vars == <<pc, window, limiter, attempt, clients, budget, cancels>>

Ended == {"done", "failed", "cancelled"}
Holding == {c \in Limited : pc[c] \in {"trying", "backoff"}}

Init ==
  /\ pc = [c \in Calls |-> "spawned"] /\ nap = [c \in Calls |-> FALSE]
  /\ stamps = {} /\ age = [c \in Calls |-> 0]
  /\ queue = <<>> /\ permits = MaxConcurrent /\ waiting = 0
  /\ attempt = [c \in Calls |-> 0]
  /\ client = 0 /\ mine = [c \in Calls |-> 0] /\ built = 0
  /\ spent = 0 /\ cost = [c \in Calls |-> 0]
  /\ billed = [k \in 1 .. Callbacks |-> 0] /\ told = [c \in Calls |-> 0] /\ cancels = 0

Goto(c, place) == pc' = [pc EXCEPT ![c] = place]

-----------------------------------------------------------------------------
(* RateLimiter *)

(* The timestamps within the window that ends now.                          *)
PrunedEarly == {c \in stamps : age[c] < Window - 1}   \* a slip
Pruned == {c \in stamps : age[c] < Window}
HasRoom == Cardinality(Pruned) < MaxPerWindow

(* acquire: under the lock, prune, then take a place in the window or none. *)
Admit(c) ==
  /\ pc[c] = "spawned" /\ ~nap[c]
  /\ HasRoom
  /\ stamps' = Pruned \cup {c}
  /\ Goto(c, "admitted")
  /\ UNCHANGED <<nap, age, limiter, attempt, clients, budget, cancels>>

Refuse(c) ==
  /\ pc[c] = "spawned" /\ ~nap[c]
  /\ ~HasRoom
  /\ stamps' = Pruned
  /\ nap' = [nap EXCEPT ![c] = TRUE]
  /\ UNCHANGED <<pc, age, limiter, attempt, clients, budget, cancels>>

(* A second passes: whoever slept asks again.                               *)
Tick ==
  /\ age' = [c \in Calls |-> IF pc[c] # "spawned" /\ age[c] < Window THEN age[c] + 1 ELSE age[c]]
  /\ nap' = [c \in Calls |-> FALSE]
  /\ UNCHANGED <<pc, stamps, limiter, attempt, clients, budget, cancels>>

-----------------------------------------------------------------------------
(* The providers *)

(* generate and generate_multi of AnthropicProvider build the client when   *)
(* there is none, keep it for all their attempts, and enter the limiter.    *)
GetClient(c) ==
  IF client = 0
  THEN built' = built + 1 /\ client' = built + 1 /\ mine' = [mine EXCEPT ![c] = built + 1]
  ELSE mine' = [mine EXCEPT ![c] = client] /\ UNCHANGED <<built, client>>

Generate(c) ==
  /\ pc[c] = "admitted" /\ c \in Limited
  /\ GetClient(c)
  /\ queue' = Append(queue, c) /\ waiting' = waiting + 1
  /\ Goto(c, "queued")
  /\ UNCHANGED <<permits, window, attempt, budget, cancels>>

(* asyncio.Semaphore wakes its first waiter; __aenter__ then counts it out. *)
Enter(c) ==
  /\ queue # <<>> /\ Head(queue) = c /\ permits > 0
  /\ queue' = Tail(queue) /\ permits' = permits - 1 /\ waiting' = waiting - 1
  /\ Goto(c, "trying")
  /\ UNCHANGED <<window, attempt, clients, budget, cancels>>

(* OpenAIProvider and OllamaProvider (which delegates) build a client per   *)
(* call, and use neither the limiter nor the retries.                       *)
GenerateUnlimited(c) ==
  /\ pc[c] = "admitted" /\ c \notin Limited
  /\ Goto(c, "trying")
  /\ UNCHANGED <<window, limiter, attempt, clients, budget, cancels>>

(* __aexit__ releases the permit, whatever ended the block.                 *)
Release(c) ==
  permits' = IF c \in Holding THEN permits + 1 ELSE permits

Succeed(c) ==
  /\ pc[c] = "trying"
  /\ Release(c)
  /\ \E price \in Costs : cost' = [cost EXCEPT ![c] = price]
  /\ Goto(c, "answered")
  /\ UNCHANGED <<window, queue, waiting, attempt, clients, spent, billed, told, cancels>>

(* The classes of exceptions is_transient_error and _is_connection_error    *)
(* tell apart: a broken connection or timeout, an overloaded or failing     *)
(* service, a refused request.                                              *)
Errors == {"connection", "overloaded", "refused"}
IsTransient(e) == e \in {"connection", "overloaded"}
IsConnectionError(e) == e = "connection"

MayRetry(c, e) == c \in Limited /\ IsTransient(e) /\ attempt[c] < MaxRetries

(* A slip: the attempt is not counted. *)
BackOffUncounted(c) ==
  /\ pc[c] = "trying"
  /\ \E e \in Errors : MayRetry(c, e)
  /\ Goto(c, "backoff")
  /\ UNCHANGED <<window, limiter, attempt, clients, budget, cancels>>

(* retry_with_backoff sleeps inside the limiter, with its permit.           *)
BackOff(c) ==
  /\ pc[c] = "trying"
  /\ \E e \in Errors : MayRetry(c, e)
  /\ attempt' = [attempt EXCEPT ![c] = @ + 1]
  /\ Goto(c, "backoff")
  /\ UNCHANGED <<window, limiter, clients, budget, cancels>>

TryAgain(c) ==
  /\ pc[c] = "backoff"
  /\ Goto(c, "trying")
  /\ UNCHANGED <<window, limiter, attempt, clients, budget, cancels>>

(* A slip: the permit is kept when the last attempt raises. *)
GiveUpHolding(c) ==
  /\ pc[c] = "trying"
  /\ \E e \in Errors :
        /\ ~MayRetry(c, e)
        /\ client' = IF c \in Limited /\ IsConnectionError(e) THEN 0 ELSE client
  /\ Goto(c, "failed")
  /\ UNCHANGED <<window, limiter, attempt, mine, built, budget, cancels>>

(* The exception reaches the caller.  A connection error drops the client   *)
(* the provider has by now, which need not be the one that failed.          *)
GiveUp(c) ==
  /\ pc[c] = "trying"
  /\ \E e \in Errors :
        /\ ~MayRetry(c, e)
        /\ client' = IF c \in Limited /\ IsConnectionError(e) THEN 0 ELSE client
  /\ Release(c)
  /\ Goto(c, "failed")
  /\ UNCHANGED <<window, queue, waiting, attempt, mine, built, budget, cancels>>

(* The awaiting task is cancelled.  A waiter leaves the queue, but nobody   *)
(* takes it off _waiting.                                                   *)
Cancel(c) ==
  /\ cancels < MaxCancels /\ cancels' = cancels + 1
  /\ \/ pc[c] = "queued" /\ \E i \in DOMAIN queue : queue[i] = c /\ queue' = RemoveAt(queue, i)
     \/ pc[c] \in {"trying", "backoff"} /\ UNCHANGED queue
  /\ Release(c)
  /\ Goto(c, "cancelled")
  /\ UNCHANGED <<window, waiting, attempt, clients, budget>>

-----------------------------------------------------------------------------
(* BudgetTracker.record_llm_usage, whose exceptions the orchestrator drops. *)

OverLimitBefore(price) == MaxCost # 0 /\ spent > MaxCost   \* a slip
OverLimit(price) == MaxCost # 0 /\ spent + price > MaxCost

Record(c) ==
  /\ pc[c] = "answered"
  /\ spent' = spent + cost[c]
  /\ Goto(c, IF OverLimit(cost[c]) \/ Callbacks = 0 THEN "done" ELSE "billing")
  /\ UNCHANGED <<window, limiter, attempt, clients, cost, billed, told, cancels>>

(* The callbacks are awaited in turn, outside the lock.  An exception of    *)
(* one ends the round.                                                      *)
Bill(c) ==
  /\ pc[c] = "billing"
  /\ told' = [told EXCEPT ![c] = @ + 1]
  /\ billed' = [billed EXCEPT ![told[c] + 1] = @ + cost[c]]
  /\ \/ told[c] + 1 < Callbacks /\ Goto(c, "billing")
     \/ Goto(c, "done")
  /\ UNCHANGED <<window, limiter, attempt, clients, spent, cost, cancels>>

-----------------------------------------------------------------------------
Ask(c) == Admit(c) \/ Refuse(c)
Step(c) ==
  \/ Ask(c) \/ Generate(c) \/ GenerateUnlimited(c) \/ Enter(c)
  \/ Succeed(c) \/ BackOff(c) \/ TryAgain(c) \/ GiveUp(c) \/ Record(c) \/ Bill(c)

Next == Tick \/ \E c \in Calls : Step(c) \/ Cancel(c)

Spec == Init /\ [][Next]_vars

(* Every attempt ends, by its timeout at the latest; sleeps end; asyncio    *)
(* resumes whoever is woken.  Nothing is cancelled of necessity.            *)
FairSpec == Spec /\ WF_vars(Tick) /\ \A c \in Calls : WF_vars(Step(c))

-----------------------------------------------------------------------------
TypeOK ==
  /\ pc \in [Calls -> Ended \cup {"spawned", "admitted", "queued", "trying",
                                  "backoff", "answered", "billing"}]
  /\ nap \in [Calls -> BOOLEAN]
  /\ stamps \subseteq Calls /\ age \in [Calls -> 0 .. Window]
  /\ queue \in Seq(Limited) /\ {permits, waiting, client, built, spent} \subseteq Nat
  /\ attempt \in [Calls -> Nat] /\ mine \in [Calls -> Nat]
  /\ cost \in [Calls -> Nat] /\ billed \in [1 .. Callbacks -> Nat]
  /\ told \in [Calls -> Nat] /\ cancels \in Nat

(* Permits are neither lost nor made: whether calls succeed, raise or are   *)
(* cancelled while they wait, try or back off, the semaphore's value and    *)
(* the calls inside make up the limit, and the queue's count never falls    *)
(* short of the queue (api_retry.py:138-150).                               *)
PermitsKept ==
  /\ permits + Cardinality(Holding) = MaxConcurrent
  /\ ToSet(queue) = {c \in Limited : pc[c] = "queued"}
  /\ Len(queue) <= waiting /\ waiting <= Len(queue) + cancels

(* In no window of sixty seconds do more than max_per_minute tasks of an    *)
(* agent start, however the waiters wake (rate_limiter.py:26-43).           *)
WindowHeld ==
  Cardinality({c \in Calls : pc[c] # "spawned" /\ age[c] < Window}) <= MaxPerWindow

(* What the billing callbacks are told never adds up to more than the cost  *)
(* limit, nor a later callback to more than an earlier one, although they   *)
(* are awaited outside the lock (budget.py:82-96).                          *)
BilledWithinLimit ==
  /\ MaxCost # 0 => \A k \in DOMAIN billed : billed[k] <= MaxCost
  /\ \A k \in DOMAIN billed : k > 1 => billed[k] <= billed[k - 1]

(* Every task is admitted, and its call ends, although retries sleep with   *)
(* a permit and the window is shared (api_retry.py:89-123).                 *)
CallsEnd == \A c \in Calls : <>(pc[c] \in Ended)
=============================================================================
