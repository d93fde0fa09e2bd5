------------------------------- MODULE McpPool -------------------------------
(***************************************************************************)
(* The connections of MCP agents: MCPConnectionPool, the sessions of the   *)
(* MCPClient it pools, and the agent's use of both (_execute_pooled and    *)
(* _call_tool_with_retry).  All tasks share one configuration, hence one   *)
(* key of the pool, and a client has one server: neither the keys nor the  *)
(* servers of a client affect each other.                                  *)
(*                                                                         *)
(* A step is the code between two awaits.  The pool's lock is held across  *)
(* the awaits of checkout (closing evicted connections) and close_all;     *)
(* checkin awaits nothing while it holds it.                               *)
(***************************************************************************)
EXTENDS Naturals, Sequences, FiniteSets

CONSTANTS
  Users,          \* the agents, each of which runs its tasks one by one
  Conns,          \* bound: the MCPClients that somebody may still use
  None,           \* no connection, no user
  MaxIdle,        \* max_idle
  MaxReconnects,  \* max_retries of _call_tool_with_retry
  MaxUses,        \* bound: tasks an agent runs
  MaxDeaths,      \* bound: sessions that die under a call
  MaxFailures,    \* bound: servers that cannot be reached
  MaxRaises       \* bound: exceptions out of closing a connection

ASSUME PoolAssumption ==
  /\ None \notin Users \cup Conns
  /\ {MaxIdle, MaxReconnects, MaxUses, MaxDeaths, MaxFailures, MaxRaises} \subseteq Nat

VARIABLES
  conn,     \* conn[c]: the client c: its session, and what is known of it
  pool,     \* the deque of idle connections
  lock,     \* who holds the pool's _lock across an await
  connecting,  \* who holds _connect_lock
  pc,       \* pc[u]: where the task of u is
  goal,     \* goal[u]: whether a checkout is for the "task" or for one "call"
  client,   \* client[u]: the connection the task works with
  other,    \* other[u]: a connection u evicts, or was given for one call
  direct,   \* direct[u]: client[u] did not come from the pool
  tries,    \* tries[u]: reconnections attempted for the call at hand
  uses,     \* uses[u]: tasks begun
  deaths, failures, raises,  \* used up of the bounds
  closed    \* close_all has run

locks  == <<lock, connecting>>
hands  == <<goal, client, other, direct>>
bounds == <<uses, deaths, failures, raises>>
vars   == <<conn, pool, locks, pc, hands, tries, bounds, closed>>

(* open: the client has an exit stack, which owns its server's process;     *)
(* session: its server has one in _sessions; dead: the server is in         *)
(* _dead_sessions; old: idle for longer than MAX_IDLE_AGE.                  *)
Client == [open : BOOLEAN, session : BOOLEAN, dead : BOOLEAN, old : BOOLEAN]
NoClient == [open |-> FALSE, session |-> FALSE, dead |-> FALSE, old |-> FALSE]

Places == {"idle", "checkout", "evicting", "want_connect", "connecting", "want_direct",
           "using", "reconnecting", "recalling", "calling_other",
           "checkin", "closing"}

Pooled == {pool[i] : i \in 1 .. Len(pool)}
Held(u) == {client[u], other[u]} \ {None}

TypeOK ==
  /\ conn \in [Conns -> Client]
  /\ pool \in Seq(Conns)
  /\ {lock, connecting} \subseteq Users \cup {None}
  /\ pc \in [Users -> Places] /\ goal \in [Users -> {"task", "call"}]
  /\ {client, other} \subseteq [Users -> Conns \cup {None}]
  /\ direct \in [Users -> BOOLEAN]
  /\ tries \in [Users -> 0 .. MaxReconnects] /\ uses \in [Users -> 0 .. MaxUses]
  /\ deaths \in 0 .. MaxDeaths /\ failures \in 0 .. MaxFailures /\ raises \in 0 .. MaxRaises
  /\ closed \in BOOLEAN

Nobody == [u \in Users |-> None]

Init ==
  /\ conn = [c \in Conns |-> NoClient] /\ pool = <<>>
  /\ lock = None /\ connecting = None
  /\ pc = [u \in Users |-> "idle"] /\ goal = [u \in Users |-> "task"]
  /\ client = Nobody /\ other = Nobody /\ direct = [u \in Users |-> FALSE]
  /\ tries = [u \in Users |-> 0] /\ uses = [u \in Users |-> 0]
  /\ deaths = 0 /\ failures = 0 /\ raises = 0 /\ closed = FALSE

Goto(u, place) == pc' = [pc EXCEPT ![u] = place]
Set(f, u, x) == [f EXCEPT ![u] = x]

-----------------------------------------------------------------------------
(* MCPClient                                                               *)

(* connect swallows the exception of a server that cannot be reached: the   *)
(* client then has no session, and the server is not marked dead.           *)
Connected(ok) ==
  [open |-> TRUE, session |-> ok, dead |-> FALSE, old |-> FALSE]

(* reconnect_server drops the old session first; a failure keeps the mark.  *)
Reconnected(c, ok) == [conn[c] EXCEPT !.session = ok, !.dead = @ /\ ~ok]

(* A call finds the session dead, or dies with it. *)
Died(c) == [conn[c] EXCEPT !.dead = TRUE]

(* close: the exit stack is unwound even when it raises.  Nobody uses the   *)
(* client afterwards, so its name stands for the next one to be created.    *)
Closed == NoClient

(* The next MCPClient, whichever name it gets.                              *)
Created(c) == ~conn[c].open /\ c = CHOOSE d \in Conns : ~conn[d].open

(* Whether a server is reached; failures are bounded.                      *)
Attempt(ok) ==
  IF ok THEN UNCHANGED failures ELSE failures < MaxFailures /\ failures' = failures + 1

-----------------------------------------------------------------------------
(* MCPConnectionPool.checkout                                              *)

TakenPeeking == pool   \* a slip: the connection stays in the deque
Taken == Tail(pool)

Obtain(u, c) ==
  IF goal[u] = "task"
  THEN client' = Set(client, u, c) /\ other' = Set(other, u, None) /\ Goto(u, "using")
  ELSE other' = Set(other, u, c) /\ Goto(u, "calling_other") /\ UNCHANGED client

Stale(c) == conn[c].old \/ conn[c].dead

(* The loop over the deque until its next await or its end.                 *)
Pop(u) ==
  \/ /\ pool = <<>>
     /\ lock' = None
     /\ Goto(u, "want_connect")
     /\ other' = Set(other, u, None)
     /\ UNCHANGED <<pool, client>>
  \/ /\ pool # <<>> /\ Stale(Head(pool))
     /\ lock' = u
     /\ pool' = Taken
     /\ other' = Set(other, u, Head(pool))
     /\ Goto(u, "evicting")
     /\ UNCHANGED client
  \/ /\ pool # <<>> /\ ~Stale(Head(pool))
     /\ lock' = None
     /\ pool' = Taken
     /\ Obtain(u, Head(pool))

Begin(u) ==
  /\ pc[u] = "idle" /\ ~closed
  /\ uses[u] < MaxUses
  /\ uses' = [uses EXCEPT ![u] = @ + 1]
  /\ goal' = Set(goal, u, "task")
  /\ Goto(u, "checkout")
  /\ UNCHANGED <<conn, pool, locks, client, other, direct, tries, deaths, failures,
                 raises, closed>>

Checkout(u) ==
  /\ pc[u] = "checkout" /\ lock = None
  /\ Pop(u)
  /\ UNCHANGED <<conn, connecting, goal, direct, tries, bounds, closed>>

(* the eviction's close returns, and the loop goes on *)
Evict(u) ==
  /\ pc[u] = "evicting"
  /\ conn' = Set(conn, other[u], Closed)
  /\ Pop(u)
  /\ UNCHANGED <<connecting, goal, direct, tries, bounds, closed>>
(* It raises, which releases the lock: a task goes on with a connection of  *)
(* its own or fails; a call is given up.                                    *)
EvictRaisesLeaving(u, holder) ==
  /\ pc[u] = "evicting"
  /\ raises < MaxRaises /\ raises' = raises + 1
  /\ conn' = Set(conn, other[u], Closed)
  /\ lock' = holder
  /\ other' = Set(other, u, None)
  /\ IF goal[u] = "call" THEN Goto(u, "using")
                          ELSE Goto(u, "want_direct") \/ Goto(u, "idle")
  /\ UNCHANGED <<pool, connecting, goal, client, direct, tries, uses, deaths, failures, closed>>
EvictRaisesLocked(u) == EvictRaisesLeaving(u, u)   \* a slip: the lock is kept
EvictRaises(u) == EvictRaisesLeaving(u, None)

(* Nothing pooled: connecting is serialized. *)
StartConnect(u) ==
  /\ pc[u] = "want_connect" /\ connecting = None
  /\ connecting' = u
  /\ Goto(u, "connecting")
  /\ UNCHANGED <<conn, pool, lock, hands, tries, bounds, closed>>

Connect(u) ==
  /\ pc[u] = "connecting"
  /\ \E c \in Conns, ok \in BOOLEAN :
       /\ Created(c) /\ Attempt(ok)
       /\ conn' = Set(conn, c, Connected(ok))
       /\ Obtain(u, c)
  /\ connecting' = None
  /\ UNCHANGED <<pool, lock, goal, direct, tries, uses, deaths, raises, closed>>

(* MCPAgent's own fallback, under a lock that no pooled connection takes    *)
ConnectDirectly(u) ==
  /\ pc[u] = "want_direct"
  /\ \E c \in Conns, ok \in BOOLEAN :
       /\ Created(c) /\ Attempt(ok)
       /\ conn' = Set(conn, c, Connected(ok))
       /\ client' = Set(client, u, c)
  /\ direct' = Set(direct, u, TRUE)
  /\ Goto(u, "using")
  /\ UNCHANGED <<pool, locks, goal, other, tries, uses, deaths, raises, closed>>

-----------------------------------------------------------------------------
(* The agent's calls.  A call that succeeds, or fails on a client without a *)
(* session, changes nothing.                                                *)

(* _is_connection_dead takes the exception of a call for a death; bounded.  *)
IsConnectionDead == deaths < MaxDeaths /\ deaths' = deaths + 1

(* The session dies under a call.                                          *)
Dies(c) ==
  /\ ~conn[c].dead /\ conn[c].session
  /\ IsConnectionDead
  /\ conn' = Set(conn, c, Died(c))
KnownDead(c) == conn[c].dead /\ UNCHANGED <<conn, deaths>>

CallDies(u) ==
  /\ pc[u] = "using"
  /\ Dies(client[u]) \/ KnownDead(client[u])
  /\ tries' = [tries EXCEPT ![u] = 0]
  /\ Goto(u, "reconnecting")
  /\ UNCHANGED <<pool, locks, hands, uses, failures, raises, closed>>

(* _ensure_directories and _backfill_artifacts do not retry.                *)
CallDiesUnnoticed(u) ==
  /\ pc[u] = "using"
  /\ Dies(client[u])
  /\ UNCHANGED <<pool, locks, pc, hands, tries, uses, failures, raises, closed>>

MoreTries(u) == tries[u] < MaxReconnects

Reconnect(u) ==
  /\ pc[u] = "reconnecting" /\ MoreTries(u)
  /\ tries' = [tries EXCEPT ![u] = @ + 1]
  /\ \E ok \in BOOLEAN :
       /\ Attempt(ok)
       /\ conn' = Set(conn, client[u], Reconnected(client[u], ok))
       /\ Goto(u, IF ok THEN "recalling" ELSE "reconnecting")
  /\ UNCHANGED <<pool, locks, hands, uses, deaths, raises, closed>>

CallAgain(u) ==
  /\ pc[u] = "recalling"
  /\ \/ Goto(u, "using") /\ UNCHANGED <<conn, deaths>>
     \/ Goto(u, "reconnecting") /\ Dies(client[u])
  /\ UNCHANGED <<pool, locks, hands, tries, uses, failures, raises, closed>>

(* Every reconnection failed: the call is made on another connection.       *)
FallBack(u) ==
  /\ pc[u] = "reconnecting" /\ ~MoreTries(u)
  /\ goal' = Set(goal, u, "call")
  /\ Goto(u, "checkout")
  /\ UNCHANGED <<conn, pool, locks, client, other, direct, tries, bounds, closed>>

(* new_client goes out of scope: neither checked in nor closed.             *)
CallOther(u) ==
  /\ pc[u] = "calling_other"
  /\ Dies(other[u]) \/ UNCHANGED <<conn, deaths>>
  /\ other' = Set(other, u, None)
  /\ Goto(u, "using")
  /\ UNCHANGED <<pool, locks, goal, client, direct, tries, uses, failures, raises, closed>>

-----------------------------------------------------------------------------
(* The end of a task, and checkin.                                         *)

(* A slip: a connection with a dead server is offered to the pool. *)
OfferedAny(u) == ~direct[u]
(* _execute_pooled and checkin both look, with no await in between.         *)
Offered(u) == ~direct[u] /\ ~conn[client[u]].dead

Finish(u) ==
  /\ pc[u] = "using"
  /\ Goto(u, IF Offered(u) THEN "checkin" ELSE "closing")
  /\ UNCHANGED <<conn, pool, locks, hands, tries, bounds, closed>>

Checkin(u) ==
  /\ pc[u] = "checkin" /\ lock = None
  /\ IF Len(pool) < MaxIdle
     THEN /\ pool' = Append(pool, client[u])
          /\ conn' = [conn EXCEPT ![client[u]].old = FALSE]
          /\ client' = Set(client, u, None)
          /\ Goto(u, "idle")
     ELSE /\ Goto(u, "closing")
          /\ UNCHANGED <<pool, conn, client>>
  /\ UNCHANGED <<locks, goal, other, direct, tries, bounds, closed>>

Close(u) ==
  /\ pc[u] = "closing"
  /\ conn' = Set(conn, client[u], Closed)
  /\ client' = Set(client, u, None)
  /\ direct' = Set(direct, u, FALSE)
  /\ Goto(u, "idle")
  /\ UNCHANGED <<pool, locks, goal, other, tries, bounds, closed>>

-----------------------------------------------------------------------------
(* An idle connection ages. *)
Age ==
  /\ \E c \in Pooled : ~conn[c].old /\ conn' = [conn EXCEPT ![c].old = TRUE]
  /\ UNCHANGED <<pool, locks, pc, hands, tries, bounds, closed>>

(* The launcher closes the pool when the orchestrator has returned.         *)
CloseAll ==
  /\ ~closed /\ lock = None /\ \A u \in Users : pc[u] = "idle"
  /\ closed' = TRUE
  /\ conn' = [c \in Conns |-> IF c \in Pooled THEN Closed ELSE conn[c]]
  /\ pool' = <<>>
  /\ UNCHANGED <<locks, pc, hands, tries, bounds>>

Step(u) ==
  \/ Checkout(u) \/ Evict(u) \/ StartConnect(u) \/ Connect(u) \/ ConnectDirectly(u)
  \/ Reconnect(u) \/ CallAgain(u) \/ FallBack(u) \/ CallOther(u)
  \/ Finish(u) \/ Checkin(u) \/ Close(u)

Next ==
  \/ \E u \in Users : Begin(u) \/ EvictRaises(u) \/ CallDies(u) \/ CallDiesUnnoticed(u) \/ Step(u)
  \/ Age \/ CloseAll

Spec == Init /\ [][Next]_vars

(* Awaited connections, calls and closes return, and so does the agent's    *)
(* loop of calls, which is a loop over a bounded number of turns.           *)
FairSpec == Spec /\ \A u \in Users : WF_vars(Step(u))

-----------------------------------------------------------------------------
(* Properties.                                                             *)

(* A connection has one user: no two agents hold it, no agent holds one     *)
(* that the pool may hand out, and the pool has it once.                    *)
Exclusive ==
  /\ \A u, v \in Users : u # v => Held(u) \cap Held(v) = {}
  /\ \A u \in Users : Held(u) \cap Pooled = {}
  /\ \A i, j \in 1 .. Len(pool) : i # j => pool[i] # pool[j]

(* What the pool would hand out is open and not known to be dead, through   *)
(* any sequence of deaths, reconnections and evictions: checkout's own      *)
(* search for dead servers finds none.                                      *)
PooledAlive ==
  \A c \in Pooled : conn[c].open /\ ~conn[c].dead

(* A task that asked for a connection ends, whoever holds the locks.        *)
TasksEnd == \A u \in Users : pc[u] # "idle" ~> pc[u] = "idle"
=============================================================================
