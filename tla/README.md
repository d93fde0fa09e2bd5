# Rooben in TLA+

Rooben turns a specification into a task graph, lets LLM agents work through it,
verifies what they return, and shows progress in a dashboard.  These modules model
the parts whose correctness depends on the order of events: what is concurrent,
what survives a crash, what is counted, and what ends; and the pure functions
whose results those parts rely on.

## Inventory

Paths are relative to `src/rooben/`.

| Component | State | Operations | Interacts with | What is hard | What makes it correct |
|---|---|---|---|---|---|
| Domain model (`domain.py`) | statuses and edges of the task graph | readiness, completion, failure, stall | read by the orchestrator on every iteration | a query is asked while coroutines have left statuses half way | ready tasks have all dependencies passed; stall means no progress is possible |
| Orchestrator (`orchestrator.py`) | `WorkflowState` in memory, cancel flag, breaker, budget | plan, dispatch a batch, retry, verify, count, finalize, resume, cancel | planner, agents, verifier, state backend, event callback | concurrent coroutines share the state between awaits; exceptions are collected; crashes between awaits | dependency order; rows never claim what is not so; attempts are bounded; a broken budget ends the run; the run returns |
| Circuit breaker (`resilience/circuit_breaker.py`) | state, counters, time of opening | ask, record success or failure, reset | shared by the coroutines of the orchestrator | late reports after a trip, lazy transition on read | closed means healthy; half open is earned |
| Budget (`security/budget.py`) | tokens, cost, finished tasks | record, check, tell billing callbacks | orchestrator | recorded by concurrent coroutines, raised in the middle of a batch; callbacks outside the lock | a broken limit is never forgotten; bills stay within the limit |
| Rate limiter (`security/rate_limiter.py`) | sliding window per agent | acquire | orchestrator | concurrent waiters wake together | never more starts than the limit in a window |
| Providers and API retry (`planning/*provider.py`, `resilience/api_retry.py`) | shared client, permits, waiters, attempts | call, retry with backoff, rebuild the client | planner, agents, verifiers | retries sleep with a permit; waiters are cancelled | no permit is lost; every call ends |
| Checkpoints (`resilience/checkpoint.py`) | snapshots in memory | save, rollback | orchestrator, backend | a snapshot of a state that others change | the state saved is the state at hand |
| State backends (`state/`) | database rows, or one JSON file per workflow | save, load, update a task or a workflow | orchestrator, dashboard | row updates and whole-state saves overlap; a snapshot that fails half way | what is loaded after a crash is consistent; a snapshot is stored whole |
| Launcher, registry, lifecycle routes, orphan recovery (`dashboard/workflow_launcher.py`, `workflow_registry.py`, `routes/lifecycle.py`, `app.py`) | background tasks, registered orchestrators, workflow rows | launch, cancel, retry, delete, recover at start-up | orchestrator, database | request handlers check, await, then act | one runner per workflow; a settled row is nobody's work; what passed is kept; a run ends, and leaves no row that claims it goes on |
| Events (`dashboard/event_adapter.py`, `routes/events.py`) | WebSockets, subscribers' bounded queues, two locks | handle, broadcast, subscribe, leave | planner, orchestrator, browsers | slow subscribers, full queues, handlers that raise | what is delivered is in order and without gaps; a stream ends with its workflow |
| MCP client and pool (`agents/mcp_client.py`, `agents/mcp_pool.py`) | sessions, idle connections | connect, call, reconnect, check out and in, close | MCP agents of concurrent tasks | reconnect under concurrent calls, eviction that raises, close while checked out | a connection has one user; what is pooled is alive |
| MCP agent (`agents/mcp_agent.py`, `scratchpad.py`) | conversation, turns, fragments of truncated answers, files written | turn, tool calls, continuation, compaction, result | LLM provider, MCP pool | truncated and malformed answers, compaction at any turn, deferred writes | what is parsed is one answer; the task and the files are never forgotten |
| Other agents (`agents/llm_agent.py`, `http_agent.py`, `subprocess_agent.py`) | none | one call | orchestrator | every way a call can end | a result or an exception |
| Verification (`verification/`) | none | tiered and chained verdicts | orchestrator, test runner, LLM | verifiers that raise or fail after others passed | a pass is earned from every verifier |
| Planner and checker (`planning/`) | draft plan, feedback | plan, check, judge, revise | LLM provider, orchestrator | drafts that repeat, drop or invent; cycles | a plan that leaves the planner can be executed to its end |
| Refinement (`refinement/`, `routes/refine.py`) | conversation phase, gathered information, answers, failures | start, answer, continue, draft, accept, launch | browser sessions, LLM, launcher | two answers of one session at once; a model that fails half way | trouble with the provider is told; the specification can be planned for |
| Specifications (`spec/`, `refinement/spec_builder.py`, `agent_generator.py`, `oneshot.py`) | none | build, repair, validate | refinement, launcher | incomplete and repeated identifiers and rosters | what can be repaired is |
| Integrations and credentials (`agents/integrations.py`, `routes/credentials.py`) | credential rows and their cache, definitions of four origins | store, delete, refresh, resolve | agents' factories, gateway | overlapping refreshes, rows of another key; several places that decide who gets a server | the cache is what can be read; no server without what its integration requires |
| Extensions (`extensions/`, `routes/hub.py`, `routes/integrations.py`) | manifests, library entries, builder's session | install, uninstall, build, order | integrations | definitions that replace each other; drafts of a model | as integrations |
| Prompts, spec parsing, reports, queries, CLI, frontend | none of interest | | | | not modelled |

## Modules

| Module | Models |
|---|---|
| `TaskGraph` | the queries of `WorkflowState` as operators over the tasks' statuses; `_is_blocked`'s memoised recursion is the least fixed point of the same rule, so that nothing here is `RECURSIVE` |
| `BreakerState` | the methods of `CircuitBreaker` as functions of a record |
| `CircuitBreaker` | one breaker and several callers, each between its question and its report |
| `Orchestrator` | `run`, `resume`, `cancel`, the main loop and one coroutine per dispatched task over the PostgreSQL backend |
| `TaskLedger` | the abstract promise about committed rows: what a batch may do to the rows of its tasks and to no others, and over what a verdict may be written |
| `OrchestratorProperties` | the properties of `Orchestrator` and its refinement mapping to `TaskLedger` |
| `MCOrchestrator` | small graphs, agents and workstreams for TLC |
| `Lifecycle` | the background tasks of `launch_workflow` and `resume_workflow`, the requests cancel, retry and delete, the crash of the server and its start-up recovery, over the rows and the registry of one workflow, with the coroutines of each batch; uses `TaskGraph` |
| `MCLifecycle` | a fork of three tasks, a chain of two, and interchangeable requests for TLC |
| `McpPool` | the connections of MCP agents: the pool, the client's sessions, and the agents' use of both |
| `ApiCalls` | the way of a model call: the agent's window, the limiter and its retries, the shared client, the cost and its billing |
| `AgentLoop` | the turns of `MCPAgent._agentic_loop` |
| `Verification` | each verifier as the set of verdicts it may give, and the chain |
| `TaskAttempts` | the attempts of one task with its agent, verifiers and feedback; composes `AgentLoop` and `Verification` |
| `MCTaskAttempts` | two files, two attempts, answers of up to two blocks |
| `PlanChecker` | what the planner makes of a draft and what the checker finds in it; `Acyclic` and `IsCycle` say what a cycle is without a search |
| `EventStream` | events on their way through adapter and broadcaster to WebSockets and SSE streams |
| `Planning` | the planner's iterations, the orchestrator's plan phase, the transaction that stores the plan, and the events of the run; composes `PlanChecker` and `EventStream` |
| `MCPlanning` | every graph on three tasks and odd drafts |
| `SpecBuilding` | rosters, identifiers and the specification built from them, with what the models refuse and the validator finds |
| `Refinement` | one session with overlapping requests, up to the launch; uses `SpecBuilding` |
| `MCRefinement` | three interchangeable answers, rosters, identifiers and information that do not fit |
| `Integrations` | the registry, the resolver, the factories and the injection of a launch as functions of what is configured |
| `Catalogue` | the requests that change what `Integrations` reads, and the builder's session |
| `MCCatalogue` | a bundled extension, a library and two deployments |
| `Orchestrator_proofs` (with the breaker and the ledger), `Lifecycle_proofs`, `McpPool_proofs`, `ApiCalls_proofs`, `TaskAttempts_proofs` (with the agent's loop), `Planning_proofs` (with the plan checker and the events), `Refinement_proofs`, `Catalogue_proofs` | the proofs |

Operators that carry a comment "a slip" are the mutations by which each property
was seen to fail; no specification uses them.

### How the orchestrator's model corresponds to the code

A step is what happens between two awaits.  `loop` says at which await (or at
which check) `_execute_workflow`, `run` or `resume` is; `pc[t]` says the same of
the coroutine `_dispatch_task(t)`.  `status`, `attempt`, `ws`, `wf` are the
`WorkflowState` in memory, shared by all coroutines, and `dbStatus`, `dbAttempt`,
`dbWs`, `dbWf` the rows.  The order of the checks at the top of the loop
(complete, wall time, cancel, breaker, ready, stalled) is the order of the guards.

`_update_task` commits one row, then derives the workstream's status from the
memory as it is by then and, when that changed, saves the whole state.  Such a
`save_state` is a transaction with one awaited statement per row
(`postgres.py:40-58`), and each statement carries what its row was in memory when
it was sent (`postgres.py:243-277`): `SendWorkflow` sends the first, the
workflow's; `LockWorkflow` executes it and holds that row's lock, so that one
transaction follows the other and `update_workflow` waits; `StoreRow` sends the
next row; `CommitSave` makes what was sent (`snapStatus`, `snapAttempt`, `snapWs`)
the committed rows.  A snapshot may thereby put an older status over a newer
committed one.  `UpdateTask` waits for a row that the transaction has written.
What follows without an await (`Proceed`) belongs to the same step; in particular
the counters are incremented there, and the object that `update_workflow` was
called with is kept in `wfArg[t]` because other coroutines count meanwhile.

`batch` is the `ready_tasks` being gathered and `before` the attempts they had
used; `TaskLedger` reads them as the batch under way.

Abstractions:

- Executing one statement of a transaction and sending the next is one step: the
  code between them does not suspend, and nobody sees the statement's effect before
  the commit but through the lock.  An exception or a crash rolls back.
- The main loop's own saves are one step: no coroutine is alive then and the memory
  stands still.  The second save by `maybe_checkpoint` writes the same state; its
  snapshot list is never read by the orchestrator.
- An event callback is awaited after the step that caused it; its suspension is
  merged with the next await of the coroutine, its exception is `Raises`.
- The rate limiter is an arbitrary delay between `admitted` and `Start`; `ApiCalls`
  has the limiter itself.
- Recording of cost is left out: its exceptions are swallowed and the
  orchestrator never passes a cost limit.  `ApiCalls` has it with a limit.
- The plan is given: `Tasks` and `Deps`, acyclic because the plan checker refuses
  cycles (`DagAssumption`); `Planning` shows that it does.
- The file backend (`state/filesystem.py`) needs no model of its own.  Its methods
  run without suspension and replace one file by a rename; `update_task` replaces
  one task in the file last written, as the UPDATE does one row.  Its behaviours
  are those in which every statement commits at once.
- A crash loses the process; `resume()` starts with a new breaker and a new
  budget, as a new `Orchestrator` object does.  It refuses a workflow with a task of
  an agent that is not registered (`orchestrator.py:216-222`): `Strangers`.

### How the lifecycle's model corresponds to the code

`row`, `spec` and `taskRow` are the database's rows of one workflow, `registry`
the orchestrator that `WorkflowRegistry` names for it, `runners` the background
tasks (`launch_workflow._run`, or `resume_workflow._run` of a retry, named by the
request that started it), each with its place, its `WorkflowState` in memory and
its cancel flag; `req` is where each handler is.  A handler's step is one SQL
statement, because FastAPI runs handlers concurrently and each statement commits
by itself.  The recovery of `lifespan` is two such statements, before requests are
served.

The orchestrator inside a background task is that of `Orchestrator`, coarser.
`Dispatch` starts a coroutine for each ready task (`left`), which starts its task
and ends it (`StartTask`, `RejectTask`, `EndTask`), gives it back for another
attempt (`RetryTask`), raises (`TaskRaises`; `gather` drops the exception and the
task stays as it was left) or breaks a limit (`BreaksLimit`; after `gather` the
workflow is saved as failed with the task still IN_PROGRESS).  VERIFYING is part
of IN_PROGRESS, and `update_task` and the `update_workflow` after it are one step,
as are a change in memory and its statement.  The `save_state` that a changed
workstream causes writes what it writes at once, but of the other tasks of the
batch any status they have had since it began (`UpsertBeside`): what a statement
sent earlier and committed later may hold.  For a task rejected without an agent
`Had` allows IN_PROGRESS as well, which it never was; the properties hold all the
same.

Abstractions: `MaxFaults` bounds retried attempts, limits, the breaker and
exceptions together.  `load_state` reads its tables in one step.  Retry with
replan starts another workflow and is left out.  The last statement of a delete
may fail while the row exists, since a schedule's execution may refer to it
(`scripts/init.sql:136`).

`MaxOverlap` is how many requests may be in flight together.  With 1, requests
follow each other but interleave with the running orchestrator: the passing runs
show that the handlers are right so far.  With 2, they are not
(`lifecycle_twins`).

### How the pool's model corresponds to the code

`pool` is the deque of one key of `MCPConnectionPool`, `lock` and `connecting` its
two locks (`lock` names a holder only across an await), `conn[c]` what a client
knows of its server, and `pc[u]` where the task `u` is in `checkout`,
`_execute_pooled` or `_call_tool_with_retry`.  The name of a closed client is used
for the next one; nobody refers to a closed client.  A client has one server,
since the servers of one client do not affect each other; calls of one task are
sequential, as in `_execute_tool_calls`.

### How the model of calls corresponds to the code

`pc[c]` is where the task's call is: `spawned` and `admitted` in
`RateLimiter.acquire`, `queued`, `trying` and `backoff` in `APIConcurrencyLimiter`
and `retry_with_backoff`, `answered` and `billing` in `record_llm_usage`.
`stamps` is `_timestamps`, kept as the calls whose start it holds, and `age[c]`
how long ago that was, so that time is unbounded without a bound on the clock; a
tick is the second after which waiters ask again.  `queue` and `permits` are the
semaphore, `waiting` the counter beside it, which an early cancellation leaves too
high.  Exceptions are three classes, those `is_transient_error` and
`_is_connection_error` tell apart.

### How the agent's and the task's models correspond to the code

`AgentLoop` keeps of a message its role, where its text comes from and which files
it mentions.  `at` is the await or check at which `_agentic_loop` is; an answer is
truncated, no JSON, malformed, or one of `Answers`, a sequence of blocks.  A
result says whether it was parsed from a whole answer or from the pieces of a cut
one, which is returned without files and manifest (`mcp_agent.py:386-388`); what
is returned without a final result is neither.  `MaxManifest` is the 500 entries
of a manifest.  `fragments`, `nudge` and `joined` hold turn numbers for texts,
which is what makes "parsed is one answer" expressible.  How long a text is, is
any: `Measure` may compact or not, and may cut the retained messages.

`TaskAttempts` is `_execute_task` without its rows, which `Orchestrator` has:
`Start` renews the loop, the other transports are one call each, `Verify` asks one
verifier of the chain, `TakeVerdict` and `TakeError` append the feedback of the
next attempt.  A verifier is the set of verdicts it may give, with scores in
tenths; `Raised` is an exception.

### How the planning and event models correspond to the code

`at` is where the coroutine of the run is.  Each `emit` is awaited whole:
`stage[em]` says whether the emitter is in the handler (`handling`), waits for
`_lock` (`waiting`, its place in `line`) or sends to the sockets (`sending`).
After the last socket the queues are filled without another await.  Sockets take
the same lock to connect and to leave; a stream adds and removes its queue without
waiting.  The whole of `save_state` is one transaction: `inserted` is what it has
written, `rows` what others see.  Which draft the model sent is chosen when the
checker reads it, which is when it first matters.

`DetectCycle` is the code's coloured search as a recursive function over the state
of the search: `Visiting` is the nested `dfs`, `Meet` what it does with one
dependent.  The depth is bounded by the number of tasks and the walk back along
`parent` by as many steps, so that the functions are defined whatever the graph;
`CycleFound` proves that neither bound is ever met too early.  `PlanSound`
compares the search with `Acyclic`, which says it without one, and with `IsCycle`
of the path reported.

### How the refinement's model corresponds to the code

A request's `place` is what it awaits: `integrate`, `analyze` or `ask` a model,
`roster`, `store`, `seed` and `running` for a launch.  What an answer says and the
raw answers on record are left out: the lists are whatever the model returns, so
that an answer the code loses, when its integration overlaps another or is not
JSON, is not seen here.  Completeness has three levels, as far apart as the
comparisons of the code are (0.5 and 0.7).  A request that is told of trouble ends
in `failed`.  An answer that comes after the turn limit is not looked at.
`streak` counts the failures in a row and is read by `TroubleTold` only.

`SpecBuilding` models identifiers as pairs of a prefix and a number; `IdKinds` are
the prefixes, of which the code writes five itself.  `fits` is whether the rest of
what was gathered is what the builder and the constructors take: a title of at
most 200 characters (`spec/models.py:369`), no explicit null where a text or list
belongs, items that are objects, a source that needs an integration naming it
(`refinement/spec_builder.py:60-109`).  Of a template's hints it is assumed that
they fit.  The one-shot path has no state; `SpecsSound` evaluates it over all
answers in every state.

### How the model of integrations corresponds to the code

`Integrations` has no variables: what is deployed, cached, entered and installed
is one record.  `Registry` is the replacement order of the definitions,
`IsAvailable` asks whether what a definition requires is there, `Resolve`,
`Equipped` and `Injected` say what an agent gets, `Routed` which servers go
through the gateway and take their credentials from there.  `KeysComplete`
promises that no server is handed out without what its integration requires, of
the integrations built in and of those through the gateway; without the gateway an
extension's servers get variables of the environment only, which the code does not
check.  The two routes that test an integration and the readiness report change
nothing and nobody asks them before a launch; they are not modelled.

In `Catalogue` a change of a credential is three steps: the statement, the rows
read back, and the cache replaced.  A row is stored with the key of the process
that encrypted it; a process with another key skips it when it reads
(`queries/credentials.py:63-68`), which `Decrypted` says.  `company` and
`doubtful` only watch: who overlapped whom, and whether the cache may have missed
something.

## Runs

| Run | Question | Shows |
|---|---|---|
| `orchestrator_durable` | Do concurrent coroutines and their snapshots, a token limit, a cancellation, an escaped exception and a crash with a resume leave rows that anybody may rely on? | `TypeOK`, `DependencyOrder`, `BarrierDurable`, `VerdictTrue`, refinement of `TaskLedger` |
| `orchestrator_budget` | What does a broken token, task or wall-clock limit do, with a task that nobody is assigned to; does an undisturbed run count exactly and return? | `BudgetEnds`, `BarrierExact`, `Returns` |
| `breaker` | Do late reports, resets and cooldowns keep the breaker honest? | `ClosedIsHealthy`, `HalfOpenEarned` |
| `lifecycle_serial` | Two requests of any kind at any moment of a workflow's life, a fault inside or outside a batch, a crash: who runs the workflow, what do its rows say, what is lost, and does the run end? | `OneRunner`, `SettledIsIdle`, `CompletedIsDone`, `PassedKept`, `RunnersEnd` |
| `lifecycle_twins` | Two overlapping retries | `OneRunner` is violated: both ask the registry before either registers |
| `lifecycle_attended` | A workflow that nobody executes any more | `Attended` is violated: a planning that fails leaves the row at `planning` |
| `mcp_pool` | Three tasks, a pool of two, dying sessions, failed connects, evictions that raise: who uses a connection, what is pooled, does every task end? | `Exclusive`, `PooledAlive`, `TasksEnd` |
| `api_calls` | Three calls behind one window, with and without the limiter, retries, a cancellation, billing: do limits hold and calls end? | `PermitsKept`, `WindowHeld`, `BilledWithinLimit`, `CallsEnd` |
| `task_attempts` | What is a model told, what is parsed, what do verifiers see and what does the next attempt learn, whatever is truncated, compacted, invalid or deferred? | `Conversation`, `Remembered`, `Joined`, `FilesShown`, `PassEarned`, `OneFeedback` |
| `planning` | Can the plan be executed, is it stored whole, and do events arrive in order and streams end? | `PlanSound`, `StoredWhole`, `EventsInOrder`, `StreamsEnd` |
| `refinement` | Is trouble told whichever requests overlap, and can what was built be planned for? | `TroubleTold`, `SpecsSound` |
| `catalogue` | Is a credential in use the stored one, through failed refreshes, restarts and new keys, and does nobody get a server without what it requires? | `CredentialsCurrent`, `KeysComplete` |

Both violated properties are what the code claims to keep
(`routes/lifecycle.py:131`, `event_adapter.py:3`); their runs have the least that
violates them.

Bounds.  Three tasks are the least in which two run side by side and a third
depends on both; two coroutines at a time and two agents make the semaphores
matter; two attempts make the difference between a retry and the last attempt; two
failures open the breaker, so that it opens inside and between batches.  For the
lifecycle three tasks, two of them of one batch and one after them, give a
snapshot of one coroutine something of another's task to overwrite, and a passed
task next to an open one, which is what retry and recovery distinguish; of two
requests any two meet, a cancel and a delete or two retries, with one mishap and
one crash before, between or after.  The pool's run has one task more than the
pool has room for, so that it fills, and enough deaths and failures for a death
after a reconnection and for the fallback.  `MaxFaults`, `MaxResumes`,
`MaxCrashes`, `MaxDeaths`, `MaxFailures`, `MaxRaises` and `MaxCancels` cap
mishaps.

The calls' run has more calls than the window admits and than there are permits,
one of them outside the limiter, and a cost limit that the second call breaks.
The agent's run has four turns before the reminder and as many fragments as are
tolerated, so that a compaction meets fragments, reminders and earlier
compactions; three writes of which two are allowed defer one.  A summary has room
for four names; of a longer list `Remembered` promises nothing.  The planning run
has every graph on three tasks, the least with a cycle that no search from the
first task meets; most of them without agents, so that the check ends there and
the run stays small; a queue of one event fills at once.  The refinement run has
three answers, of which the third is the one at the limit, a request to continue and
a launch, so that three calls fail across requests, and identifiers that look like
generated ones.
The catalogue's run has two owners of one variable, two keys, and two overlapping
changes; its builder's session has two turns, the second at the limit.

Limits of what these runs show.  `Attended` is violated in other ways than the
shortest one: by a retry that raises after it has written `in_progress`
(`lifecycle.py:153`), by a limit that breaks in the middle of a batch and leaves a
task's row IN_PROGRESS (`orchestrator.py:548`), by a crash between the two
statements of the recovery (`app.py:80-93`), and by a crash of a workflow whose
row already says cancelled.  `RunnersEnd` excuses a loop that sleeps for such a
task (`Stuck`).  `PassedKept` and the ledger speak of rows outside a batch or
allow, within one, what a late snapshot puts back.  `CredentialsCurrent` excuses
refreshes that failed or overlapped: there the code does leave a stale cache.
`FilesShown` is about results that came whole, and `VerdictTrue` leaves out
workflows with skipped tasks, whose CANCELLED the code overwrites.  `StreamsEnd`
is about streams that are listed when the workflow completes.

Fairness.  `FairSpec` of the orchestrator assumes that the main loop and every
coroutine take a step that stays possible.  asyncio resumes every coroutine whose
await has completed; agents, verifiers and SQL statements have timeouts.  Nothing
is assumed of cancellation, of the clock, or of faults.  For the lifecycle, each
background task, each handler and the recovery takes its steps; no request need
ever arrive and no fault happen.  For the pool, a task takes its steps, the
closing of a connection returns or raises, and the agent's loop of calls, which is
bounded, ends; that `asyncio.Lock` is first-come first-served is not needed.  For
the calls, time passes and each call takes its steps, since an attempt ends by its
timeout at the latest; nothing is cancelled of necessity.  For the events,
handlers and sends end, whoever is first in the lock's line gets it, and a stream
reads its queue; no browser need come or go.

## Differences between documents and code

Met while modelling and, but for what `lifecycle_twins` and `lifecycle_attended`
show, not runs.

Orchestrator and lifecycle:

- a broken token limit does not keep the tasks of the same batch that still wait
  for a semaphore from starting (`orchestrator.py:453`), although `README.md:199`
  speaks of hard limits; the same holds of a breaker that opens during a batch
  (`docs/guides/ARCHITECTURE.md:97`);
- a half-open breaker admits the whole batch, not "one probe request"
  (`ARCHITECTURE.md:150`), and a success of a call admitted before the trip closes
  an open breaker without a cooldown (`circuit_breaker.py:60`);
- tasks that the open breaker fails are not counted, so the diagnosis at a failure
  rate of 40% (`ARCHITECTURE.md:99`) is not triggered by them;
- the cancel branch of the loop saves CANCELLED, then the finalize phase overwrites
  it with FAILED or COMPLETED and emits `workflow.completed` again
  (`orchestrator.py:127`, `orchestrator.py:359`);
- a task whose coroutine raised stays IN_PROGRESS, `is_workflow_stalled` says no
  (`domain.py:309`) and the loop sleeps for ever; one whose tokens broke the limit
  is saved IN_PROGRESS (`orchestrator.py:548`, `orchestrator.py:187`), is not reset
  by retry, and the resumed loop sleeps in the same way;
- the upserts of a `save_state` carry what the rows were when each was sent
  (`postgres.py:43`, `postgres.py:243-277`), so that the snapshot of one coroutine
  may put VERIFYING back over a committed PASSED and an older counter over a newer
  one; until the save after the batch a crash resumes from those rows;
- of a workflow that a schedule launched, a delete removes the tasks and then fails
  at the workflow (`scripts/init.sql:136`);
- the cancel request does not reach the orchestrator of a launched workflow, which
  is registered as `None` (`workflow_launcher.py:211`); when such a workflow is
  cancelled and deleted, its running orchestrator inserts it again;
- after `PlanningFailed` nobody writes the workflow's row, which stays `planning`
  (`orchestrator.py:287`), although the adapter relies on the backend for it
  (`event_adapter.py:3`).

Connections, agents and calls:

- the connection of a fallback call is neither checked in nor closed
  (`mcp_agent.py:674`, `mcp_pool.py:46`), and `connect` swallows the failure of a
  server, so that a client without sessions may be pooled (`mcp_client.py:130`);
- `invalid_json_count` is never reset, so that it does not count consecutive
  answers (`mcp_agent.py:297`); the reminder to wrap up follows a user message,
  against the alternation of `mcp_agent.py:284`, and a compaction may drop it;
- deferred writes are recorded in the scratchpad as made (`mcp_agent.py:485`);
  the limit on writes is of a block and not of a turn;
- the file manifest, "the authoritative record" of `mcp_agent.py:514`, ends at the
  first path that repeats and after 500 entries (`mcp_agent.py:825`); files are not
  added to a result that comes of too many continuations, too many turns or invalid
  answers, even to a final result found in the pieces (`mcp_agent.py:386-388`,
  against `mcp_agent.py:793`);
- JSON that is neither object nor list of objects raises out of the loop;
- a timeout of a subprocess agent or of pytest leaves the child running; skipped
  tests are listed as failed in a passing verdict; a chain of verifiers drops their
  token usage, and a repeated judgement counts only the second answer's;
- a cancelled waiter stays in `_waiting` (`api_retry.py:139`); a late connection
  error drops a newer client (`provider.py:118`); OpenAI and Bedrock use neither
  limiter nor retries, and the first caller decides the limit for all;
- `rollback` hands out the snapshot itself and resets it in place
  (`checkpoint.py:48`); it has no caller.

Planning and events:

- a plan that lists a task before its dependency is valid and cannot be saved: the
  foreign key of `task_dependencies` refuses it (`scripts/init.sql:58`,
  `postgres.py:48`);
- a draft with an identifier twice makes `total_tasks` larger than the number of
  tasks; a task dropped as a duplicate makes its dependents invalid;
- `workflow.planned` carries no `workflow_id` of its own and reaches no SSE stream
  (`orchestrator.py:299`, `events.py:50`); when its UPDATE fails the exception ends
  `run`;
- a stream whose queue overflowed, one that subscribes after the completion, and
  one whose workflow ends by an exception wait for ever; `useSSE.ts` listens for
  unnamed messages while the server names its events; a slow WebSocket holds the
  lock without a timeout and delays whoever emits.

Refinement and specifications:

- an integration that is not JSON loses the answer without a record, although the
  branch next to it says "Still record the answer even if integration fails"
  (`refinement/engine.py`); one that is malformed may be recorded twice; the answer
  at the turn limit is never looked at;
- answers sent together replace each other's lists; the count of consecutive
  failures is reset by a gap analysis, and by questions only when
  they are not the list asked for (`refinement/engine.py:292`), so that it is not one
  of consecutive calls; an unavailable model during continue is answered by 500;
- a session that is never launched is never removed, one launched twice starts two
  workflows, and a launch that fails after its placeholder row leaves it
  `planning`;
- deliverables of which one is named like a generated identifier make every launch
  fail; so does a title of more than 200 characters, an explicit null or a list
  item that is no object (`spec/models.py:369`, `refinement/spec_builder.py:60-109`);
  a template's hints keep agents that the roster lacks; an HTTP agent without an
  endpoint fits the model.

Integrations and extensions:

- without the gateway an extension's servers get variables of the environment only
  (`extensions/loader.py:158`), although `resolve_credential` calls itself the single
  entry point (`agents/integrations.py:38`);
- a credential stored empty is present for the routes and absent for the resolver;
  overlapping refreshes may leave a stale cache until the next lone one; of one
  variable stored for two owners the last row wins; a row that cannot be decrypted
  is skipped without a word to the user (`queries/credentials.py:67`);
- an agent that declares servers and is not of transport `mcp` starts none; one
  that gets servers of an integration becomes an MCP agent whatever it was;
  integrations named in a launch are injected without asking whether they are
  available (`workflow_launcher.py:91`), and replace the capabilities that are
  "always granted";
- an extension or an entry named like a provider replaces it; an unknown transport
  raises out of `build_orchestrator`; the builder writes over an installed extension
  and answers "installed" of a manifest that does not load; its forced review is
  overwritten by the next lines (`builder_engine.py:185`); two library installs of
  one name through the gateway both append (`routes/integrations.py:408`);
- of the two routes that test an integration one asks for a server
  (`routes/integrations.py:290`) and the other passes without any
  (`routes/credentials.py:102-153`);
- readiness looks dependencies up among extensions only, and a missing one of a
  template's agent passes (`loader.py:297`).

## Proofs

| Theorem | Statement |
|---|---|
| `TypeCorrect` | `Spec => []TypeOK` of the orchestrator |
| `DependencyOrderHolds`, `BarrierDurableHolds`, `BudgetEndsHolds`, `VerdictTrueHolds` | the invariants so named |
| `BarrierExactHolds` | the invariant so named, if `Tasks` is finite |
| `ImplementsLedger` | `Spec => LedgerSpec` |
| `ClosedIsHealthyHolds`, `HalfOpenEarnedHolds` | `BreakerSpec => []ClosedIsHealthy`, `BreakerSpec => HalfOpenEarned` |
| `OneRunnerHolds`, `SettledIsIdleHolds`, `CompletedIsDoneHolds`, `PassedKeptHolds` | of the lifecycle, for requests that do not overlap |
| `ExclusiveHolds`, `PooledAliveHolds` | of the pool, for every number of tasks and connections |
| `PermitsKeptHolds`, `WindowHeldHolds`, `BilledWithinLimitHolds` | of the calls, if `Calls` is finite |
| `ConversationHolds`, `RememberedHolds`, `JoinedHolds`, `FilesShownHolds` | of the agent's loop within a task's attempts |
| `PassEarnedHolds`, `OneFeedbackHolds` | of the attempts |
| `EventsInOrderHolds`, `StoredWholeHolds`, `PlanSoundHolds` | of planning and its events |
| `CycleFound` | for every list of tasks, `DetectCycle` reports a cycle if there is one and nothing otherwise |
| `TroubleToldHolds`, `SpecsSoundHolds` | of the refinement |
| `CredentialsCurrentHolds` | of the catalogue |

Every invariant and every action property that a passing run checks is thereby
proved, but for `KeysComplete`, for every value of the constants that satisfies
the assumptions named in the modules: `DepsAssumption`, `OrchestratorAssumption`,
`RowAssumption`, `BreakerAssumption`, `CallersAssumption`, `LifecycleAssumption`,
`PoolAssumption`, `ApiAssumption`, `LoopAssumption`, `AttemptsAssumption`,
`PlanningAssumption`, `StreamAssumption`, `RefinementAssumption`,
`IdKindsAssumption` and `CatalogueAssumption`.  `DagAssumption` is not needed, and
no bound is but `MaxOverlap`: "requests that do not overlap" is `MaxOverlap` 0 or
1 with finitely many requests.  `lifecycle_twins` shows what overlapping does.

`DependencyOrder` is not inductive.  `IInv` adds: coroutines exist only for tasks
of the batch (`CoroutineInv`); between batches rows equal memory
(`RowsAreMemory`); nothing is sent but while a coroutine stores (`SnapInv`); and a
batch leaves the other tasks alone, in memory, in the rows and in what is sent,
among them what its tasks depend on, which has passed (`RoundInv`).  The last is
why no late snapshot disturbs the order: whatever it puts back is of the batch.
For `BudgetEnds` the batch must remember the broken limit (`overBudget`, in
`BudgetInv`).

For the ledger, `LInv` says that a task of the batch is, in memory, in the rows
and in what is sent, something it has been since the batch began (`BeenInv`), that
after the batch the memory equals the rows or has ended all open tasks
(`EndsInv`), and what the workflow's status can be at each place (`WorkflowInv`)
and how many attempts are used (`AttemptsInv`).  The theorem then takes one commit
at a time: each is a step of the ledger.

`VerdictInv` adds what the loop knows where it decides: the budget is intact
unless the loop is past the batch, and a batch that ends for the budget has broken
it or left a task open.  `ExactInv` says of a run without faults what each
coroutine still owes at each place, a count (`CountsExact`) or a workstream's
status (`StreamsExact`), so that after the batch nothing is owed, and that only
tasks with an agent are counted (`AgentsOnly`).

The breaker's `HealthInv` is its type with `ClosedIsHealthy`, which is inductive:
the callers' late reports go through the same two methods as all others.

`OneRunner` needs to know what a retry asked before its awaits: in
`Lifecycle_proofs`, `OneBusy` says that at most one request is in flight, and
`StillFree` that while a retry is between its check of the registry and its
registration the registry names nobody, so that no background task lives.  This is
where overlapping retries break it: `StillFree` of one is disturbed by the other.

On top of it `Known` says which coroutines there are (`LeftInv`) and that nothing
runs before the server is up (`Quiet`).  `PassedInv`: what a background task will
write knows every pass of the rows (`Respects`), though a late snapshot may take a
task of its batch back in the rows, and before it has a plan the rows have none.
`SettledInv` adds to `SettledIsIdle` that a retry about to resume finds a row that
is not final.  `DoneInv` says that no orchestrator ever holds a CANCELLED task,
which only the recovery writes and the retry resets before it resumes
(`NoCancelledRow`): an orchestrator that completes the workflow has seen to every
task.

For the pool, `InHand` says at each place of a task what it holds, so that what it
checks in or closes is its own, and `HeldOpen` that what is held is open: a new
client is closed until then and hence nobody's.

For the calls, `PermitsKept` is inductive once the queue has no call twice.
`WindowHeld` needs that the starts within the window are all in the list: pruning
forgets only what has left the window.  `BilledWithinLimit` is about a sum over
calls.  `BInv` states it of some function from sets of calls to numbers that adds
up, one call at a time; the sum is such a function, and a step needs only the one
equation for the call it bills.

For the agent's loop, `TalkInv` describes the conversation at each place: its
first message holds the task, roles alternate, the last is the user's when the
provider is asked, and the files written are mentioned in what is kept
(`Recalled`), which the compaction's summary restores.  `TurnInv` says that the
stashed or collected fragments are the turns just before the current one, and
never both.  `ShownInv`: a final result is kept with the manifest it was made
with until the next attempt begins.  `PassInv` says that only a result without
error reaches a verifier, and that of a passed task every verifier has answered
and passed; `FeedInv` that the entries are numbered by the attempts that ended.

For planning, `OrderInv` ties what each emitter has begun to what was broadcast,
`LineInv` says that at most one emitter sends and that it is the head of the
lock's line, and `StreamInv` and `SocketInv` say where in the broadcast each
queue, stream and socket has got to, counting what is on the way.  `StoreInv` says
at each place how much of the plan is inserted and that before the transaction has
committed no event tells of it.  `PlanInv`: the planner holds no plan, or one
that passed the checker.

That what passes is sound rests on `CycleFound`.  Its invariant of the search:
the tasks being visited are a stack in which each waits for the one before
(`Stacked`); a finished task has only finished dependents, and every set of
finished tasks has one that waits for none of the set (`Kept`), which is what
`Acyclic` says of all of them in the end; a visit leaves what it finds visited or
finished (`Same`).  `VisitingWorks` shows it of a visit from that of deeper
visits; meeting a task of the stack gives the path, and `PathIsCycle` that the
path is a cycle.

For the refinement, `FailInv` says that the engine counts no fewer failures than
have happened in a row, so that the third of those is its third; `SessionInv` that
no request of the session moves before it has started, and `SpecInv` that what
waits to be stored was built for the hints the session still has.  That the
identifiers of deliverables and of agents differ is about how they are named and
chosen (`DeliverablesDiffer`, `FittingDistinct`).

For the catalogue, requests in flight together have met (`Met`), and what a
request read that met nobody is still what is stored (`Fresh`).  What a process
can read of the rows depends on its key, so that a restart reads them again.

Where a definition is a recursive function over a sequence, the induction is done
without the library's theorems, whose operator parameters the provers cannot
instantiate: a fact that holds at 0 and is handed from each number to the next
holds of all, since otherwise there were a least counterexample (`LeastExists`,
`Counting`), and a function defined by recursion exists (`RecursionExists`).

Model-checked only is liveness under fairness, `Returns`, `RunnersEnd`,
`TasksEnd`, `CallsEnd` and `StreamsEnd`, which TLAPS does not reach, and
`KeysComplete`, whose resolver is a function over the agent's list of
integrations.

## Not modelled

- Prompts, context and the codebase index, reports, diagnostics and prices: they
  compute texts and figures of finished states.
- The learning store, which stores nothing; workspaces, which copy files.
- The dashboard's other routes and queries: one statement or file access each.
- `checkpoint.rollback`, which has no caller.
- Of the MCP client: clients with several servers, discovery of tools,
  cancellation of an agent in the middle of a call.  The servers of a client do not
  affect each other, and discovery reads only.
- Retry with replan, which starts a workflow of its own.
- The two test routes of integrations and the readiness report, which nobody asks
  before a launch.
- The command line, the demonstration and the frontend: presentation around
  components that are modelled.
