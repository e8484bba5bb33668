# A verification project for decitima-api

decitima-api takes optimisation problems (routes, shifts, projects, networks, travel,
logistics), in JSON or in natural language, solves them with a choice of algorithms and
returns verified solutions. This directory holds TLA+ models of its backend
(`src/backend/app`), the TLC configurations that check them on small instances, and proofs
that TLAPS checks. `PROJECT.json` is the index: components, runs, the source lines every
definition stands for, hazards, findings and theorems.

Paths below are relative to `src/backend/app` unless they start with `src/`.

## 1. The system

| Component | State it keeps | Operations |
|---|---|---|
| Job submission (`services/job.py`, `api/routes/jobs.py`) | a row of `jobs`: `status`, `payload` | `enqueue`, `enqueue_simulation` (both `_submit`), `get_status`, `get_for_user` |
| arq worker (`worker.py`) | none of its own; writes the row | `_run_job` around `solve_job` or `simulate_job` |
| arq and Redis (library) | queue, in-progress keys, retry counters | deliver, retry, give up, time out, cancel |
| SolveService (`services/solve.py`) | rows of `problems` and `solutions` | validate, select, compute, verify, persist and commit |
| Rate limiting (`services/rate_limit.py`, `auth_rate_limit.py`) | one Redis counter per resource, window and identifier | `enforce`, alone or chained |
| Isolated computation (`services/isolation.py`) | semaphore per event loop, child processes, threads | `run_isolated` in thread or process mode |
| Authentication (`services/auth.py`, `core/security.py`, `api/deps.py`) | a Redis key per refresh token, JWTs held by clients | authenticate, issue, refresh, revoke, current user |
| Users (`services/user.py`) | rows of `users`, unique email | register, read |
| Structuring (`services/structuring.py`, `ai/graph`) | conversations, messages, problems | up to 3 attempts of a graph with three LLM calls (two for network_design), then one commit |
| Explanation (`services/explanation.py`) | a Redis cache entry per solution | read owner-scoped, look up, call the LLM, store |
| Comparison, benchmark (`services/comparison.py`, `benchmark.py`, `measurement.py`) | `tracemalloc`, one per process | run several strategies and measure them |
| Simulation (`services/simulation.py`, `threshold_search.py`) | none | solve scenarios, bisect for a threshold |
| Validation, verification (`services/validation.py`, `verification.py`, `domain/`) | none | reject bad problems, recompute a solution's claims |
| Algorithms (`algorithms/`) | none | pure strategies for six problem types |
| Recommendation (`services/algorithm_recommendation.py`) | none | rank the strategies, by an LLM or by rule |
| Reads, configuration, middleware, migrations, analysis | none that is shared | see section 5 |

How they interact. An HTTP request is one asyncio task. It counts itself in Redis, reads
and writes Postgres in one session, and either computes (through `run_isolated`) or hands
the job to arq. The worker is another process. It shares with the API only the `jobs`
table and arq's keys, so the order of their commits and messages is all the
synchronisation there is. Workers call SolveService, which commits in the session the
worker has opened, before the worker commits the outcome. `run_isolated` is called by
solves; its threads are those of the loop's default pool, which every `to_thread` of the
process shares.

What is hard in it:

- a request and a worker write one row with no lock or version between them;
- the hand-over to arq can take effect and still raise;
- a worker can die between any two commits, and arq then runs the job again;
- arq ends a coroutine by cancelling it, which `except Exception` does not see;
- several counters are incremented one after another, each atomically, the chain not;
- a cancelled task leaves its thread running, and a child process with it;
- places of a semaphore and threads of a pool have to come back on every way out;
- caches, tokens and switches (explanations, refresh tokens, `tracemalloc`) are read and
  used later;
- the algorithms rely on preconditions that are established elsewhere, if at all
  (non-negative weights, admissible heuristics, connected required links, feasible
  demands).

What makes each component correct:

- **jobs**: arq never holds a job without a row; a settled row carries what its status
  announces; a row never changes after arq dropped the job; every job whose row exists
  settles when retries outnumber faults; the solve is persisted once for each delivery;
- **rate limiting**: every counter expires, on time; an interval of one window lets through
  fewer than two limits;
- **isolation**: no child or solver outlives its call; no more children than places; calls
  end and threads come back;
- **accounts**: an email has one user; no token is issued after a revocation, except by a
  refresh that had already read the key; a blocked user is refused everywhere, except by
  requests that had already read the row; a session ends however often it is refreshed;
- **simulation, comparison, benchmark**: a scenario's result differs from the base's only by what
  the scenario changes; a threshold is a boundary, and the least one for a monotone metric; a
  ratio never ranks a wrong answer first; nothing verified beats an exact strategy, except for
  routes against an edge and plans that begin elsewhere, which verification lets pass; a peak of
  memory holds the whole of its computation, and of others only what was beside it in its process;
- **recommendation**: a ranking is a permutation of what can be chosen, whatever the model says;
- **structuring, explanation**: what is made of a text refers only to what exists and can be
  solved; a conversation has its reply or leaves nothing; the limiter
  bounds the LLM's calls; explanations and conversations reach only their owner; a request
  ends although others hold connections while they wait for the LLM;
- **algorithms**: a route is no longer, a tree no heavier and a roster no worse than any other
  there is; a schedule keeps its dependencies and its capacity and starts no task later than it
  must; "infeasible" means that there is none, under the preconditions validation really
  establishes;
- **validation, selection**: no strategy is given a problem on which it loops or fails;
- **verification**: it confirms exactly the solutions that are what their type says and keep the
  hard constraints (three kinds apart that it takes for right, see section 3), and its penalty is
  that of the soft ones they break.

## 2. The modules

| Module | Models | Kind |
|---|---|---|
| `JobContract` | what a polling client may observe of a job | abstract specification |
| `JobLifecycle` | `_submit`, `_run_job`, arq, the `jobs` row | detailed specification; refines `JobContract` |
| `JobLifecycleProofs` | | theorems |
| `RateLimiter` | `RateLimiter.enforce`, chained, and Redis' keys | specification |
| `RateLimiterProofs` | | theorems |
| `Isolation` | `run_isolated`, `_run_in_process`, `_child_main`, `_kill`, the pool | specification |
| `Accounts` | `UserService.create_user`, `AuthService`, `get_current_user` | specification |
| `AccountsProofs` | | theorems |
| `LlmRequests` | `ProblemStructuringService.structure`, `SolutionExplanationService.explain` and what they share | specification |
| `LlmRequestsProofs` | | theorems |
| `Candidates` | constraints, candidate solutions, `domain/constraints` | data shared by the problem types |
| `Schemas` | what the schemas of `domain/problems` and `domain/solutions` let through | operators |
| `Routes` | `algorithms/graph`: Dijkstra, A*, Bellman-Ford, waypoints; validation and verification of routes | operators |
| `Networks` | `algorithms/graph`: Kruskal, Prim, union-find, connectivity; validation and verification of networks | operators |
| `Projects` | `algorithms/scheduling`: topological order, critical path, priority list; validation and verification of schedules | operators |
| `Shifts` | `algorithms/scheduling`: greedy, backtracking, branch and bound; validation and verification of rosters | operators |
| `Packing` | `algorithms/optimization`, `graph/floyd_warshall.py`: all distances, closed tours, the knapsack over two capacities | operators |
| `Travel` | `algorithms/optimization`: knapsack, greedy, enumeration of plans; validation and verification of plans | operators |
| `Logistics` | `algorithms/optimization`: greedy, knapsack, branch and bound, enumeration, CBC; validation and verification of deliveries | operators |
| `Optima` | nothing: what a solution is, and which are best, without an algorithm | reference definitions |
| `Solving` | registry, selection, validation, a strategy's answers, verification, for all six types | operators shared by the handlers |
| `SolveService` | `SolveService.solve`, `VerifyService.verify` | specification |
| `VerificationProofs` | | theorems about sums, orders, folds and distances, and about the verification of all six types |
| `StrategyProofs` | | theorems about the strategies of all six types, and the verdict on their answers |
| `Documents` | `model_dump`, `model_validate` and the six base problems | operators |
| `Overrides` | `apply_overrides`, `_deep_merge`, `_set_path`; what RFC 7386 says | operators and reference definition |
| `Handlers` | what the handlers below share: a request, a step, a log, a reply | state of `Orchestration` |
| `ThresholdSearch` | `find_threshold`, an evaluation a step | specification |
| `Simulation` | `run_simulation`: base, scenarios, sensitivity | specification |
| `Trials` | `BenchmarkService.run`, `ComparisonService.compare` | specification |
| `Structuring` | the graph of `ai/graph`, merging and grounding | specification |
| `Recommendation` | `AlgorithmRecommendationService` | specification |
| `Measurement` | `measure_call` and `tracemalloc` | specification |
| `Orchestration` | the composition of `ThresholdSearch`, `Simulation`, `Trials`, `Structuring`, `Recommendation` and `Measurement` | specification |
| `OrchestrationProofs` | | theorems about `Orchestration` and the modules it composes |
| `IsolationProofs` | | theorems about `Isolation` |
| `MCJobLifecycle`, `MCRateLimiter`, `MCIsolation`, `MCAccounts`, `MCLlmRequests`, `MCSolveService`, `MCOrchestration` | | instances for TLC |

Definitions whose comment begins with "Mutant:" are not part of any specification: each
is a plausible mistake in the definition that follows it, and the run of the property
fails when it takes that definition's place. They show what each property is sensitive to.

### JobLifecycle

`status`, `payload` and `solutions` are the row (only the parts of `payload` that have a
meaning to a client: a result, and whose error) and the Solution rows committed for it.
`req` says where the submitting handler is, `att` where the coroutine that runs the job
is, `seen` and `base` what that coroutine loaded. `queue`, `leased` and `tries` are arq's
sorted set, in-progress keys and retry counters.

A step is what no other process can split: one commit, one read, one message. `_submit`
is `Refuse` (limit or validation, before the row), `CreateRow`, then `Enqueue` or one of
its failures (`EnqueueFails`: Redis does not have the job; `EnqueueReplyLost`: it has it),
then `RecordEnqueueFailure`. `ApiDies` is a handler that never compensates. `_run_job` is
`Load`, `MarkRunning`, `RunnerReturns` or `RunnerRaises`, `WriteSucceeded` or
`WriteFailed`; `CommitFails` is a database error outside its `try`. SQLAlchemy emits no
UPDATE when an attribute keeps its loaded value, so `MarkRunning` leaves alone a row that
was loaded as `running`; `seen` is there for that. The compensation of `_submit` writes
from the session's identity map, where the row is as it was created.

arq, from how `worker.py` and `WorkerSettings` use it: a job is delivered when it is queued,
unleased and a slot is free; it leaves the queue only when its coroutine has ended, or after
`max_tries`; a job that exceeds `job_timeout` is cancelled and not retried; a SIGTERM
cancels the coroutines, also one that is in its last commit, and leaves their jobs queued; a dead worker's lease expires.
Assumed of it: that the expiry (310 s) comes after the API's compensation. Left out: the
day after which arq's own job key expires, and comparing JSON payloads for equality before
an UPDATE. `tries` is kept after `Finish` for the properties; arq deletes its counter.

Each kind of fault is a constant, and `MaxFaults` bounds their number in a behaviour.

`JobContract` is the abstract specification: submitted, perhaps aborted, started, settled,
and nothing else, except for jobs that are *disturbed* (delivered again, or enqueued
although the client was told otherwise), whose status may be rewritten but which never
return to `queued` and never vanish. `JobLifecycle!Contract` states that the job path
implements it, with `view <- status` and `disturbed <- Disturbed`.

### RateLimiter

A bucket is a Redis key and a route the sequence of buckets a request passes: hour then day
of one limiter, or IP then account of a login. `Pass`, `Reject` and `RedisError` are one
MULTI/EXEC each, with what `enforce` does with the answer. `Tick` is a unit of time and
the expiry of keys. `count` stops at the first value over the limit, which is all the code
compares. `granted`, `watched`, `left` and `passes` are history: an observer that watches
one bucket, from any moment, for as long as its window, and counts what it lets through.
Redis is assumed to keep a key for its life (no eviction, no loss of data).

### Isolation

A call is one asyncio task, and its phases are the places where it awaits: the semaphore, or
a function in the pool. `queued` and `running` are the pool. Cancelling a task removes a
function that is still queued and does nothing to one that is running; that is the whole
difficulty, because `proc.start` and `poll` then go on without their task. `Finally` and
`CancelInside` are the `finally` clause, entered by a result or by a cancellation.
`child`, `solver` and `outcome` are the child process, the `cbc` it may have started, and the
pipe. Time is left out: `poll` and `wait_for` may give up at any moment. Left out as well: a
worker that dies and leaves its children, the reuse of a closed descriptor by a thread that is
still reading it, and the five seconds after which the final join gives up on a killed child.

### Accounts

A client has one request at a time, and `phase` says at which await it is; a step is what
runs between two of them. Registration is `Register` (the check), `Insert` or
`InsertViolatesUnique` (the flush, which waits in Postgres while another transaction holds
the same key in the index; the phase after a violation is "duplicate"), `CommitUser` or `RollBack`.
`RegistrationFails` is a failure or a disconnect between the check and the flush. A login is `Authenticate` (the user
is read), `MakeTokens` (both JWTs are made and the task awaits Redis), `LoginAnswered` or
`LoginFails`. A refresh is `Refresh` (the JWT is decoded), `CheckKey`, `CheckUser`, `Issue`;
a logout `Logout` and `DeleteKey`; any other request of the API `Present`, `CheckUser` and
`Answer`. So what was read in one step may be false in the next, which is what the
properties are about.

`rows` counts the users of an email instead of assuming that there is one. Lives are
remaining ticks: `refresh` and `access` of a JWT, `key` of `refresh_token:{jti}`. Of several
access tokens of a session only the youngest is kept, since the older ones expire before it.
No endpoint blocks a user: `Block` is an operator's change of `is_active`. Passwords, the
signature of a JWT and a client that forges or shares tokens are left out.

### LlmRequests

The two endpoints are in one module because they share what is scarce: the connections of
the pool and the LLM. `Connect` is the first query of `get_current_user`; SQLAlchemy keeps its
connection, in a transaction, until the session commits or is closed, so a request holds one
through its LLM calls (`conns`). `flushed` are the rows of the open transaction, `committed`
those of the committed one. A conversation is named by the request that created it, so
`about` is a request (structure) or a solution (explain); a client only knows the
conversations that were recorded.

A run of the LangGraph workflow is one call, because nothing of it is visible outside (its nodes
are in `Structuring`): it returns, refuses (validation, grounding, the provider's quota: no retry) or fails (retried up
to `MaxAttempts` times). `FallBack` answers an explanation whose call failed and keeps
nothing. `Commit` and `StoreExplanation` take effect and may still be answered by an error.
One counter of a user and an endpoint stands for the limiter's windows, which `RateLimiter`
has in full, and which here never end: the bound of `SpendIsBounded` is that of one window.

### SolveService and the algorithms

The path of one problem from its request to its verdict: `Validate`, `Select` (the strategy
asked for, or the preferred one), `Compute`, `Verify`. Nothing else touches the problem, so what
can go wrong is in the data, and the initial states range over families of problems: shapes
that are combined with weights, constraints, capacities and limits. `VerifyService` begins at
`Compute`'s end, with a problem that was not validated and an answer that a client made up.

Each problem type has a module of operators that follow the code: the heap of Dijkstra's
algorithm and A* as the least open node, the rounds of Bellman-Ford, the parents and ranks of
union-find, the forward and backward pass of the critical path, the tables of Floyd-Warshall and
of the knapsack, the order in which a search takes its branches and what it prunes. Ids are numbers in the order of the source's ids, so
every tie is broken as in the code. Where the code leaves a choice (the iteration order of a
set) or a library makes it, the operator is the set of possible answers: NetworkX and OR-Tools
may return any best answer of the problem they were given, and that problem is encoded as the
code encodes it. A bound on a figure has any of the five operators (`Holds`). Floats are
integers: shares and variances are counted in units of their common denominator (a variance is
rounded down to one when a client's roster names staff that do not exist, who count in it). The
schema's durations of tasks are whole, but the times of a schedule that a client offers are floats:
they are given in parts of a unit, `Whole` of which make one, and the resource profile cuts the
fractions off as `int()` does (`Trunc`). `_ops`, the counts of operations, are left out. `_MAX_EXACT`, the two `_MAX_NODES` and `_MAX_KNAPSACK_DP_CELLS` are the constants
`MaxExact`, `MaxNodes`, `MaxSearch` and `MaxCells`; the amounts of travel and logistics are in parts
of `Whole` too, so that rounding to whole numbers, as the knapsacks do, is seen.

A request may end with an exception: of the strategy, which then has no answer (`Compute`), or of
the verification (`Raise`). `VerdictIsRight` says when: a travel plan's place that does not exist is looked
up in the distances. It may come from a required-inclusion constraint, whose items no validation
compares with the places, or from a client's plan.

`Schemas` says what a problem or an offered answer is before anything was checked, field by field, as far
as the verification rests on it: the kinds and signs of values, and the references that a validator of the
schema looks up (in projects, plans and deliveries, not in routes, networks and shifts).
`ProblemsAssumption` and `OffersAssumption` of `SolveService` say that the requests considered are such
problems and answers, so TLC evaluates them on the families of the run and the theorems hold for all
others. Ids are unique, which routes, networks and plans do not ask for, and numbers are finite.

`Optima` says what an answer should be, from sets: walks without repeated nodes, links that
leave every part of the nodes, chains of tasks, all rosters, sets of places, partitions of deliveries. The properties compare the two.

### Documents and overrides

Scenarios, sensitivity searches and the structuring workflow change a problem in the same way: it
is dumped to JSON, a merge patch is merged into the JSON, and the result is validated again.
`Documents` has both directions for all six types. A document is null, an object, or a value with
a *kind* (number, text, id, list, ...): kinds, references and signs are what an override can get
wrong and pydantic refuses. `ModelValidate` gives `Invalid` or the problem that `Solving` works
on, defaults filled in; `ApplyOverrides` merges and validates, and refuses a patch of the problem's type. `BaseProblem` has the shape of each base problem: which lists it has, what
its ids refer to, which fields are optional, with fewer elements than the code's.

`Overrides!DeepMerge` is the code's recursion, as deep as the objects of a problem go (`ThreeDeep`: a
problem has its data, these the preferences, and these have numbers; `metadata`, which nothing
reads, is left out). `Expected` says without recursion over two documents what RFC 7386 leaves at a
path, and `IsMergePatch` compares. They differ on one kind of path (`KeepsNull`): through an object
that replaces what is no object, to a null in it, which stays in the code.

### Handlers that solve more than once

A handler goes from step to step (`at`), gathers what its calls gave (`log`), and replies once.
Handlers share nothing that they change, except for the tracing of measurements, so `Orchestration`
takes one request at a time from a set of all kinds, and several measurements at once.

- `Simulation`: `SolveBase`, `SolveScenario` for each scenario, then the bisection. The bisection
  runs in a thread that its caller gives up on after the time of `Budget` evaluations of full length.
  An evaluation takes any time, and the wait for a free thread of the pool counts too, so
  `SearchTimesOut` may come at any of them (the search was then `late`), and the thread goes on.
  The algorithm is fixed by the base's result. `NoteScenario` has the exceptions that are caught;
  the others end the request.
- `Trials`: the benchmark runs every strategy, or those asked for, through measurement and
  verification, and rates them by the first objective; the comparison runs a strategy and then a
  language model, of which any assignment in the request, or an error, may be the answer.
- `Structuring`: the five nodes of the graph. What the model says is any member of `Sayings`:
  right, unknown to the problem, of the wrong list, null, or nothing. It is asked for by a schema
  (`schemas/structuring.py`), so it patches only fields of the type's data, none of which are lists
  (`SayingsAssumption`).
- What a request holds has been through its schema (`ReceivedAssumption`): a problem is of one of the
  six types and was validated, scenarios are a list, the bounds of a search are integers.
- `Recommendation`: the model's ranking is any sequence of names, with repetitions and unknown ones.
- `Measurement`: a call takes memory early and late and reads the peak in between the start and
  the stop of a tracing which is one per process. In the thread mode that process is the API's, and
  `WorkBeside` is everything else that runs in it, unmeasured: the event loop, ordinary solves. `met`
  and `beside` are history: whom a call may have met, and whether there was such work meanwhile.

## 3. The runs

| Run | Question | Bounds and why they are enough | Result |
|---|---|---|---|
| `job_safety` | what holds of a row whatever fails, and does every job settle | 2 jobs that share 1 slot, 3 tries, 3 faults of all 7 kinds: a lost reply, a crash and a redelivery fit in one behaviour, and one job can disturb the other only through slots and the worker's death. Faults may use up the retries; `JobsSettle` and `PendingIsOwned` are about the behaviours in which they do not | holds |
| `job_response` | `schemas/job.py:44`, `:47`: a result only when succeeded, an error only when failed | 1 job, 1 fault, a crash of the worker | violated, see findings |
| `job_timeout` | `src/backend/tests/unit/test_worker.py:178`: no job stays stuck in running | 1 fault | violated, see findings |
| `rate_limit` | do counters expire, and what passes a boundary | 2 clients, limits 1 and 2, windows 2 and 3, 2 arrivals a tick: enough for two adjacent windows of the shared bucket in one observation, and the bound is reached (3 passes of a limit of 2) | holds |
| `isolation` | do children, places and threads come back | 2 calls, 1 place, 2 threads: calls wait for each other both at the semaphore and in the pool | holds |
| `isolation_orphan` | `services/isolation.py:123`: a remaining child is stopped on every way out | the same, process mode | violated, see findings |
| `accounts` | who gets in, and for how long | 2 clients, 1 email, 2 logins, lives of 1 and 2 ticks: two registrations race, a refresh meets a logout of its own session, a block and a tick between any two of its awaits, and an access token can outlive its refresh token | holds |
| `accounts_race` | `api/routes/auth.py:17`: a duplicate email is an `AppError` | the same | violated, see findings |
| `llm_requests` | what is kept, spent and shown, and does every request end | 3 requests of 2 users (one a superuser), 1 solution, 2 connections, a limit of 1, 2 attempts: a conversation is continued by its owner or tried by the other user, two explanations miss the cache together, a third request waits for a connection or is over the limit | holds |
| `solve` | are answers best, and is the verdict on them right | 4 families of routes (2 to 6 nodes), 2 of networks (to 4 nodes, 6 links), projects of 4 tasks, rosters of 3 members and 4 slots, trips to 4 places, up to 4 deliveries for 3 vehicles, with every strategy; offers of every type that are right, wrong in one way or in several; bounds with all five operators, schedules with times in halves of a unit. `MaxExact` is 3, so that four waypoints go through the approximation and plans of four places are ordered exactly; `MaxNodes` is 20 and `MaxSearch` 12, so that searches end in all three ways: complete, with something that is not the best, and with nothing; `MaxCells` is 200, so that both travel strategies are preferred somewhere; amounts are in halves (`Whole` is 2) | holds |
| `solve_prim` | `algorithms/graph/mst.py:63`: no links means not connected | the same | violated, see findings |
| `orchestration` | are the results of handlers that solve several times what they claim to be | every pair of nine patches of a plant and of three of a holiday, with right, default and wrong algorithms; ranges of 1 to 9 values with both modes and four targets, so that the number of values is a power of two and is not, the threshold lies inside, at either end or nowhere, evaluations fail, and the metric moves against the mode; all strategies on problems of six types, with no objective and with some that their exact strategies do not aim at; routes (also against an edge), trees and plans (also from elsewhere) that a model claims, rightly and wrongly, every way to mention or miss an id, rankings of up to 5 names, 2 measurements of 2 runs in each mode, with unmeasured work between any two of their steps | holds |

Deadlock is not checked where a system comes to rest once its jobs, calls or requests are
done (`JobLifecycle`, `Isolation`, `LlmRequests`) or a problem has its verdict or a request its reply (`SolveService`, `Orchestration`); it is checked for `RateLimiter` and
`Accounts`.

### Fairness

- `JobLifecycle!JobFairness`: a handler that created a row continues; arq polls its queue and
  lets leases expire; a coroutine continues when the database answers; a runner ends because
  `run_isolated` and `wait_for` bound every computation. Weak fairness of each is enough: none
  of these steps is disabled by others except for the slot, and with one slot the job that
  holds it ends. Arrivals and faults are not fair.
- `RateLimiter`: only time passes.
- `Isolation!CallFairness`: the loop resumes its tasks, the pool runs what is queued when a
  thread is free, `proc.start`, `poll` with a timeout, `recv` and the joins return. The
  computation, the child, the solver and the caller owe nothing. `Acquire` has a fairness of
  its own because `asyncio.Semaphore` is first come, first served.

- `Accounts!AccountsFairness`: Postgres and Redis answer a request that has begun, and time
  passes. `Insert` or its violation has strong fairness, because it is disabled again and
  again while other registrations hold the key, and Postgres wakes the one that waits whenever
  one of them ends. Nobody has to send a request, and a login's own steps owe nothing.
- `LlmRequests!FairSpec`: a request that has arrived goes on: the pool's wait (30 s), the sleep
  between attempts, a statement, and a call of the LLM end, with a result or an exception.
  Which of them is left open, so `RequestsEnd` does not assume that a connection comes back.

### Findings

1. `job_response`. The worker commits `succeeded` and dies before arq removes the job. When its
   lease has expired, the job is delivered again; `_run_job` loads the row with its result, sets
   `running` and keeps the payload, so the response carries a result while the job runs. The run
   allows this one crash and nothing else. It ends there; that the result would also stay if the
   second outcome were a failure follows from `base_payload` (`worker.py:82`). The other jobs that
   `UndisturbedResponse` leaves out are those enqueued although the client was told otherwise
   (`EnqueuedInDoubt`): the API's compensation writes `failed` and an error over a worker's success,
   or the worker's `succeeded` keeps the error.
2. `job_timeout`. `job_timeout` cancels `_run_job`; `except Exception` does not catch
   `CancelledError`; arq drops the job. The row stays `running`.
3. `isolation_orphan`. A cancellation that arrives while `proc.start()` is in its thread finds
   `proc.pid` None; the child that `start` then creates is not stopped.
4. `accounts_race`. `register` promises an `AppError` for a duplicate email. `create_user` raises
   it only when its check finds the user; of two registrations that pass the check together the
   second ends in the `IntegrityError` of the flush (`services/user.py:33`), which no handler
   turns into a 409. `EmailsAreUnique` holds all the same.
5. `solve_prim`. `PrimStrategy` puts the endpoints of all required links into the tree before it
   grows it. Two required links that do not touch are therefore never joined, too few links are
   selected, and the answer is "infeasible" although Kruskal and NetworkX find a tree.
   `TreesAreMinimal` allows Prim this, and only this.

The first two are why `UndisturbedResponse` is restricted to undisturbed jobs and why
`JobsSettle` excludes `job_timeout`; the third is why `ComputationsStopped` and
`ProcessesBounded` leave out `detached` calls.

Divergences that no run shows, because no property is needed to see them:

- `services/measurement.py:6` says that the peak is that of the whole process, and that strategies
  run one after the other, so that it does not mix with the allocations of other solutions. That is so in
  the process mode. In threads everything the API does meanwhile counts (`WorkBeside`): its
  event loop, ordinary solves in other threads. And two benchmarks share `tracemalloc`: the first
  to stop ends the trace of the other, whose peak is then 0; a strategy that raises leaves the
  tracing on. `PeakIsOwn` says what remains: with a process of its own a call reports its own
  memory exactly; in threads, one that met no other measurement, and none that failed, reports at least the
  whole of its own, and no more than that if nothing was beside it.
- `services/simulation.py:190` budgets as many evaluations as halve the range, but the end of the
  range is tried first: one is missing unless the number of values is a power of two
  (`BudgetSuffices`). It matters only when every evaluation takes nearly its full time. The wait of
  `to_thread` for a free thread of the pool counts against the budget too; `BudgetSuffices` calls such a
  search `late`, as one with an evaluation that overran. The budget
  may also exceed arq's `job_timeout`, which then ends the job (`job_timeout` above).
- `services/simulation.py:136` says that a failing scenario is noted and the rest goes on. A
  `KeyError` of a strategy or of the verification is in no `except` and ends the request.
- `services/comparison.py:125` says the same of runs. The verification is outside the `try`, so a
  travel plan of the model that visits an unknown place ends the comparison.
- `domain/problems/problem.py:61` says that the penalty is added for each soft constraint that is
  broken, `services/verification.py:227` that it is the sum over the violated ones. Violations carry
  only the kind of their constraint, and every soft constraint of such a kind is charged: a route
  that breaks one of two soft bounds on its weight is confirmed with the penalties of both.
  `VerdictIsRight` has the exact penalty where all soft constraints of a kind agree (`KindsAgree`),
  and says that it is at least that elsewhere.
- `services/verification.py:155` says that it checks whether a schedule's use of resources exceeds the
  capacity. The profile it recomputes cuts starts and finishes to whole units first
  (`algorithms/scheduling/project_common.py:58`): a task of a client's schedule from 0.5 to 1.5
  counts from 0 to 1, so one that starts at 1 is not seen to meet it, and a schedule that exceeds
  the capacity may be confirmed. `SplitsUnits` is that exception in `VerdictIsRight`, in this
  direction only: what keeps the capacity is never refused.
- `domain/problems/problem.py:59` says that a hard constraint cannot be broken. `verify_shift_structure`
  reports a day off that was not given as a soft violation (`domain/solutions/structure.py:187`),
  whatever the severity of the constraint, so a roster that breaks a hard one is confirmed.
  `VerdictIsRight` counts the soft ones only.
- `domain/constraints/numeric_bound.py:4` says that bounds are on metrics that the verification has
  determined, a route's `total_weight` for one. The verification determines those of shifts only
  (`domain/solutions/structure.py`); for the others the claimed ones are read, and one that was not
  claimed bounds nothing. A client's tree of weight 4 with the claim of 3, or with none, is
  confirmed under a bound of 3.
- `schemas/structuring.py:133` says that the problem can be passed to `/solve` as it is. Grounding
  accepts the id of any list, so a travel plan may be made to require a leg, and `/solve` ends in a
  `KeyError`; `StructuredIsSolvable` excludes this and nothing else. `schemas/structuring.py:8`
  says that what the model did not mention is None and stays as it is; a None it did mention
  deletes the key.

### What the properties of `solve` and `orchestration` leave out, and why

Each of these conditions was found by a run that failed without it.

- `RoutesAreShortest` is about A* only where no coordinate contradicts a weight
  (`ConsistentPlaces`). Nothing validates that, and `_preferred_name` chooses A* as soon as all
  nodes have coordinates. A node is settled once, so the estimate has to be consistent; that it is
  admissible, which `algorithms/graph/a_star.py:4` asks for, is not enough. `brute_force` knows
  simple paths only, so its answer is compared with those.
- A route whose start is its goal and which has no waypoints is answered without nodes, and the
  verification then calls it invalid. Bellman-Ford looks for no negative cycle there,
  `dijkstra_nx` does.
- `VerdictIsRight` excludes `Backwards`: `verify_route_structure` accepts a directed edge in either
  direction (`domain/solutions/structure.py:101`). No strategy answers so; a client may.
- The penalty also sums soft constraints that are kept, if another of their kind is broken
  (`services/verification.py:226`, see above), hence `KindsAgree`.
- `RostersAreBest` holds branch and bound to the optimum only when what is maximized is a share
  (`Boundable`). The bound counts a maximized metric as at most 1, as its comment says
  (`algorithms/scheduling/branch_and_bound.py:153`), but an objective may maximize any metric.
  CP-SAT minimizes the spread of the hours in place of their variance, so its roster is only
  held to be one, and the greedy pass may miss a roster that exists.
- Nothing forbids that one member works two slots at the same hours, and the headcount of a
  client's roster is looked at only if the problem has the staffing constraint.
- `PlansAreBest` leaves out deliveries at the depot. `route_for_vehicle` keeps the nodes between the
  first and the last depot of the tour, and the ordering does not count the depot among them, so
  such a delivery is in no route, and the verification judges the answer invalid: also that of the
  greedy strategy, of which `algorithms/optimization/greedy_logistics.py:53` says that it is always
  valid.
- Of the tours of a set of places only a cheapest one is tried (`order_and_cost`), so a dearer
  one that would keep the time is not found. The property asks of the enumeration and of the greedy
  plan no more than that: a set of places counts for it if every cheapest tour of it can be
  afforded. The knapsack leaves
  out the ways between places and adds the required ones afterwards; it is held to the best value of
  what fits without the ways, and its plan may then be found invalid.
- A search for deliveries that ran out of nodes with nothing found answers "infeasible", and without
  the `_truncated` it sets otherwise: `PlansAreBest` allows that. The knapsack, the greedy strategy
  and CBC may answer so too, because they settle the loads before, or without, the ways.
- `VerdictIsRight` judges the bounds on a client's answer by the figures it claims, but for the labour
  cost (`Figures`; see above), and a strategy's by what is true of it. An answer that a client sends
  as invalid stays so (`services/verification.py:74`), whatever is found.
- `VerdictIsRight` leaves out problems with a bound on `soft_penalty` (`BoundsPenalty`): the penalty is
  computed after the bounds are checked, so such a bound reads what the answer came with. That the
  penalty is at least what is due asks that no penalty is negative; nothing validates that.
- Offered answers are of their problem's own type. One of another type has no structure checked at all
  (`structural_verify` returns nothing for it, `domain/solutions/structure.py:44`).
- `VerdictIsRight` excludes `StartsElsewhere`: nothing verifies that a plan begins at the problem's
  start. The strategies' plans do. Of schedules with fractional times (`SplitsUnits`, see above) it only
  says that none is refused that solves its problem.
- `ScenariosAreComparable` leaves out the paths of `KeepsNull`, and allows that a request ends with an exception.
  The status of a result plays no part in the sensitivity search: an invalid answer's metric counts.
- `ThresholdIsLeast` needs `Monotone`. The makespan of a priority list need not fall when the
  capacity grows, and nothing checks that a metric moves the way the mode assumes;
  `ThresholdIsBoundary` holds without it.
- `RatiosRank` asks that the figures of valid answers are positive. With negative weights the least
  route has the largest ratio.
- `ExactIsNeverBeaten` says that exact strategies agree in a benchmark, and that in a comparison no more
  answers of a model beat one than went astray. `Exact` names the strategies held to the best there is.
  Each has one aim, whatever the objectives ask for, so the first objective, which the code compares by,
  has to be that aim: the least weight, or the most value. Routes have no negative weights and no
  more waypoints than are ordered exactly (`MaxExact`); of a trip the cheapest way around any places
  also has to be the quickest (`CheapestIsQuickest`), because only the cheapest one is tried.
- `Astray` are the model's answers that the verification takes for what they are not: a route against the direction of an
  edge and a plan that does not begin at the start. They are confirmed, and beat the
  best where that helps: in the run a model goes `OneWay` backwards, and begins a holiday elsewhere.
- `ExactIsNeverBeaten` also asks for hard constraints that both sides are checked for. The answers of
  a model have no metrics, so a bound on a figure is never checked on them, although
  `services/comparison.py:283` says that they pass the same verification. The strategy's figure is the base of all ratios even if
  its answer is invalid; an exact strategy's is then still a bound.
- `RankingIsWhole` lets a name that the model repeats keep its last place only.
- The verification of a schedule does not ask that starts are not negative, and its resource
  profile begins at 0; `KeepsCapacity` is stated from 0 on.

## 4. What is proved

Every theorem is for all values of the constants under the named assumptions
`JobAssumption`, `RateAssumption`, `AccountsAssumption`, `LlmAssumption`, `IsolationAssumption`,
`FailedAssumption`, `SearchesAssumption` and `MeasurementAssumption`: finite sets of jobs, calls and
requests, limits and lives that are natural numbers, searches over integers, distinct names. The theorems about
`SolveService` use `ProblemsAssumption` and `OffersAssumption` (the schemas), those about
`Orchestration` also `ReceivedAssumption` and `SayingsAssumption` (what the schemas of
requests and of the model's answers let through), `NoneAssumption` and `NamesAssumption` (None is
no number, no ratio and no name of a strategy; the first also for `SolveService`). The other assumptions (`WholeAssumption`,
`MaxNodesAssumption`, `MaxSearchAssumption`) only say what numbers the bounds are.

- **The job path** (`JobLifecycleProofs`). The inductive invariant `IInv` adds to the types, for
  each job: `RequestPhase` (a request that has not handed its job over is neither queued nor
  ever delivered, and the row exists as soon as the request is past its checks), `AttemptPhase`
  (a coroutine runs a job that arq still holds and has delivered; there are at most as many
  solutions as deliveries, fewer before the runner has returned; an attempt that has solved a
  persisted problem has committed it), `Settled` (what its status announces is there) and, for
  undisturbed jobs, `UndisturbedPhase` (the status and the payload that each phase implies).
  None of the properties is inductive alone: `SettledPayload`, for instance, needs to know of
  `WriteSucceeded` that the runner has committed, which is a fact about an earlier step and
  another variable. From it follow `TypeOK`, `EntryHasRow`, `SettledPayload`,
  `UndisturbedResponse`, `SolutionsPerDelivery` and `FinalOnceDropped`. `PendingIsOwned`
  needs a second invariant, which holds until the faults are `Overwhelmed`: the deliveries have to
  be paid for by faults. `JobPathKeepsContract` is the refinement: initial states map to initial states, and each step to a step of `JobContract`
  or to a stutter.
- **The rate limiter** (`RateLimiterProofs`). `SlidingBound` follows from an invariant that
  distinguishes what the observer has seen so far: no key since it began to watch, a key that
  was there before it, or a key that will outlive it. Two windows at most meet the
  observation, and the older one spent one grant before it began, which is where "fewer than
  twice" comes from.

- **Accounts** (`AccountsProofs`). `RequestInv` binds a request to an email or to a session and
  says that a user about to be committed is the only one; `SessionInv` that a session belongs to
  one login, that a token which is held and not revoked is at most as old as its key, and that
  the key of a revoked one stays deleted. `OneUserPerEmail` and `KeysOutliveTokens` are parts of
  it. `LogoutIsFinal` and `BlockingIsEffective` are action properties: under the invariant each
  step that lets a request pass has read the key, or the row, in that very step.
- **The LLM endpoints** (`LlmRequestsProofs`). `RequestPhase` says what a request has been granted
  and has called at each await, `RequestRows` what it has flushed, whose conversation or solution
  that is, and what it has committed; `GrantsCounted` relates the granted requests to the
  limiter's counters by cardinality. From them follow `TypeOK`, `HistoryIsWhole`, `OwnDataOnly`,
  `SpendIsBounded` and `CachedIsNotAsked`.

- **Isolated computation** (`IsolationProofs`). `StartPhase` says of each call where
  `proc.start` is: queued or in a thread only for a call that awaits it or was detached from it,
  and in between the fork and the pid it is still running. That is what the finally clause relies
  on: outside that moment a child has a pid and can be killed (`FinallyStops`). `SolverPhase` says
  which children can have a solver, `Stopped` what the finally clause leaves behind, `PlacesKept`
  that only `Acquire` adds a holder. `ComputationsStopped` is `Stopped` of ended calls;
  `ProcessesBounded` follows because a child that runs belongs to a holder or to a detached call. Both
  leave out the children of detached calls, with which more than `SOLVE_MAX_PROCESSES` do run.
- **Verification** (`VerificationProofs`). `RequestsAreKept` is the inductive invariant of
  `SolveService`: the problem is one the schemas let through, from validation on its references exist,
  what is verified was answered by a strategy or offered, and the verdict was made from it. What it
  rests on is an operator for each problem type, so most of the module is about those.
  - The first part is a library of what the operators of the community modules compute: a sum over a
    set or a sequence does not depend on the order it is taken in, a fold has an accumulator at each step
    (so that its result is reached by an induction over the steps), a strict order arranges a finite
    set in exactly one sequence. The inductions are over natural numbers, by the least number that fails.
  - `FloydWarshallFindsDistances`: after k rounds an entry is the least weight of a walk through the
    first k nodes. `DistancesOver` says the same without an algorithm, as walks of any length.
  - For each type, that the structural checks find something if and only if the answer is not what
    `Optima` says an answer is: a path whose edges join its nodes, links that join all parts of the nodes
    (breadth-first search reaches a set that no link leaves), a schedule in the order of its dependencies
    and within the capacity (the difference array is the sum over the tasks that run), a roster within its
    limits (the longest run of days is the longest interval), a plan whose figures are those of its tour, loads
    that deliver everything once. `StructureIsVerified` puts the six together.
  - `VerdictFromSoundness`: violations carry kinds, not constraints. With hard ones found if and only if
    a hard constraint is broken or the structure is wrong, and the penalty summed over the soft constraints
    of every kind found, `VerdictIsRight` follows for what a client offers, and for a strategy if its answers are sound.
- **Strategies** (`StrategyProofs`). An answer is sound if it has the metrics its type's figures ask for,
  with the true values, and if it can be verified or the request ends as `VerdictIsRight` says.
  `StrategiesAreSound` shows it for every registered strategy:
  - spanning trees: a forest of parents has a root above every element, path compression keeps it,
    union by rank joins the two trees (`UnionIs`); what Kruskal, Prim and NetworkX answer is a sequence
    of links whose weight is the one claimed;
  - projects: the topological sort lists tasks after what they depend on, and all of them when there
    is no cycle; the forward pass gives each task the latest finish before it (`EarliestIs`), the
    backward pass the earliest latest start after it; in the order of the latest starts every task is
    placed after what it depends on, and a free place exists, at the latest when everything else has ended;
  - plans and deliveries: what the knapsack takes is some of its items, a tour that was found has a
    cost and a time because both are known along the same ways, a stop is put on one vehicle, and the
    search for loads keeps its distances to what its loads drive.

  `VerdictsAreRight` joins the two modules: whatever problem, strategy or offered answer, what verification confirms
  solves its problem, and a strategy's answer that solves it is confirmed, with the exceptions that
  `VerdictIsRight` names (`Backwards`, `StartsElsewhere`, `SplitsUnits`, `BoundsPenalty`).
- **The bisection** (`OrchestrationProofs`). The loop invariant `Section`: the end of what is left
  was tried and satisfies, what lies before its beginning was tried and does not. From it follow
  `ThresholdIsBoundary` for every metric, and `ThresholdIsLeast` for monotone ones.
- **Measurements** (`OrchestrationProofs`). `SomebodyTraces`, `Acquainted` (calls at work in one
  process have met), `OwnMemory` (the trace of a call that met nobody is its own and that of work
  beside it) and `NothingBeside` (no work of the API reaches another process) give
  `PeakIsOwn` for every number of calls and of runs (`PeaksAreOwn`, and `MeasurementsAreOwn` in the
  composition). Neither says which peak a benchmark puts in which entry.
- **Handlers that solve more than once** (`OrchestrationProofs`). The invariant `ComposedInv` has a
  part for each handler; a handler leaves the parts of the others alone because its request is of
  its own kind (`Routed`).
  - `BudgetInv`: the evaluation of the end of the range apart, each evaluation at least halves what is
    left, and the budget is the bit length of the range; so a search that is given up on without
    being late has one evaluation more to make than the budget is for, and its range is no power of two
    (`BudgetMissesOne`). The loop invariant of the bisection is carried over to the
    search of a simulation, whose metric is that of a solve.
  - `Recommending`: the log is what the model said, any sequence of names, and the reply what
    a stable sort by rank makes of the strategies. The lemmas show that a place in a stable sort is a count of
    what comes before, so that sorting permutes, and that a name's last place is its rank
    (`RankingIsWhole`).
  - `Benchmarking`: entries have no ratio before the reply, which is the log with its ratios; the best
    figure is one of a valid entry, because a finite set of integers has an end (`RatiosRank`).
  - `Listening`: what each node of the graph has gathered from the model (`Heard`, `Sayable`), and that
    the document is assembled from it (`Assembled`). The reply is such a document that was also
    grounded, and merging leaves what no patch names (`StructuredIsGrounded`).
  - `Comparing`: the log has one result for each scenario so far, each that of the base merged with
    its own patch alone and solved with the algorithm that the first entry fixed. `MergesAlong` shows
    that, as long as a path finds objects in the patch, the merge goes on there, and
    `MergesAsExpected` what is there after the first thing that is no object, for paths of any
    length and patches of any depth (`ScenariosAreComparable`).
  - `MeterInv`: the invariant of the measurements, for several measurements at once.

Only model-checked:

- `JobsSettle`, `WindowsClose`, `CallsEnd`, `ThreadsReturn`, `AccountsSettle` and `RequestsEnd`: liveness under
  fairness is out of the prover's reach.
- `RoutesAreShortest`, `TreesAreMinimal`, `SchedulesAreTight`, `RostersAreBest` and `PlansAreBest`: what is
  proved of the strategies is that their answers are sound, not that they are best. That
  would need the exchange argument of spanning trees, the induction over settled nodes, the bound
  of the pruning and the optimal substructure of the knapsack, each an induction over data that none
  of the installed provers can do by itself. (The inductions above were done by hand, from the least number
  that fails.)
- `ExactIsNeverBeaten` rests on those. `StructuredIsSolvable` asks that a problem which passed the
  grounding makes no strategy raise, whatever the model said.

Some definitions are written the way they are because they are reasoned about: an order of a set is
`Arranged` by counting what comes before, and a search is a function of its
arguments, where the community modules sort with operators that cannot be expanded.

## 5. Not modelled

- **Prompts and the wording of LLM answers** (`algorithms/llm`, `ai/llm`): what a model says is any
  of a set; the texts around it have no states. Explanations, accounts of a comparison and notes
  are left out for the same reason.
- **Reading stored problems and solutions**: owner-scoped reads of rows that are never updated. The
  reads that a decision depends on are steps of `Accounts`, `LlmRequests` and `JobLifecycle`.
- **HTTP application, middleware, configuration, connections**: wiring. The body limit counts
  within one request; pool, session and transaction appear in the modules that use them.
- **Migrations, seed data, proxy, offline analysis**: no state shared with the running system.
- **Depth-first, binary and linear search, sliding window**: no strategy that is modelled uses them.
- **Approximate tours of plans and vehicles** over more stops than are ordered exactly: the
  approximation is modelled for routes with waypoints; `MaxExact` keeps plans below it.
- **Time** in `Isolation`, `LlmRequests` and the handlers: a wait with a timeout may end at any
  moment, so nothing is said of how long anything takes.
