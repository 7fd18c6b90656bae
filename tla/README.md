# A TLA+ development of hermes-mcp

hermes-mcp is a bridge. MCP clients (Claude, Codex, Cursor, Town) reach it over
a tunnel; it authenticates them, forwards their prompts to one local Hermes
gateway, and, for asynchronous calls, keeps a durable record of each job that
the client polls. This directory models the parts of it that keep state, checks
them with TLC and proves the main results with TLAPS. Source lines below are
those of `src/src/hermes_mcp/`.

## 1. The system

| Component | State it keeps | Operations | Where |
|---|---|---|---|
| Persistent job store | the `jobs` table in SQLite, an `flock` on `<db>.lock` | open (lock, recover), `create`, `get`, `mark_running`, `mark_completed`, `mark_failed`, `mark_cancelled`, `reset_all`, lazy reap | persistent_jobs.py |
| In-memory job store | a dict of live `Job` objects, one lock | the same, without ownership and recovery | jobs.py |
| Job tools | nothing beyond the store; one coroutine per call | `hermes_ask`, `hermes_check`, `hermes_cancel`, `hermes_reset` | server.py |
| Worker | one daemon thread per asynchronous job | `_run_job` | server.py |
| Gateway client | nothing | `ask`, `ask_async` | hermes_client.py |
| OAuth provider | codes, access tokens, refresh tokens, the link refresh -> access | authorize, load and exchange of codes and refresh tokens, `load_access_token` | oauth.py |
| Redirect-URI check | nothing | `_check_redirect_uri` | oauth.py |
| Start: configuration, checks, command line | how far a process has come, the `Config` it holds, its exit status | `Config.from_env`, `run_checks`, `main`, `build_app`, `serve` | config.py, doctor.py, `__main__.py`, server.py |
| Event loop and executor | the work items of the default executor, its threads, the lock of the store | `lifespan`, every `asyncio.to_thread` | server.py |
| Transport security | a constant list of hosts | `_build_transport_security` | server.py |

How they interact. A tool handler runs on the event loop and hands each store
call to a pool thread (`asyncio.to_thread`): it is suspended at that point, and
every other handler, worker and caller may run before it goes on. `hermes_ask`
with `async_mode` commits a row, then starts the worker thread, then replies.
The worker marks the row running, asks the gateway with no lock held, and
records the outcome. `hermes_cancel` only marks the row: the thread and the
gateway go on. A process holds the owner lock from its start to its exit; the
next owner fails whatever it finds unfinished and never sends it again. A
supervisor starts the server; a start reads the environment once, asks the
gateway whether it is there and accepts the key, opens the store and binds the
port, and any of these may end it.

What is hard:

- *Interleaving.* Worker, cancel, reset and reap of the same job, in any order;
  the two hops of a cancel; a job cancelled before its thread has started.
- *Crashes.* The process may die between any two steps, with the answer at the
  gateway, in the thread's hands, or recorded; a start may fail half way; a
  second process may be started while the first lives.
- *Failures of the store itself.* `_run_job` guards the gateway call but not
  its own store calls.
- *Boundaries.* Capacity reached by rows that cannot be reaped; a row exactly
  as old as its retention; the caps of the token books.
- *Concurrent token requests* that loaded the same code or refresh token.
- *Time.* Every expiry is read off the wall clock, which may be set.
- *Waiting.* A store call waits for a thread, then for the store's lock, then for
  the disk, while its caller may go away; job threads want the same lock, the
  lookups of the gateway's name want the same threads, and the gateway may hang
  for as long as its timeout lets it.
- *The start.* The file it reads, the gateway and the port change under it, a
  second process may be run by hand, and the supervisor sees only its status.
- *A record read outside the lock*, with the in-memory store.

What makes each component correct: for the stores, that a final status is never
changed, that a row in flight is never dropped, that nothing is called
interrupted while something can still deliver it, and that a refused or failed
call leaves the table as it was; for the workers, that the gateway is asked at
most once for a job and that every accepted job is settled; for the callers,
that what they are told only moves forward; for the provider, that a grant has
one usable thing at a time. `PROJECT.json` lists each hazard at its line, with
the properties aimed at it.

## 2. The modules

| Module | Models |
|---|---|
| `JobTable` | the SQL statements of `PersistentJobStore`, as operators from a table to a table |
| `JobBridge` | processes, owner lock, table, workers, gateway and callers: the asynchronous half of the bridge |
| `JobLifecycle` | the abstract promise for one job: issued, started, asked once, settled once, forgotten |
| `JobLifecycle_proofs` | what that promise is worth |
| `JobBridge_proofs` | the theorems about `JobBridge` that hold whatever goes wrong |
| `JobFaults_proofs` | the theorems about what only faults and other callers can break in `JobBridge` |
| `Executor` | the waiting behind a tool call: event loop, work items, threads, store lock, job threads |
| `Executor_proofs` | the theorems about `Executor` |
| `Startup` | `main` from the environment to a serving process, under a supervisor and beside processes run by hand |
| `Startup_proofs` | the theorems about `Startup` |
| `TokenStore` | the OAuth books and the `/token` requests that use them |
| `Grant` | the abstract promise for one OAuth grant: a code, then one pair at a time, then nothing |
| `TokenStore_proofs` | the theorems about `TokenStore` |
| `JobMemory` | the in-memory store, field by field |
| `JobMemory_proofs` | the theorems about `JobMemory` |
| `GatewayCall` | one call of `ask` or `ask_async`: the network operations, their timers, the classification of the response |
| `GatewayCall_proofs` | the theorems about `GatewayCall` |
| `MC...` | symmetry sets for the TLC runs; the `.cfg` files give the constants |

Definitions named `Mut_...` are deliberately wrong variants of the definition
that follows them. No specification uses them; putting one in the place of the
definition it imitates makes the property named for it in `PROJECT.json` fail,
which shows that the property depends on that code.

### JobTable and JobBridge

Every method of `PersistentJobStore` holds the store's lock and one SQLite
transaction, so each is one operator of `JobTable` applied in one step:
`Insert` is `create` (reap, count, insert), `Finish` is `_finish` (an update
guarded by the in-flight states), `FailUnfinished` is the update that ends
`__init__`. A row that is absent has status `"absent"`; `NoText` and `NoTime`
are SQL's NULL. `prompt_chars`, `session_id` and `created_at` are written once
and read only for display, so they are left out.

| State of `JobBridge` | In the code |
|---|---|
| `rows` | the `jobs` table, which survives exits |
| `owner`, `proc` | the `flock`; whether a process is down, inside `__init__`, or serving |
| `ask[j]`, `home[j]` | how far the `hermes_ask` that made job `j` is, and in which process |
| `worker[j]` | where the `_run_job` thread of `j` is |
| `dispatched[j]`, `answer[j]` | requests that reached the gateway for `j`, and its answer |
| `cancelling[c]` | a `hermes_cancel` between its two hops, with the result of the first |
| `seen[c][j]` | the last status caller `c` was told for `j` |

| Action | In the code |
|---|---|
| `OpenOwnerLock`, `RecoverUnfinished`, `OpenFails` | `PersistentJobStore.__init__`: lock, schema and recovery, the exception path |
| `ProcessExits` | crash or shutdown between any two steps |
| `CreateJob`, `StartWorker`, `AskDropped` | `hermes_ask`: the pool call, the rest of the handler, the handler gone in between |
| `MarksRunning`, `AsksGateway`, `RecordsAnswer`, `RecordsFailure` | `_run_job` |
| `GatewayAnswers`, `GatewayFails` | the gateway, through `HermesClient.ask` |
| `AnswerUnstorable`, `StoreRaises` | an exception out of the store calls of `_run_job` |
| `HermesCheck`, `HermesReset` | one pool call and the reply |
| `HermesCheckUnknown` | a check or a cancel of an id that no job has: the `get` reaps and misses |
| `HermesCancelMarks`, `HermesCancelReplies`, `HermesCancelAborts` | the two hops, and the handler gone in between |
| `Tick`, `ClockIsSet` | `time.time()`, which goes on or is set |

Calls that leave everything as it was are stutters and not actions: a `create`
refused at capacity (the exception rolls back its own reap) and a start refused
because another process holds the lock. Callers know the id of a job only from
the reply of a `hermes_ask`.

### JobLifecycle

What a caller is promised, without threads, processes or tables. The refinement
mapping of `JobBridge` reads the phase of a job from its row, and calls it
`gone` when the row is absent although the job was issued. The specification
makes explicit two things that readers of the code ask about: a job that was
cancelled or wiped may still reach the gateway (cancel is a tombstone,
jobs.py:12-18), and a job that was reported failed may not.

Both stores implement it. In the mapping of `JobMemory` a job whose settling has
begun is still in flight until `finished_at` is written and the lock is free, so
that the three assignments of a finishing method are one step of the life cycle,
and the gateway, which that module leaves out, counts as asked when the thread
takes the lock with the outcome.

### Executor

`JobBridge` makes a store call one step and lets any of them happen at any time,
which covers every order but says nothing of the waiting. `Executor` has the
waiting and forgets what the calls do.

| State of `Executor` | In the code |
|---|---|
| `kind[c]` | the tool of call `c`: a synchronous ask, an asynchronous one, a check or reset, a cancel |
| `handler[c]` | where its coroutine is between two awaits |
| `item[c]`, `pool[c]`, `queue[e]` | the work item of its `to_thread`, the executor that has it, and the items no thread has taken |
| `current` | the default executor of the event loop |
| `done[c]` | transactions committed for it |
| `job[c]` | the `_run_job` thread, which is not one of the executor's |
| `lock` | `with self._lock` of the store |

`lifespan` is entered by every MCP session and sets a new default executor each
time; what the one before has in hand runs on there (`SessionOpens`). A handler
may be cancelled at any await (`Cancelled`): the cancellation reaches an item
that is still queued, which a thread then throws away, and not one that runs.
A transaction commits or raises, and either way gives back the lock
(`LeavesStore`, `JobLeavesStore`). When the store calls of a handler are done it
replies, or starts its job thread, which may raise with the row committed, or
asks the gateway (`GoesOn`).

A synchronous ask makes no store call and still may need a thread: when
`HERMES_API_URL` gives a host name, as in docker-compose.traefik.yml:15, the
async client resolves it in the default executor of the loop, which is the one
`lifespan` installs (server.py:282). So `Begins` lets an ask go to the gateway at
once or queue a lookup first; `LooksUp` is the lookup, which takes no lock of the
store, and `LookupTimesOut` the connect timeout that ends the wait for it. That
asks are independent of the store is therefore not claimed: with a host name
they are not. The executor's queue and threads are those of `concurrent.futures`,
outside the repository.

### Startup

| State of `Startup` | In the code |
|---|---|
| `env` | the environment file, told apart by what `from_env` and the users of its result tell apart |
| `pc[p]`, `cmd[p]`, `cfg[p]`, `exit[p]` | how far `main` has come in process `p`, its command, its `Config`, its last status |
| `lock` | the owner lock of the job store |
| `complaint` | the setting the last `ConfigError` named, unless mended since |
| `gateway`, `portTaken`, `wanted` | what the process meets outside, and whether the unit is meant to run |

`Starts` is `main` up to the checks: the process has its own copy of the
environment, so reading and judging it is one step; `FirstWrong` is the setting
whose `ConfigError` is raised, by the order of the checks in `from_env`.
`ChecksHealth` and `ChecksModels` are the two requests of `run_checks`, with the
gateway free to change in between; `OpensStore` is the part of `build_app` that
can fail and `Binds` is `streamable_http_app` and `uvicorn.run`. A setting is
`"unusable"` when `from_env` accepts it and the one who uses it does not: a URL
that httpx, pydantic or the SDK refuses, a key that is no header value, a path that
cannot be created, an address of another host, a timeout too large for a socket.
`from_env` has an upper limit for the port and the pool and none for the timeout
(config.py:115), so `Refused` has none either; such a timeout stops no start and
is met at the first call of the gateway (`RequestRaises` of `GatewayCall`). Users
refuse by an exception that nobody catches (`Crashes`): its traceback names no
setting, so it leaves `complaint` alone. An issuer may be refused before the
store is opened (`AnyHttpUrl`, server.py:289) or after it (the SDK, server.py:397),
depending on what is wrong with it, and `OpensStore` allows both.
`SupervisorStarts` is the systemd unit (`Restart=on-failure`: it does not start
again what ended with 0). `Trouble` is a bad edit, an outage or a kill.

### TokenStore

A book maps each token that `token_urlsafe` could return to its expiry, or to
`Absent`. A pair stands for the access and the refresh token minted together,
so `_refresh_to_access` is the set `linked`. The coroutines of the provider
never await and are one step each. The MCP SDK is outside the repository: it
loads a grant and then exchanges it, and the model lets any other request run
in between. A `load_...` that finds nothing changes nothing and is a stutter.
`origin` and `issued` are history: which code a pair descends from. Left out are
scopes, resources and PKCE data, which decide whether a request comes this far
and not what it does to the books, and the static bearer token, which is
compared and stored nowhere. The clock is that of the host and may be set back
(`ClockIsSet`), so an expired token that nobody dropped yet may be valid again.

### Grant

What a reader of THREAT_MODEL.md relies on, without books or requests: a grant is
worth its unused code, then one pair of tokens, then perhaps only an access token
(a refused mint or an expired refresh token leaves it), then nothing; every step
advances one grant at most, while others can only lose what they had; a pair is
never minted twice. The refinement mapping of `TokenStore` names a grant by its
code and reads its phase off the three books.

### JobMemory

The in-memory store is documented as thread-safe and kept for tests and
injection; production uses the persistent one. `get` returns the stored object,
and `hermes_check` calls `to_dict` on it after the lock is released, so here the
finishing methods and `to_dict` are modelled assignment by assignment and read
by read, while methods that write at most one field stay one step. The clock
value of `create` and `get` is taken before the wait for the lock, and the clock
is that of the host and may be set either way (`ClockShows`; `shown` is the latest
time anybody has read off it). A
`JobMemory` job cannot fail its gateway call separately from recording it: the
worker chooses an outcome when it takes the lock.

### GatewayCall

One POST, from connecting to the classified response. httpx and the gateway are
outside the repository: httpx applies a timeout given as a number to each network
operation by itself (connect, write, each read), which is why a timer belongs to
an operation (`heard`, `ops`) and not to the call; the gateway answers when and
what it likes and goes on when the call is over. `Classified` is
`_response_text`. Responses are told apart by their status (200, 401, a
redirect, any other) and by what `response.json()` and the indexing make of the
body; `"escaped"` stands for the exceptions that leave `ask` as they are: those of
`response.json()` that are no `JSONDecodeError`, and those of the request that
are no `HTTPError`, for a URL, a header or a timeout httpx can make no request of
(`RequestRaises`). `mode` tells the two methods
apart: only the coroutine of a synchronous `hermes_ask` can be cancelled.

`JobBridge` uses this module's results and not its details: `AsksGateway`
happens once per thread (`SentAtMostOnce`), `GatewayAnswers` and `GatewayFails`
are the outcomes (`TextIsWholeAnswer`, a `HermesError`, or `"escaped"`), and one
of them must happen (`CallEnds`).

## 3. The runs

The instances use model values and, except for the runs with liveness, symmetry.
Deadlock is checked everywhere but in `GatewayCall` and `Executor`, where calls
that have returned are at their end; elsewhere a reset, a restart or a check is
always possible.

| Run | Question | Instance |
|---|---|---|
| `bridge_safety` | Are rows coherent and within capacity, is nothing interrupted while alive or forgotten early, is no job in flight older than the server, is a caller told forward only, and is the bridge a job life cycle? | 2 jobs for 1 row, 2 processes, 1 caller, 2 answers (one unstorable), all faults, 2 exits, clock 0..2, retention 1 |
| `bridge_liveness` | Is every accepted job settled, does a server always return, does a poller learn the end, does a cancel say what it did? | 2 jobs, 2 processes, 1 caller, 2 exits, no store or handler fault, `FairSpec` |
| `executor` | Do store calls and lookups end while the disk and the resolver work, do replies follow effects, is a call cancelled in the queue never made? | 3 calls of any kind, 1 thread, 2 sessions, `FairSpec` |
| `startup` | Is the store held by the server only, does it run with sound settings, and does the wanted unit itself serve again? | the unit and 1 process by hand, 8 settings edited, 2 troubles, `FairSpec` |
| `tokens` | One live pair per grant, no mint from an ended grant, caps, no fresh token reaped, and `Grant` implemented? | 3 codes, 4 pairs, 2 requests, caps 2 and 2, clock 0..3, which may be set |
| `memory` | Coherent under the lock, settled once, forgotten only when due, torn replies still useful, and is the store a job life cycle? | 2 jobs for 1 entry, 1 reader, clock 0..2, which may be set |
| `gateway` | Is only a whole answer returned, the prompt posted once, every call ended, each operation bounded in time? | timeout 3, up to 3 reads, `FairSpec` |
| `answer_unstorable` | violation | 1 job, 1 answer that SQLite cannot encode |
| `cancel_reset_race` | violation | 1 job, 2 callers |
| `torn_reply` | violation | as `memory` |
| `wall_clock` | violation | timeout 2, up to 2 reads |
| `doctor_traceback` | violation | 1 process beside the unit, 1 trouble |

**Why the bounds are enough.** Two jobs are the fewest that compete for
capacity and for a process exit. Two processes are the fewest for an owner and a
successor, and two exits allow an exit followed by a failed start, or a restart
of the restarted. A clock of three values with a retention of one tick passes
both sides of the reap's boundary. In `TokenStore`, three codes with a cap of
two exercise the refusal, four pairs allow a rotation of a rotation beside
another grant, and two requests allow one double exchange. When all pairs are
used no further mint happens; that is an artefact of the bound. The bounds
`MaxTime` and `MaxExits` restrict only `Tick`, `ClockIsSet`, `ClockShows`,
`ProcessExits` and `OpenFails`. In `Executor`, one thread and three calls put one call in the store,
one behind it and one in the queue, beside a job thread of the first; two
sessions are an executor and its successor. In `Startup`, two troubles are a bad
edit and an outage, or an outage and a kill, before which any number of good
starts may have been; the settings edited are one for each way to be wrong.
`MaxSessions` and `MaxTroubles` restrict `SessionOpens` and `Trouble`. The proofs
need none of the sizes.

`CancelTellsTruth` is checked with one caller, who resets nothing between the two
hops of its own cancel: with two it is false (`cancel_reset_race`).

**Fairness.** *JobBridge.* A process is started again when none serves: systemd
has `Restart=on-failure` and the compose files `restart: unless-stopped`;
`Startup` shows what this rests on (`ServesAgain`). A start that has the lock goes
on; worker threads and handlers are scheduled; a gateway request ends, as
`GatewayCall` shows for responses of finite length. Nothing makes a caller call,
the clock advance or a process exit; exits are bounded, since a server that dies
for ever settles nothing. These are weak: each step stays enabled until taken or
until the process exits. `PollerLearns` has a premise of its own, `Polls`: the
caller goes on calling `hermes_check`, as the tool description tells it to ("Poll
`hermes_check(job_id)` every 5-10 seconds", server.py:105); the premise is strong
fairness because exits interrupt it.

*GatewayCall.* Time passes, timers fire and the code after the request runs;
neither the network nor the gateway is made to do anything.

*Executor.* The loop runs what is ready, idle threads take items and a thread
that waits gets a lock that stays free. Neither the disk, the resolver nor the
gateway is made to work: `StoreCallsEnd` has the premises that transactions end
(`DiskWorks`) and that lookups do (`ResolverWorks`), and none about the gateway
or about timers. The two premises come together because the pool is shared: with
a host name in `HERMES_API_URL`, a resolver that hangs in every thread stalls the
store calls too.

*Startup.* The supervisor restarts, processes run, an outage ends, and the
operator mends the setting the last `ConfigError` named. `ServesAgain` has two
premises for what no message leads him to: from some time on no setting is left
that stops a start with a traceback, which names none, and no server run by hand
is left, which holds the store or the port. The conclusion is about the unit
itself. TLC finds a counterexample when either premise is dropped: an unusable
key that nobody mends, a rival that keeps the store.

**Faults.** `"store"` lets a store call of a worker raise; `"handler"` lets a
handler vanish at an await; `"clock"` lets the wall clock be set. `bridge_liveness` runs without them, because the
code gives no promise for them: a row whose thread died is settled only by a
reset, a cancel or the next restart.

### What the violations show

- `answer_unstorable`. `_run_job` promises that "Any HermesError or unexpected
  exception is captured into the job record" (server.py:245), but its store
  calls stand outside every handler. An answer with a lone surrogate, which
  JSON decoding accepts, makes `mark_completed` raise; the thread ends and the
  job stays `running` with nobody working on it.
- `cancel_reset_race`. "If the job was still in flight, `status` will be
  `cancelled`" (server.py:208), and a comment argues that `None` after the
  second hop means an id that was never issued (server.py:370). A
  `hermes_reset` between the hops gives `unknown` for a job just cancelled.
- `torn_reply`. "All reads and writes happen under a single `threading.Lock`"
  (jobs.py:25), but `to_dict` reads the live record after the lock: a reply may
  say `completed` and carry no result. `FinishedShowsOutcome`, which holds,
  bounds the damage: a reply that shows `finished_at` also shows the outcome,
  because the outcome is written before it and read after it.
- `wall_clock`. "Max wall-clock seconds for a single hermes_ask call"
  (.env.example:36; THREAT_MODEL.md:100 likewise), but each network operation
  gets the whole timeout again. `TimePerOperation`, which holds, is the bound
  that the code gives.
- `doctor_traceback`. "Fails loudly with actionable messages — never a Python
  traceback" (doctor.py:4), but a `/v1/models` that answers with a JSON list or
  null makes `data.get` (doctor.py:67) raise an `AttributeError`, which neither
  `run_checks` nor `main` catches. The status is still one that the supervisor
  restarts on, so `ServesAgain` holds.

## 4. The proofs

`tlapm` on each of the eight `_proofs` modules checks everything, for all values of
the constants, from the assumptions the modules name: the sets of jobs, tokens
and calls are finite, the limits are natural numbers (the timeout, the number of
reads, of threads and of sessions positive), the unit is no process run by hand,
the strings used for "nothing" are not jobs, answers, processes or tokens.

**JobBridge.** The safety properties are not inductive alone. That a completed
row carries the gateway's answer depends on where its thread is; that an
interrupted job is dead depends on who owns the store when `RecoverUnfinished`
runs. The inductive invariant is

    IInv == TypeOK /\ OwnerUnique /\ RowWellFormed /\ JobCoherent /\ CapacityBound

`OwnerUnique` says that a process that is not down holds the lock. `JobCoherent`
ties, for each job, the thread to a serving process (`ThreadCoherent`), the
number of gateway requests to the place of the thread (`DispatchCoherent`), and
the status of the row to both (`RowCoherent`). From `OwnerUnique` and
`ThreadCoherent` follows the step the whole argument turns on: when a new owner
recovers the table no thread is alive, so failing every unfinished row
contradicts nobody. The preservation proof has one step per action.

Proved: `TypeCorrect`, `Invariant`, `RowsAreWellFormed`, `CapacityHolds`,
`CompletedJobsWereAnswered`, `InterruptedJobsAreDead`, `NothingForgottenEarly`
(an action property), and `BridgeImplementsLifecycle`, by which every step of
the bridge is a step of `JobLifecycle` or a stutter. `NoOrphanOutlivesItsServer`
adds `InFlightOfThisServer` to the invariant: a row in flight was made by the
process that serves, because a start settles every other one. From the
refinement follows `CallersAreToldForward`: the phases of `JobLifecycle` only
move forward, and what a caller was told is never ahead of the phase
(`CallerCoherent`). The lemmas about the
operators of `JobTable` (what each returns and which rows it leaves alone) are
stated once and cited.

Two properties of `JobBridge` hold only where something is excluded, and
`JobFaults_proofs` says exactly what. It first proves, for all values of the
constants and all faults, which steps can break each of them:

- `OnlyFaultsLoseJobs` (an action property): a row in flight comes to be carried
  by nobody only by `AskDropped`, `StoreRaises` or `AnswerUnstorable`. An exit of
  the server does not do it, since no process serves then, and the next one fails
  what it finds before it does (`RecoveryEndsAll`).
- `CancelsAreFinal`: a cancel that took effect replies `cancelled` or `unknown`,
  never the outcome of the worker or the recovery it raced with.
  `CancelsAreForgottenByOthers`: between its hops the row disappears only by a
  reset of *another* caller or after its retention. This is what the comment at
  server.py:370 has right and what it leaves out (see `cancel_reset_race`).

From these follow, under hypotheses that name the exclusion, the two properties
as the runs check them. `JobsAreCarried` (`InFlightIsCarried`) assumes that
`Faults` holds neither `"store"` nor `"handler"` and that every answer can be
stored; crashes, failed starts and restarts are not excluded.
`CancelsTellTheTruth` (`CancelTellsTruth`) assumes one caller and `MaxTime <=
Ttl`, so that no retention passes between the hops; no fault and no crash is
excluded. Each hypothesis is needed: `answer_unstorable` refutes the first property
without storable answers and `cancel_reset_race` the second with two callers; in
the instance of `bridge_liveness` TLC finds the first violated with either fault
allowed, and the second with a clock that may pass the retention. A short
retention is thus the other way, beside a reset, for a cancel to be told
`unknown`; the default is a day (jobs.py:50).

**JobLifecycle.** The promise is itself reasoned about: `AnswersAreTheGateways`
(an answer is shown for a completed job, always and only, and the gateway was
asked once for it) and `JobsMoveForward` (nothing moves back, only a reset
forgets a job in flight, a job reported completed or failed is not sent again).
Through the two refinements both results hold of both stores.

**TokenStore.** `OnePairPerGrant` needs to know that a code which is still held
has no pair yet and that a refresh token always has its link; otherwise an
exchange could leave the old access token behind. That is `BooksCoherent`, and

    IInv == TypeOK /\ BooksCoherent /\ OnePairPerGrant /\ BooksBounded

Two lemmas carry the argument: `DropKeepsGrants` (a step that only removes keeps
the grants apart) and `MintKeepsGrants` (so does a mint for a grant of which
nothing is left). Proved: `TokenTypes`, `TokenInvariant`, `GrantsHoldOnePair`,
`BooksStayBounded`. From the invariant, one lemma per kind of step
(`CodeExchange`, `RefreshExchange`, `DropIsDecay`, ...) gives the action
properties `EndedGrantsStayEnded` and `FreshTokensStay`, and
`ProviderImplementsGrant`, the refinement of `Grant`.

**Executor.** That a reply follows its effects needs to know that a handler which
waits has exactly one work item, in one queue and there once; otherwise a thread
could run a call twice or resume a handler that has gone on. That is
`CallCoherent` and `QueueCoherent`, and

    IInv == TypeOK /\ (\A c : CallCoherent(c)) /\ (\A e : QueueCoherent(e))
            /\ StoreExclusive /\ RepliesFollowEffects

Proved: `ExecutorInvariant`, `StoreIsExclusive`, `RepliesFollow`,
`QueuedCallsAreDropped`, `ExecutorTyped`. `RepliesFollow` says of a failed
`hermes_ask` only what the code keeps: its row may be committed and have no
thread, since `thread.start` may raise; no thread runs for an id never returned.
Two further theorems are the safety
halves of `StoreCallsEnd`: `ThreadsAreBounded`, by which an executor never has
more items in hand than threads, and `WaitersHaveAPlace`, by which a handler that
waits has its item in a queue or in the hands of a thread, also after a session
has replaced the executor (`Placed` is the strengthening).

**Startup.** `StageCoherent`: how far `main` has come says who holds the store and
which settings were found usable. It rests on `FromEnvSound`, by which a `Config`
holds an unusable text only for the keys that `from_env` cannot judge
(`MayBeUnusable`, the timeout among them). Each of these but the timeout has a user
on the way to serving, who refuses it. Proved: `StartupInvariant`,
`StartupTyped`, `StoreIsHeldByServer`, `SettingsAreSound`, and the safety half of
`ServesAgain`, `WantedUnitIsRestarted`: a unit that is wanted and down never ended
with the status 0 on which the supervisor would leave it down.

**JobMemory.** While a finishing method is inside, the one record it writes is
known field by field (`HalfSettled`) and every other one is coherent; a record
with its `finished_at` is never written again (`OthersUnwritten`), so what a
reader has read of it is still there. Proved: `MemoryInvariant`, `MemoryTyped`,
`LockedReadsAreCoherent`, `TornRepliesShowOutcome`, `JobsSettleOnce`,
`FinalRepliesAreFinal` (a final status in a reply, however torn, is the job's for
good), `MemoryKeepsCapacity`, and `MemoryForgetsOnlyWhenDue` (the action property
`ForgottenOnlyWhenDue`), which needs that the time a reader took before it waited
for the lock is one the clock has shown (`NowWasShown`).
`MemoryImplementsLifecycle` is the refinement of `JobLifecycle`; it needs `IInv`
strengthened by `Attended`: how far the thread of a job is says what its record
may show (`WorkerCoherent`), so that a thread that takes the lock with an outcome
finds its job running, cancelled or forgotten.

**GatewayCall.** That the clock stays within `Timeout * ops` needs two facts:
the current operation has not outlasted its timer, and it began within the
allowance of those before it. With the agreement of stage, gateway and response
they are `StageCoherent`, and `IInv == TypeOK /\ StageCoherent /\
TextIsWholeAnswer`. Proved: `CallInvariant`, `CallTypes`, `TextIsWhole`,
`PostedOnce`, `TimeIsBounded`.

**Only model-checked.** Liveness (`JobSettles`, `ServiceReturns`, `PollerLearns`,
`CallEnds`, `ServesAgain`, `StoreCallsEnd`) is out of the prover's
reach, as is anything with ENABLED. Every invariant, action property and
refinement of the passing runs is stated by a theorem, `InFlightIsCarried` and
`CancelTellsTruth` under the hypotheses above.

## 5. Not modelled

- The texts of prompts and answers, and the `strip` of an answer: no property
  tells one text from another beyond whose answer it is.
- Responses without end: `MaxReads` bounds the reads. A gateway that never stops
  sending holds a call for ever (see `wall_clock`).
- `close` of the store outside a process exit: the server never calls it.
- Redirect-URI validation and the lists of schemes and hosts (oauth.py:85-105,
  config.py:120-132, server.py:214-231): pure functions of one setting or one
  URI, without state or order. A property would restate their guards; the tests
  go through the cases.
- The growth of the refresh tokens and of their links (oauth.py:277): the code
  has no cap to check.
- `revoke_token`: the endpoint is disabled (server.py:304). The static bearer
  token: a comparison that changes no book.
- The text of the mint commands and of every message, beyond the setting it is
  about.
- CI and the Town documents: no program state. Of the deployment files only the
  restart policy is modelled.

## 6. Plan

Done, in this order: `JobTable`, `JobBridge`, its runs, `JobLifecycle` and the
refinement, the proofs of both; `TokenStore` and its proofs; `JobMemory`;
`GatewayCall` and its proofs; the wall clock and the pollers in `JobBridge`;
`Startup` and its proofs; `Grant`, implemented by `TokenStore`; `Executor` and
its proofs; the proofs of `JobMemory`; the proofs of what only faults and other
callers can break (`JobFaults_proofs`); `JobMemory` as a second implementation of
`JobLifecycle`; the proofs of the life cycle itself; the safety halves of the
liveness of `Executor` and `Startup`.

Next: the bearer path and scopes in `TokenStore`; a theorem that relates the
outcomes of `GatewayCall` to the steps `JobBridge` takes for them.
