# A TLA+ development of VeriLoad

VeriLoad is a load-testing toolkit in Python (`src/veriload/`).  Virtual users, each
with a persona of its own, run the tasks of a scenario against a target; the engine
starts them along a load profile, cleans up after them and reports metrics.  A run is
local, split over in-process workers, or distributed over worker processes that a
controller coordinates over TCP; an operator can drive the latter in Kubernetes.

This directory holds TLA+ modules of that program, the TLC configurations that check
them on small instances, and theorems about them that TLAPS checks for all values of
the constants.  Paths below are relative to `src/veriload/`.

## 1. The system

| Part | State | Operations | Hard behaviour |
| --- | --- | --- | --- |
| Networked controller, `distributed_network.py` | registered workers, their states, results, failures, metrics, custom messages; the events `_ready`, `_start`, `_done` | `run`, one `_handle_worker` task per connection, `_receive_worker_run` | handlers interleave; workers die, reconnect, are refused; a timeout races the last worker; nothing has a timeout after the start |
| Networked worker, `distributed_network.py` | its stream, run id, assignment | `run`, `_WorkerClusterBus.send` | the process can stop anywhere; the stream may end at every read |
| Protocol, `distributed_protocol.py` | none | signed, length-prefixed frames | frame limit applied by the reader only |
| Local engine, `engine.py` | tasks, spawn budget, cleanup summaries | profiles, `run`, `_run_user` | failing and finishing users, cancellation during teardown, stop file |
| In-process runner, `distributed.py` | one runner, allocator and sink per worker | split of personas, users and rates, merge of events and cleanup | all workers and users in one event loop; the first failure cancels the rest |
| Personas, `data.py` | allocator index | `generate`, `acquire`, `partition` | exhaustion, rounding |
| Users, `users.py` | stop flag | hooks, task choice, `retryable` | retries of half-done tasks, failing hooks |
| Auto cleanup, `cleanup.py` | actions, failures | register, `cleanup`, merge | a failing action, an interrupted cleanup |
| Database client, `protocols/database.py` | connection, transaction, pending flag | `execute`, `query`, `rollback_cleanup`, `aclose` | executor thread against event loop, rollback of the wrong thing |
| Model workloads, `model_workloads.py` | values | `insert`, `select` | registration after a fallible look-up |
| Fixtures, `fixtures/` | records | `create`, `cleanup` through OpenAPI, SQLModel and Django connectors | a failing delete loses the rest; parents before children |
| HTTP, websocket, gRPC clients, `protocols/` | client | one event per request | cleanup registered by response, lost answers |
| Metrics, SLO gate, comparison, `metrics.py`, `slo.py`, `compare.py` | events | summary, percentile, gates | empty inputs, boundaries |
| Config, `config.py`, `safety.py` | none | three layers merged and validated | a layer undoes another; contradictory limits |
| Run command, `cli_commands/core.py`, `runtime.py`, `reporting.py`, `replay.py` | sink, report files, exit code | assembly, run, reports, gates | what exit code 0 promises after a partial failure |
| Kubernetes operator, `k8s_operator/` | resources, status, finalizers | create/resume, update, delete | restart of the operator, drift |
| Other commands, importers, templates, dataset studio, bundles | files | conversions | input/output, sequential |

The controller and the workers exchange messages; a worker runs the local engine for
its partition; so does the in-process runner for each of its workers.  The engine calls
users, which call the clients and fixtures, which register cleanup actions with the
manager the engine runs at teardown and record events in a sink.  The run command
loads the config, builds the pool, starts the runner, and turns events and cleanup
summaries into reports and an exit code.

## 2. Modules

| Module | Models |
| --- | --- |
| `ClusterContract` | What a distributed run promises, without connections: forming, running, an outcome; partitions assigned at most once, completed at most once, all completed before an aggregate is returned. |
| `ClusterRun` | The controller, its handlers, the workers and the streams between them. |
| `ClusterRun_proofs` | The theorems about `ClusterRun`: types, assignment, results, the refinement of `ClusterContract`. |
| `MCClusterRun` | Small instances of `ClusterRun` for TLC. |
| `LocalRun` | The local engine: tick loop, users, allocator, cleanup manager, cancellation, stop file. |
| `LocalRun_proofs` | The theorems about `LocalRun`: concurrency, the spawn budget, the teardown. |
| `DbCleanup` | The database client of one user: statements, executor, transaction, insert tracking, model workloads, teardown. |
| `DbCleanup_proofs` | The theorems about `DbCleanup`: types, the executor's queue, rollback, deletion, rows of others. |
| `OperatorRun` | One `VeriLoadRun`: the handlers of the operator, restarts, failing calls, edits, deletion. |
| `OperatorRun_proofs` | The theorems about `OperatorRun`: types, the order of the children, deletion, tokens, edits. |
| `UserSession` | One user and its target: `retryable` tasks, the three clients, the fixture ledger, auto cleanup of HTTP responses. |
| `UserSession_proofs` | The theorems about `UserSession`: types, events, cancellation, the ledgers. |
| `RunMetrics` | Summaries, percentiles, SLO gate, merging of cleanup summaries, comparison of reports, as operators. |
| `PlanMath` | How personas and users are dealt out to workers and locales weighted, as operators. |
| `ConfigRules` | `load_config`: merging of the layers and all validation rules, as operators. |
| `Rules` | One application of each of these rules to every input within bounds, with what it is meant to compute. |
| `PlanMath_proofs` | Induction and folds without operator parameters; the theorems about the operators of `PlanMath` and `RunMetrics`. |
| `Rules_proofs` | The theorems about `Rules`, which extend those to what each rule computes, and those about `ConfigRules`. |
| `SplitRun` | The run command with its in-process workers, from the config to the exit code; composes `RunMetrics` and `PlanMath`. |
| `MCSplitRun` | The thresholds of `SplitRun` for TLC. |
| `SplitRun_proofs` | The theorems about `SplitRun`: types, personas, users, the aggregate, the exit code. |

The modules without an MC module have scalars and small sets for constants; a `.cfg` gives them values.

### `ClusterRun`

*State and code.* `ctl` is the position of `NetworkDistributedController.run`
(`waiting_ready` and `waiting_done` are its two awaits, `closing_*` the wait for the
server to close); `ready`, `start`, `done` are the asyncio events; `workers` with
`workerIndex` and `state` is `_workers`; `results`, `failures`, `recorded`, `customs`
are what the controller collects; `handler[w]` is the position of `_handle_worker` for
the connection of `w`; `up[w]`, `down[w]` are the bytes in flight; `wpc[w]` is the
position of the worker process.  A worker connects once in its life (so does the
code), hence a connection is named by its worker; a restarted process is another
worker with the same `NodeOf`.

*Steps.* The controller is one asyncio thread, so an action is what one task does up to
the next await that really waits for somebody else.  A handler's action covers the
read, the checks, the assignments and the writes; the `except` and `finally` clauses
are `HandlerFails` and `HandlerCloses`, part of the action that raises.  A failing read
is the end of a stream (`EOF`), reached when a worker dies having sent any prefix.

*Abstractions.* Messages are their types.  The 1-to-1 pairing of request and reply is
kept by the order in the queues.  Every write succeeds while the connection is open (a
write on a broken connection is seen as the end of the stream at the next read).
`heartbeat` and `run_failed` are left out: no worker sends them.  The batch of events
is one message because the worker sends exactly one, with sequence 1.  Partition
contents are not modelled here, only which partition goes to whom.

*Interpreter.* `async with self._server` awaits `Server.wait_closed()`.  On CPython
3.11 that returns at once after `close()`, from 3.12.1 on it waits for the open
connections.  Both are supported by the package, so the constant `WaitsForClients`
selects one; it is the only thing taken from outside the repository.

### `LocalRun`

*State and code.* `rpc`, `tick`, `started`, `budget`, `tasks` are the locals of
`LocalRunner.run`; a user is its `user_index`, `pc[u]` its position in `_run_user`,
`persona[u]` what the allocator gave it, `actions[u]` and `noted[u]` the lengths of
`_actions` and `_failures` of its cleanup manager, `todo[u]` and `failed[u]` the locals
of `cleanup()`, `reported[u]` the summary appended at the end.  `raising[u]` is the
exception on its way through the `finally` clauses.

*Steps.* `Tick` is one iteration of the loop up to its sleep: it collects the tasks
that are done, grants budget and creates users.  `GatherReturns` and `GatherRaises`
are the outcomes of the final `gather`; `RunnerFails` is the cancellation of all
remaining tasks by `asyncio.run`.  The actions of a user are the stretches between its
awaits: persona and set-up (the construction of the user and its clients, which may raise
outside every `finally`), hooks, one `run_once`, each cleanup action, each `aclose`.
`CancelledAt` delivers the cancellation at whatever await the user is at, so a user
can be cancelled inside its own teardown.

*Abstractions.* User code (hooks, tasks, cleanup actions, `aclose`) is the choice of
returning or raising, creating resources, and calling `stop`.  `on_stop` creates
nothing.  The float budget counts units of `1/Unit` user, so that rates may have a
fraction.  Profiles are their sequences of targets; a spike emits the points of a
soak, the step profile cannot be configured.  A failure of a user that ends before the
next tick leaves with its task when the loop drops tasks that are done: `outcome` keeps
it for the properties, the code does not.

### `DbCleanup`

*State and code.* `at[c]` is where a call of the user is in `execute`, `query` or
`SQLModelWorkload.insert`; `jobs` is the queue of the single-thread executor and
`reply[w]` what a coroutine that awaits it gets; `committed`, `tx`, `open` are database
and connection; `registered`, `pending`, `closed` the flags of the client; `actions`
and `todo` the cleanup manager.  `raced` is history that only the properties read: the tracked
inserts that were in flight, under rollback, when a committing statement passed the check of
`pending`.

*Steps.* `Call` is a call up to the hand-over to the executor, `RunJob` one statement
on the executor's thread (with commit or rollback), `Executed` and `LookedUp` the
continuation of the call after its await.  Between these, anything else may run: that is
where a flag that is read before the await and set after it goes stale.  `ShutDown`
blocks the event loop until the executor is empty, as `shutdown(wait=True)` does.

`strategy` is chosen once from `Strategies`: one run covers both.

*Abstractions.* A call inserts at most one row; two rows are told apart by who inserted
them, and `Twins` have the same values.  A tracked insert that cannot be parsed raises
before anything happens and is left out.

### `OperatorRun`

*State and code.* `op`, `body`, `todo` are the running handler, the spec it was given
and the resources or names its loop has still to go through; `child[c]` is the spec a
child was built from; `phase`, `drifted`, `finalizer` the parts of the object the
handlers patch; `pod[j]` whether the pods of a job run with the present token.  `retain` is
`artifacts.retain`, which an edit may change like any other part of the spec: the delete handler
reads it to leave the claim out of the names it deletes.

*Steps.* One API call each: `Apply` and `DeleteNext` are one iteration of
`_apply_resources` and `_delete_resources`.  `Crash` stops the operator between two
calls; `Start` makes kopf resume the object.

*Outside the repository.* The header of the module lists what is assumed of kopf and
Kubernetes.  Handlers of one object are serialised and tried again; an edit that reaches
the template of a job is refused, one of the config alone is not, so a job of another
spec may or may not be refused.  Nobody edits a run once it is being deleted.

### `UserSession`

*State and code.* `server` is what the target holds, `parent` and `origin` how it came
there; `records` is `_records` of `ModelFixtures`, `fixTodo` the list its `cleanup()` has
taken over; `actions`, `noted`, `todo`, `reported` are the cleanup manager as in `LocalRun`;
`attempt` is the attempt of `retryable`; `calls` and `events` count client calls and metric
events.

*Steps.* A call of a client with its answer is one action: it changes the target, leaves an
event, registers a cleanup action or notes a failure, and either returns, starts the next
attempt or leaves `run_once` with its exception.  A call may be refused (status 400 and up),
fail before it took effect or after (`lost`: the creator is never told), or be cancelled
likewise.  `ApiDelete`, `OrmDelete` and `AutoDelete` are one iteration of the clean-up loops;
the target refuses to delete what another resource refers to.

*Abstractions.* Any task may be chosen.  Payloads, headers and latencies are data.  ORM
deletions are those of SQLModel and Django alike: an exception leaves the loop.  An answer
below 400 without an identity is `anonymous`; for a fixture it becomes the identity `""`
(`None` here).

### `RunMetrics`, `PlanMath`, `ConfigRules`, `Rules`

Each operator is one function of the code.  An error rate is kept as its two counts and
compared by cross-multiplication.  The float arithmetic of `_percentile` and `_expand_locales`
is exact here; weights are integers.  A config document is a function from paths to typed
values; sections that only hold data for later (`cleanup`, `slo`, `scenario`) are left out.
A group of events is the set of their places in the run; `sorted()` is the list in which each
place has the latency of its rank.
`Rules` has one action per rule: it takes an input, applies the operators and rests; the
properties compare the result with a definition that does not mention ranks, remainders or
merging.  A comparison is given the events of its two runs, from which the reports it compares
are computed, so that what it finds can be held against the events.

### `SplitRun`

*State and code.* `phase` is where `run_command` is; `at[w]`, `tick`, `started`, `held` are
`LocalRunner.run` of worker `w`; `user[u]`, `persona[u]`, `outcome[u]`, `cleanups[u]` are what
`LocalRun` has in detail; `sink[w]` the events of a worker, `blocks` the sink of the run, to
which each worker's events are appended when it returns; `files` are the reports; `stop` is the
stop file.

*Steps.* As in `LocalRun`, with `RunRaises`, the cancellation of the other workers and of all
users by the first failure; then the reports one by one, any of which may fail, then
`Gates`, first cleanup, then SLOs.

*Abstractions.* How many users a tick starts is open between none and what is missing (the
budget is in `LocalRun`).  A user has no resources, its cleanup fails or not; one whose set-up
raises after it has its persona ends without a cleanup summary.  Loading, which may fail, is one
step.  The stop file appears at most once and stays.

## 3. Runs

| Run | Instance | Shows |
| --- | --- | --- |
| `cluster_join` | 3 workers, 2 slots, two workers share a node id, interpreter 3.11, fair | partitions are unique, the start barrier holds, a returned aggregate is complete; the run implements `ClusterContract`; it ends and its end reaches every worker |
| `cluster_ends` | 3 workers, 2 slots, a wrong token, an oversized batch, 3.12.1, fair | a failure of a started run is its outcome; a run in which nothing fails returns |
| `cluster_timeout` | 2 workers, 2 slots, 3.12.1, fair | violated (section 6) |
| `local_users` | 2 users with 2 resources held for 3 ticks, rate 3/2, 2 personas, user 0 flaky, stop file, fair | load and rate are never exceeded, no tick starts a burst; no failure cuts the teardown of the user it meets; a run that returns has waited for every user and reports every cleanup problem; the stop file and a failure end all users |
| `db_cleanup` | 3 calls of any kind, statements and actions that fail, a row of others with equal values, fair; calls overlap, under `rollback` a cancellation may come at any point | no row stays behind unless the summary says so; rows of others survive; a row to be rolled back is visible only if its insert raced with a statement that commits; the connection is closed; the teardown ends |
| `db_workload` | 2 calls, strategy rollback | violated (section 6) |
| `user_session` | 2 attempts, 2 calls, 3 resources that may refer to one another, one cancellation, fair | no silent leak; children are deleted before their parents; every call is counted once, no cleanup is; a cancelled user makes no further attempt and ends |
| `split_run` | 1 or 2 workers, 2 users, 2 ticks, 3 personas, 2 events, 1 troubled user, 2 reports, stop file, fair | personas are disjoint over workers; the aggregate holds every event once; exit code 0 is deserved; no user outlives the command; the command ends, or awaits a user that never stops |
| `rules` | see below | the rules of `RunMetrics`, `PlanMath`, `ConfigRules` compute what they are meant to |
| `config_token` | one variable | violated (section 6) |
| `operator_restart` | 2 restarts, 1 failing call, 1 edit, artifacts retained or not, deletion, finalizer removed by hand, fair | no job before what it mounts; a handled deletion is complete and keeps what is to be retained; edits and late pods do not disturb a run applied once; retained artifacts go with the run only; the children come to exist |
| `operator_delete` | deletion, fair | violated (section 6) |

No run checks a `TypeOK`: it is proved for each state machine but `Rules`, which has only
inputs and results (section 4).

*Bounds of `ClusterRun`.* Two slots are the least for which registration order, barrier
and "last result" differ; the third worker supplies the surplus, the duplicate and the
replacement.  `MaxCustom = 1` suffices to lose or delay a custom message.  Everything
else is finite by itself: a worker connects once and sends one batch.

*Bounds of `LocalRun`.* `MaxResources` bounds what a user creates.  Two users at a time
and more than one tick let a user leave and be replaced; two personas let the pool run out
with a user alive.  Two resources let a cleanup fail at its first action and be
cancelled at its second.

*Bounds of `DbCleanup`.* `Calls`: the flags of the client take three calls to be set,
tested and misused (insert, statement that fails, insert).
The preconditions of the properties are the cases in which the code does not keep the
promise (section 6): `abandoned` (calls left running by a failed sibling), `Twins`, a
failed look-up, `raced`.  `Overlap` and `MayCancel` are sets of strategies: calls overlap under
both, a cancellation is there with the strategy whose promise is made for it.  With 3,087,125
states this is the largest run; it ends in less than three minutes.

*Bounds of `OperatorRun`.* `MaxSpec`, `MaxRestarts`, `MaxFailures`: two restarts allow
one inside the recovery from another.

*Bounds of `UserSession`.* `MaxRes`, `MaxCalls` (client calls of the tasks; deletions are not
bounded), `MaxAttempts`.  Two calls in two attempts let a task be retried after half of it
was done, with a child in the second attempt of a parent in the first; creations through the
ORM are no client calls and reach the third resource.

*Bounds of `SplitRun`.* `MaxWorkers`, `Users`, `Pool`, `Ticks`, `MaxEvents`, `MaxTroubled`.
Two workers with two users have one each, so that a worker's user is replaced in the second
tick while the other worker is done or failing; of three personas one worker has one, which
the replacement exhausts.  Two events, of two users or of one, can be lost or doubled.
`MaxTroubled = 1`: one user that raises, in its set-up, its tasks or its teardown, or whose
cleanup fails, is enough to fail a run while the others are at work; users that find no persona
are not counted.

*Bounds of `Rules`.* `MaxEvents = 21`: up to 19 events the 95th percentile is the maximum,
with 20 its rank is a whole number below it, with 21 it is rounded up again.  `MaxPool = 7` with
`MaxWorkers = 4` has every remainder; `MaxWeight = 4` over three locales rounds in both
directions; `MaxVariables = 2`, in either order, with one override, has every pair of layers
and sections in conflict.

*Deadlock* is checked except in `OperatorRun`, where a run that nobody edits or deletes
rests, and in `cluster_ends` and `cluster_timeout`, where the code may really stop: in
the timeout that does not surface (section 6).

*Fairness of `ClusterRun`.* Weak fairness on the run task, on each handler and on each
worker's own steps: the event loop runs every ready task, a timer fires, a live process goes on.
`WorkerFails`, `SendCustom` have none.  Fairness of `SendMetricBatch` says that the
users of a partition stop, which is up to the scenario: without it a run may go on for
ever, as the code has no limit on it.

*Fairness of `LocalRun`.* The runner goes on; a user's coroutine goes on, that is hooks
and tasks return or raise and clients close.  Nothing says that a user ever stops: the
stop file must do.

*Fairness of `DbCleanup`.* The executor runs what is queued, a coroutine whose statement
has come back goes on.  `Call` has none: the user may stop calling.

*Fairness of `OperatorRun`.* kopf calls handlers that are due, a stopped operator is
started again, a started pod ends; failures are finitely many by `MaxFailures`.

*Fairness of `UserSession`.* Deletions are answered or fail (the clients have timeouts);
tasks have no fairness, a user may stay in them.

*Fairness of `SplitRun`.* The event loop resumes some task of each kind that can go on: the
command, the workers, a user that has not begun or is cancelled.  A user that is at work has
fairness only once the stop file is there: nothing else makes it end (`engine.py:210`), so
`CommandEnds` says that the command ends or awaits for ever a user that goes on.  `Emit`,
`StopFileAppears` and an `End` without the stop file have none.

## 4. Proofs

Every invariant a passing run checks is also a theorem, for every value of the constants, and
so are the action properties and the refinement of `ClusterContract`.  The theorems assume the
named assumptions on the constants and nothing else.

### `ClusterRun_proofs`

For any finite set of workers, any number of slots, any tokens and either interpreter:

* `TypeCorrect`: `Spec => []TypeOK`.
* `AssignCorrect`: `Spec => []AssignInv`, the inductive invariant of assignment.  `SlotsInv`:
  the registered workers hold exactly the indices `0 .. Cardinality(workers) - 1`, each
  once, and are at most `Expect`.  `HandlerInv`: a handler past the hello belongs to a
  registered worker, one past the barrier to a ready one of a started run.
  `BarrierInv`: `ready` and `start` imply that all `Expect` workers are registered and
  synchronised.  `AssignmentInv`: an assignment in the stream or received is that of
  the worker's own slot in a started run.
* `UniquePartitionHolds` and `StartBarrierHolds` follow from it.  Neither property is
  inductive: that partitions differ needs that indices do, which needs that `_workers` never
  shrinks and that its size is the next index; that the barrier holds for a received partition
  needs it for assignments in flight.
* `ResultsCorrect`: `Spec => []ResultsInv`, and from it `CompleteAggregateHolds`.  A result says
  that the summary was read; that the batch and the custom messages were read before is a fact
  about the order of the stream.  `UpInv` gives, for each position of the worker, the position of
  its handler and the exact shape of what is in flight, so that the counts at both ends agree
  (`customs[w] + Len(up[w]) = sent[w]`); `TransitInv` follows the acknowledgement back.  The
  invariant of one connection is kept by each step of its own worker or handler and untouched by
  all others (`OthersQuiet`).
* `ContractImplemented`: `Spec => ImplementsContract`.  `ContractOfWorker` and `ContractOfRun` take
  the actions one by one: reading an assignment is the contract's assignment (fresh, by
  `UniquePartition`), an accepted summary is a completion (of an assigned partition, by
  `ResultInv`), the steps of `run()` change the phase, everything else stutters.  `OutcomeInv`
  supplies what the contract asks of a returned run.

### `LocalRun_proofs`

For every profile, number of users, rate, pool and set of flaky users, `IInv` is inductive, and
from it

* `TypeCorrect` and `ConcurrencyBoundHolds`: at most `Users` users are alive;
* `StartsPaidHolds`, `NoBurstHolds`: with a spawn rate, what was started and what is
  saved never exceed what the ticks so far have paid, nor one tick the burst limit;
* `CleanupSurvivesFailureHolds`, `NothingLeftBehindHolds`: outside a failed run no user
  ends with actions it has not attempted; a run that returns has waited for all users
  and reports every cleanup problem.

Why `IInv` is needed: `ConcurrencyBound` is about the users that live, while the code
counts the tasks it holds on to that are not done; `TasksInv` says that these are the
same (no live user is ever dropped from `tasks`, indices are used in order).
`NothingLeftBehind` is about the summary; `TeardownInv` follows each cleanup problem
from `noted` through `failed` to `reported` and `actions` through `todo` to nothing at
each position of `_run_user`.  `CancelInv` confines cancellation to failed runs, the one
case in which actions are lost.  `StartedInv` gives the index of a new
user a place in `User`.

### `DbCleanup_proofs`

For every set of calls, either strategy, any failing statements and cancellations:

* `TypeCorrect`, and `UserCorrect`: `Spec => []UserInv`.  `QueueInv` says of every statement in
  the executor's queue who awaits it and at which position, and that nobody awaits two;
  `TeardownInv`, that no call is in flight once the tasks are over; `ClosedInv`, that the
  connection stays closed behind `aclose`.
* `ConnectionClosedHolds` is `ClosedInv` at the end.  It needs the queue: a statement that is
  still there would open the connection again.
* `OthersSurviveHolds`, from `OthersInv`: no statement in the queue, no action registered or left
  and no row that a look-up has found names the row of others, unless a twin was inserted.
* `RollbackNeverCommitsHolds`, from `RollbackInv`: while the tasks run, an uncommitted tracked row
  means that the pending flag is set or that the call whose statement inserted it has come back
  and not gone on yet (`InsertsPend`); a committing statement in the queue meets no tracked row,
  neither one that is already there nor one of an insert queued before it, but those that have
  raced with it (`JobsRollBack`).  Calls may overlap in any way: what the guard lets through is
  exactly what `raced` has.
* `CleanExitHolds`, from `CleanInv`: a row that its call owes a deletion has one coming, from a
  call about to register it, a look-up that will find it, a registered action, or an action of
  the teardown that has not succeeded yet (`Scheduled`).

### `OperatorRun_proofs`

For every number of edits, restarts and failing calls and every kind of run:

* `TypeCorrect`, with `BusyInv`: a handler at work has a call left to make.
* `RunCorrect`: `Spec => []RunInv`.  `Rank` is the order of the children, and the lists of
  `_apply_resources` are in that order (`DesiredInOrder`), whatever a run consists of.
  `InputsInv`: what is to be applied is there or still on the list, so that an ordered list whose
  head is a job has no input left (`InputsFirstHolds`).  `DeleteInv`: what is to go is gone or still
  on the list; `ClaimInv`: the claim of a run that was applied is there, but in a deletion
  that is not to retain it (`DeleteIsCompleteHolds`).  `OnceInv`: without restart and failure, the list of the
  one apply holds only children that are not there, the token before any pod
  (`TokensAgreeHolds`, `SpecFrozenHolds`).
* `ArtifactsRetainedHolds`: a claim to be retained is on no list that deletes.

None of the properties is inductive: each speaks of what is there, and every step acts on what is
left of a list that an earlier step, possibly before a restart, has made.

### `UserSession_proofs`

For any number of resources, calls and attempts, with and without auto cleanup:

* `TypeCorrect`, which says in particular that nothing is on the target, lost or registered that
  was not created; `EventsAreCallsHolds`, which is inductive.
* `CancelStopsTasks`, the safety half of `CancelIsFinal`; it needs `PlaceInv`, which says where a
  cancelled user may be.
* `SessionCorrect`: `PlaceInv`, `OrderInv` and `LeakInv` are inductive together.  `OrderInv`: a
  resource is younger than what it refers to, and all ledgers are in the order of creation
  (reversed while they are worked off), answers without an identity left aside; from it
  `ChildrenFirstHolds`.  `LeakInv`: as long as no failure is noted, everything that is on the target and was
  acknowledged is on the ledger of the manager that has to delete it, or on what that manager
  has taken over; from it `NoSilentLeakHolds`.

### `SplitRun_proofs`

For any number of workers, users, personas, ticks and events:

* `TypeCorrect`.  That a worker's user indices stay in `User` needs `StartedInv`,
  `started[w] <= Users * (tick[w] - 1)`, and the lemma `TargetBound` on the split of the users.
* `PersonasDisjoint`: `Spec => []DisjointPersonas`.  The allocators of the workers do not
  know of each other; `Shares` says that each persona is from the share of its worker
  (`index % workers`), so that two users with the same persona have the same worker, whose
  allocator never gives it twice.
* `NobodyLeftHolds` (and its second half alone, `NobodyAfterTheEnd`).  `LiveInv` ties every
  live user to a worker that holds it and has not returned; `HeldInv` bounds what a worker holds by
  its target; that the targets add up to `Users` is a theorem of `PlanMath_proofs`, carried over
  to the union of what the workers hold by an induction over workers.
* `AggregateIsWholeHolds`, from `WholeInv`: the blocks of the merged sink are the sinks of the
  workers that have returned, each once (`MergedOnce`), with events of their own users only
  (`OwnEvents`).  The sink is the fold of the blocks; `ListedProperties` says that the fold of
  disjoint blocks lists every element of their union once.
* `ZeroMeansGoodHolds`.  `FateInv` follows a user from its creation to its end: a persona means a
  cleanup summary, an error or a cancellation, a cancellation means a failed run, a worker that returned had
  only users that ended well.  The gate looks at sums; `ZeroSum` turns a sum of failures that is 0
  into a 0 for each summary, the SLO arithmetic is that of `_error_rate`.

### `PlanMath_proofs` and `Rules_proofs`

The library's induction principles take an operator as a parameter, which the installed provers
cannot instantiate.  `PlanMath_proofs` starts with principles that take a *set* instead
(`MinimalSubset`, `SubsetInduction`, `IntervalInduction`, `RemovalInduction`), derived from the
well-foundedness of strict inclusion on a finite set, and with what the folds of the community
modules go through (`FoldExists`, `AppendedProperties`, `PartialSums`, `ListedSteps`,
`FlattenSteps`, `TotalSteps`): a recursion by `CHOOSE` has a solution, and on finite sets no other.
From these it proves, for all numbers,

* `DealtOutOnceHolds`, `TargetsAddUpHolds`, `ShareSufficesHolds`: personas and users are dealt out
  completely, once, and a worker's share of personas suffices for its users if the pool has one
  for every user, although one is split by residues and the other by quotient and remainder;
* `LocalesFair`: the list of `_expand_locales` has the size of the pool, and a locale gets its
  exact share rounded up or down.  The invariant of its loop, `NearShares`, says that no count is a
  whole persona away from its share, which the bump of the locale that misses most keeps
  (`BestAdded`) because the total of what is missing is positive until the end;
* of `RunMetrics`: `PercentileCounts`, that a percentile is within a limit exactly if that share of
  the requests is (sorting is by rank, `OrderedCounts`); `GateKeeps`, `WorseIsBetter`,
  `CountedByName`.

`Rules_proofs` takes these to the properties of `Rules`.  A behaviour of `Rules` is one step, so its
invariants (`Loaded`, `Planned`, `Judged`, `Compared`) only say which input and result belong
together; the work is in the operators:

* `NoLayerEscapesSafetyHolds`, `LayersInOrderHolds`, for any number of variables and overrides: the
  layer of a list of settings is a fold of `SetNested` (`LayerIs`), which keeps documents in which no
  path leads through another (`Docs`), and so does `DeepMerge`; the last setting of a free path
  decides it;
* `PlanIsFairHolds`, `SummaryCountsHolds`, `GateCountsHolds`;
* `ComparisonIsFairHolds`: `EnoughMeans` makes the 95th percentile of a scope, an empty one
  included, the least limit that 95 percent of its requests keep, so that one percentile exceeds
  the other by more than the allowance exactly if some limit tells the runs apart (`SlowerMeans`);
  `FailsMoreMeans` does the same for the error rates.

### What is only model-checked

Liveness under fairness, which the prover does not reach: `EverybodyEnds`, `FailureSurfaces`,
`GoodRunReturns`, `StopFileEndsRun`, `TeardownEnds`, the second half of `CancelIsFinal`,
`CommandEnds`, `Prepared`.  The runs also show what no proof of an
invariant does: that the cases it speaks of happen.

## 5. Not modelled

Generators and converters keep no state that several steps share: importers, templates, the
dataset studio, the report collector, the manifest generator, CRD and report layout, what a
generated persona holds, the archive of a bundle.  Encoding and signing of frames are
abstracted to whether a message is accepted.

Left out of parts that are modelled:

* the ORM workload of `model_workloads.py`, one synchronous call, and the extraction of
  metadata from models;
* `StepProfile`, which no config can ask for; the persona modes other than `unique`, which
  no config reaches; the in-process message bus, which no runner uses;
* the networked command, which writes trace and replay files without events
  (`cli_commands/distributed.py:68-79`);
* replay, a pure function from the events of a run to a manifest and a plan: of it `SplitRun` has
  only that the file of the manifest is written, or not, like the other reports;
* the rules of the sections `cleanup`, `slo` and `scenario` of a config, and a database in
  the place of `base_url`;
* how fixtures are put together from several connectors, and the opening of clients.

## 6. Disagreements found

Four are runs that TLC must find violated; `PROJECT.json` quotes the lines.

| Run | Property | What happens |
| --- | --- | --- |
| `cluster_timeout` | `TimeoutSurfaces` | With an interpreter whose `wait_closed` waits for clients, the `TimeoutError` of `distributed_network.py:150` does not leave `run()` while a synchronised worker waits at the barrier (`:214`): the server waits for its connection before `_close_workers` (`:154`) is reached, the handler for `_start`, which nobody sets. |
| `db_workload` | `WorkloadsRollBack` | A workload insert into a table that is not configured does not set the pending flag (`database.py:154`); the next statement commits it. |
| `operator_delete` | `DeletionEnds` | Nobody removes the finalizer of `handlers.py:138`. |
| `config_token` | `TokenVariableHarmless` | The documented variable of the cluster token, `VERILOAD_CLUSTER_TOKEN`, is also read as the config key `cluster_token` (`config.py:278`), which no config allows: where it is exported, no config loads. |

Others appear in the models as exceptions of the properties that hold, or were met while
modelling:

* `ClusterRun`: a late or surplus worker that is rejected after the start fails a healthy run
  (`distributed_network.py:184`); the premise of `GoodRunReturns` excludes it.
* `LocalRun`: a user that another user's failure cancels inside its cleanup loses the actions
  `cleanup()` had taken over (`CleanupSurvivesFailure` is about runs that have not failed).
  With `tick_seconds: 0` a ramp starts nobody.  A failure of a user that is done before the
  next tick is dropped with its task.  If closing the HTTP client raises, the database client
  stays open.
* `DbCleanup`: a statement called while a tracked insert is in flight passes the check of
  `database.py:157` and commits it, although line 158 says that it cannot (`raced`).  A cancellation between the
  commit of a tracked insert and its registration (`database.py:143`) loses the row.  A call
  left running by a failed sibling reopens the connection between the close and the end of
  `aclose` (`abandoned`).  A workload whose look-up fails has a row that was never registered
  (`Excepted`).  A DELETE by values removes equal rows of others (`Twins`).  After a failed
  statement has rolled back, the pending flag stays set (`database.py:154`) and later
  statements are refused.
* `SplitRun`: src/README.md:156-157 has a user run tasks "until the user stops or the profile
  drains", but its loop asks for its own flag and the stop file only (`engine.py:210`): where no
  user stops by itself, the run awaits its users for ever once the profile has drained
  (`AwaitsUser` in `CommandEnds`).
* `UserSession`: the status of a fixture's delete is not looked at, a refused one counts as
  done; an answer without an identity is recorded as `""`; a resource that its fixture has
  deleted is deleted again by auto cleanup, and the 404 may fail a good run.
* `Rules`: an SLO endpoint nobody called passes, an endpoint that is gone from a report
  cannot regress.
* `OperatorRun`: resuming or retrying a run replaces its token and, after an edit, its
  config, under the pods at work (`AppliedOnce`).  Drift is reported only in phases that
  no handler sets (`StartedPhases`).  No handler applies `cleanupPolicy`.  The retained
  claim is collected with its owner (`ArtifactsRetained`).

## 7. Plan

Done: every component of section 1 that keeps state, and a theorem for every invariant, action
property and refinement that a passing run checks.  Left, in this order:

1. `LocalRun` and `SplitRun`: an abstract teardown of one user that both implement, so that the
   summary `SplitRun` chooses for a user is one that `LocalRun` can compute.
2. The safety half of the liveness properties: in each model, that a state in which the parties
   named by the fairness have no step is an end (their guards written out, since `ENABLED` is out
   of the prover's reach).
3. `LocalRun`: the spawn budget of a rate that is not a multiple of `1/Unit`, rounded as floats are.
