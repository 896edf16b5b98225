# rag-eval-service: TLA+ models, checks and proofs

This directory holds the formal model of rag-eval-service: TLA+ modules
translated from `src/app/`, TLC configurations that check them on small
instances, and TLAPS proofs that hold for every value of the constants.
`PROJECT.json` is the machine-readable index: components, runs, mutants, the map
from definitions to source lines, findings, hazards and theorems.

## 1. The system

The service evaluates answers of retrieval-augmented generation systems.
A client posts an input; an LLM-backed evaluator (Ragas metrics) returns scores.
An evaluation takes seconds to minutes, so besides the synchronous endpoints
there are two asynchronous tiers that share one job store:

```
            POST /v1/eval/.../async              POST /v2/eval/...
                    |                                   |
        create_job  |                       create_job  |
   +--------------- API ---------------+--------------- API ------------+
   |                | task.delay       |                | publish       |
   |                v                  |                v               |
   |        Redis broker (Celery)      |       Kafka topic eval.requested
   |                | late ack, retry  |                | auto-commit   |
   |                v                  v                v               |
   |         Celery workers         Redis         eval_worker pods      |
   |                | update_job  job store             | update_job    |
   |                +----------->  job:<id>  <----------+               |
   |                                   ^                | publish       |
   +--- GET /jobs/{id} ----------------+                v               |
                                               eval.completed / eval.failed
```

### Inventory

| Component | State | Operations | Hard part | Correct when |
|---|---|---|---|---|
| Job store (`infra/jobs/redis_job_store.py`) | one JSON document with a TTL per job | `create_job`, `get_job`, `update_job` | `update_job` is GET, await, SET of the whole document | a reader never sees a document whose fields contradict its status |
| Polling API (`api/v1/jobs_router.py`, `api/v2/jobs_router.py`) | none | GET job, 404 | the id outlives the document | the contract of `JobContract` |
| v1 tier (`api/v1/eval_router.py`, `workers/celery_app.py`, `workers/tasks/eval_tasks.py`) | broker queue, unacknowledged messages, retry counts | dispatch, run, retry, acknowledge | lost workers, redelivery, several attempts of one job at once | no accepted task lost, retries bounded, every task ends |
| v2 tier (`api/v2/eval_router.py`, `infra/event_bus/kafka.py`, `workers/eval_worker.py`) | topic, offsets, partition assignment, status events | publish, poll, handle, commit | auto-commit, eviction, failing publish | events and store agree; every accepted job is reported |
| Workflow definitions (`domain/workflows/*`) | a definition: steps and edges | validate, order, create, dry run | cycles, unreachable steps, duplicate ids | the validator accepts exactly the definitions that can be ordered and reached |
| Workflow nodes (`domain/workflows/nodes/*`) | none | split, embed, retrieve, rerank, guard | what counts towards the size of a chunk | chunks are bounded and lose no text |
| Evaluation service, Ragas adapter, metric catalogue | none | check names and inputs, build metrics, judge, report | when a request is refused; scores that are dropped | a refusal costs nothing where it can; event and result agree |
| Evaluate-answer use case, in-process buses | event streams | evaluate, publish | publication inside the `try` of the evaluation | the caller and the events hear the same verdict |
| Classification metrics (`utils/evaluation_metrics.py`) | none | count, divide, report | zero denominators | counts, distributions and ratios agree |
| API keys (`core/security/api_key_service.py`) | key repository and cache | create, validate, revoke | cache written after an await | a revoked or expired key stays out |
| Tokens, user administration (`jwt_service.py`, `api/deps/auth.py`, `auth_router.py`, `admin_router.py`) | in-memory users; tokens that clients hold | login, refresh, create, update, reset, delete | tokens outlive what they were issued for; uniqueness by a scan | changes are authorized, logins unambiguous, sessions lapse |
| Pagination (`api/deps/pagination.py`) | none | pages, sort fields | zero items, exact multiples | the pages partition the items |
| Application lifespan, middleware (`main.py`, `core/middleware/*`, `core/config/exceptions.py`) | connections; the state of a request | start, stop, wrap a request | order of the stack; a step that raises | every request is answered with its ids and audited; nothing stays open without a reason |
| Settings, flags, logging, tracing | configuration | read | - | - |

The components interact through the job store (shared by both tiers and the
polling API), the Celery broker, and the Kafka topics. There are no locks: all
exclusion comes from who holds a message.

### What is hard here

`PROJECT.json` lists each hazard at its line. The main groups:

- **Two attempts of one job at once.** v1: a worker lost between `self.retry`
  and the acknowledgement, or a visibility timeout that passes during an
  evaluation. v2: an evicted pod that goes on with its message. Both attempts
  read, merge and write the same document.
- **Expiry against updates.** A key can expire during an evaluation (the final
  update is dropped) or between the GET and the SET of one update (the SET
  brings the job back).
- **One of several steps failing.** `create_job` done and dispatch failed; the
  "completed" update applied and its reply lost; the result stored and its event
  not published.
- **Acknowledgement order.** v1 acknowledges after the task; v2 commits offsets
  in the background whatever the handler does.
- **Layers that overwrite each other.** Ten layers wrap every request; three of
  them write the id headers, two resolve the tenant, and an exception skips what
  a layer does to a response.
- **Credentials that outlive their ground.** Cached API keys, tokens of users
  that were deleted or changed, a token type nobody looks at.

## 2. Modules

| Module | Models |
|---|---|
| `JobStore` | the job store: documents, TTLs, both halves of `update_job` |
| `JobContract` | abstract specification: what a poller of a job id may see over time |
| `CeleryEval` | the v1 tier over `JobStore` |
| `KafkaEval` | the v2 tier over `JobStore` |
| `Workflow` | the validation of one workflow definition, from input to answer |
| `Requests` | one API process: its lifespan, and a request's way through the middleware stack |
| `ApiKeys` | the API key service: repository, cache, concurrent validations and revocations |
| `Accounts` | users, logins, tokens and the permission check |
| `Evaluation` | a synchronous evaluation: service, use case, Ragas adapter, events |
| `Classification` | the classification report |
| `Chunking` | the text splitter node |
| `Pagination` | page arithmetic and a client that walks the pages |
| `MCCelery`, `MCKafka`, `MCWorkflow`, `MCRequests`, `MCSecurity`, `MCCalls` | the instances for TLC, with their symmetry sets |
| `JobStoreProofs` | lemmas on the store's operations, used by both tiers' proofs |
| `CeleryEvalProofs`, `KafkaEvalProofs`, `WorkflowProofs` | the theorems on the module of that name |
| `RequestsProofs`, `SecurityProofs` | the theorems on `Requests`, on `ApiKeys` and `Accounts` |
| `CallsProofs`, `EvaluationProofs` | the theorems on `Chunking` and `Pagination`, on `Evaluation` and `Classification` |

Each tier EXTENDS `JobStore`, so the composition of API, broker, workers, store
and clock is one state machine, and its refinement of `JobContract` is stated
once (`JobStore!ImplementsContract`).

### JobStore

| Variable or action | Code |
|---|---|
| `store[j]`, `ttl[j]` | the value and the TTL of key `job:<id>` |
| `snap[w]` | `data` in `update_job`, between the GET and the SET |
| `issued[j]` | history variable: the type `create_job` was called with |
| `create_job`, `get_job` | the functions of that name |
| `UpdateGet`, `UpdateMissing`, `UpdateSet` | `update_job`: GET; `if not raw: return`; merge and SET with `ex=` |
| `UpdateError` | a Redis call raises; a failed SET may have been applied |
| `DropSnap`, `Tick` | external: a process dies; Redis expires keys |

A document is its type, its status and the set of optional fields that are not
`None`. `update_job` never sets a field to `None`, so nothing else is visible to
a property. `Patch` holds the arguments of the three update calls that workers
make; they are the same in both tiers.

### CeleryEval (v1)

`Submit` is the async endpoint: `CreateJob`, then `Dispatch` or `DispatchFails`.
A worker goes through `phase`: `start` (the "running" update), `eval`, `done` or
`fail` (the second update), `retry`, `ack`. `AfterUpdate` and `AfterError` are
the control flow of the two nested `try` blocks: where the task goes when the
update of a phase returns or raises. The two tasks differ only in the service
method they call, so one set of actions stands for both.

External behaviour, modelled from the configuration the code sets:
`task_acks_late` (`Receive` leaves the message unacknowledged, `Ack` removes it),
`task_reject_on_worker_lost` (`Redeliver`), the broker's visibility timeout
(`VisibilityTimeout`; the message keeps its delivery tag, so the first worker's
late acknowledgement does not remove it once it is back on the queue), and
`self.retry`, which publishes the next attempt before the current message is
acknowledged, raises the task's error when the retries are used up, and rejects
when the broker refuses the message (`GiveUp`).

### KafkaEval (v2)

`Submit` is the endpoint, with the 503 of an instance without Kafka. `Poll`
hands a message to a pod and moves its `position`; `AutoCommit` copies the
position to `committed` at any time; `Rebalance` moves a partition in an orderly
way (commit, then revoke), `Evict` takes a pod's partitions away without a
commit while it goes on, `Crash` kills a pod. In `_handle`, a publish that raises
in `pub_done` leads to the handler of the evaluation's exceptions, as in the
code; an exception of the "running" update or of the handler itself ends the
main loop, and `Stop` is its `finally`: `consumer.stop()` commits what was
delivered, and the pod is started again.

### JobContract

The contract keeps only what a client can poll. It says that a job is pending
once and never again, that nothing ends that was not started, that every status
comes with its fields, and that the type never changes. It leaves open, because
the code does, that an ended job may be running again, and that an expired job
may reappear.

### Workflow

| Variable or action | Code |
|---|---|
| `steps`, `edges` | the definition: step ids, repetitions allowed, and edges |
| `ModelValidate` | `WorkflowDefinition.model_validate`, with the key `steps` given or not |
| `ValidateSteps`, `ConfigRaises`, `ValidateEdges` | `_validate_steps`, a `validate_config` that raises, `_validate_edges` |
| `Visit`, `Extend`, `SearchEnds` | the loop of `_get_reachable_steps`, and what `_validate_connectivity` does with it |
| `SeedStep`, `SeedEnds`, `Pop`, `Follow`, `SortEnds` | `get_step_order`: the initial queue, the loop, the comparison of lengths |
| `Answer` | `create_workflow`, `validate_workflow`, `get_workflow_dry_run_result` |

A definition is fixed in the initial state and the calls are sequential, so the
interest is in the algorithms: each iteration is a step, and what they report is
compared with references that search nothing (a set of steps each of which has
a predecessor in the set; the least set closed under the edges). What the
registry and the nodes' `validate_config` report is a choice; a config of
unexpected types makes `validate_config` raise, and the exception leaves the
validator. Two properties of the code that the models state as they are: a
repeated id is also reported as a cycle, and a definition without edges is not
checked for connectivity.

### Requests

| Variable or action | Code |
|---|---|
| `phase`, `pool`, `producer`, `publisher` | where `lifespan` is; `redis_client._pool`; `KafkaPublisher._producer`; `app.state.kafka_publisher` |
| `init_redis_pool`, `KafkaPublisher`, `StartKafka`, `KafkaDisabled`, `close_redis_pool`, `StopKafka` | the steps of `lifespan`, each of which may raise |
| `Stack`, `depth`, `way` | the layers of `add_middlewares`, outermost first; how deep a request is, and whether it goes in, comes out with a response or with an exception |
| `state` | `request.state` |
| one action per layer | the `dispatch` of the middleware class of that name, before and after `call_next` |
| `Endpoint` | dependencies (token, permission, tenant) and the handler: a refusal, a result or any exception |
| `ExceptionHandlers` | `register_exception_handlers` |

The stack is what Starlette makes of the code: the layer added last is outermost,
so errors are caught inside the audit layer, and the ids are set outside the
logging layer, which writes the correlation id into both headers. Requests share
nothing but the resources, and the server drains them before shutdown, so one at
a time is enough. `ReleasedUnlessRaised` says exactly what stays open: when the
constructor of `KafkaPublisher` (aiokafka is not installed) or of
`AIOKafkaProducer` raises, the pool alone; when the producer's own start raises,
the pool and the half-started producer; when closing the pool raises, the
publisher as well.

### ApiKeys and Accounts

`validate_key` is cut at its awaits: the cache (`validate_key`), the repository's
answer (`get_by_key_hash`), the write to the cache (`CheckFetched`), the update of
the last use. `revoke_key` is cut likewise. A validation that has read the row as
active when a revocation returns puts the revoked key back into the cache, where
it stays until it expires; `RevokedStaysOut` says that this is the only way: a
revocation that no such validation overlaps is final (`settled` is the history
variable for it).

In `Accounts` every handler is one step, since none awaits anything between its
reads and its writes. Tokens are what clients hold; they are checked for their
signature and their expiry only. A refresh gives the fixed claims of the
administrator whoever the token belongs to (`auth_router.py:196-202`), and asks
neither for the user nor for its permissions; the properties say what holds
nevertheless.

### Evaluation, Classification, Chunking, Pagination

The calls without shared state. `Evaluation` follows one call from its arguments
to its result or exception: names, imports, the messages (multi-turn), one metric
object (single-turn) or one judged metric (multi-turn) per step, the event, and,
for the use case, the handler that publishes the failed event. The outcome
`Refused` is a `ValueError` of the adapter itself; an exception out of the judge or
of `float()`, a `ValueError` too, is a `JudgeError`. `Classification` keeps ratios exact.
`Chunking` numbers the characters of the text, so that a chunk is a set of
positions: the piece of text the loop carries is always an interval, its end
being what is put after it. Separators differ in their length and in what
`strip()` leaves of them; a separator `""`, which `str.split` refuses, is left
out. `Pagination` is a client that asks for pages until `has_next` is false.

## 3. Runs

| Run | Bounds | Shows |
|---|---|---|
| `celery_faults` | 1 job, 2 workers, 4 tags, TTL 2, 1 retry, 1 crash, 1 visibility timeout, 1 Redis error | `TypeOK`, `RecordCoherent`, `NoLostTask`, `RetryBound`, `QuietIsTerminal`, `CompletedIsFinal`, `ImplementsContract` |
| `celery_live` | 1 job, 2 workers, 3 tags, 1 crash, 1 Redis error, fairness | `EventuallyEnds` |
| `celery_expiry` | as above, no fault | refutes `NoExpiryMidFlight` |
| `kafka_faults` | 1 job, 2 pods, 1 partition, one fault of each of five kinds | `TypeOK`, `RecordCoherent`, `CompletedEventHasResult`, `EventsAgree`, `ImplementsContract` |
| `kafka_live` | 2 jobs, 2 pods, 1 rebalance, fairness | `EventuallyReported` |
| `kafka_loss` | 1 job, 1 crash, fairness | refutes `EventuallyReported` |
| `kafka_flip` | 1 job, 1 publish error | refutes `StatusInBoth` |
| `workflow` | 3 ids, at most 3 steps and 3 edges, fairness | `OrderTopological`, `CyclesExactly`, `UnreachableExactly`, `AcceptedIsRunnable`, `Answered`, `TypeOK` |
| `workflow_empty` | 1 id | refutes `AcceptedHasSteps` |
| `requests` | 3 methods, every combination of path, ids, tenant header, token and exception, every raising lifespan step, fairness | `IdsOnEveryResponse`, `AuditedOnce`, `TenantAgrees`, `ReleasedUnlessRaised`, `RequestAnswered` |
| `security` | 1 key, 2 validations, clock 0..2; 2 users, 2 names, 2 passwords, 3 tokens | `RevokedStaysOut`, `ExpiredRefused`, `LoginDeterministic`, `WritesAuthorized`, `DeletedOnlyRefresh` |
| `calls` | lists of up to 3 of 7 metrics, 17 sets of arguments; 3 labels, 3 samples; texts of 4 parts; up to 9 items | `RefusedUnjudged`, `EventMatchesResult`, `VerdictsAgree`, `SummaryAgrees`, `ChunkBound`, `NothingLost`, `PagesPartition` |

Why the bounds suffice: documents of different jobs live under different keys,
so races on a document need one job; the two jobs of `kafka_live` show that
sharing a partition mixes nothing up. Two workers are needed for two
attempts at once; a third adds only another copy of the same document. One retry
separates "first attempt", "last attempt" and "given up". Four tags hold a
message, its retry and their duplicates. `JOB_TTL` 1 or 2 lets a key expire, or
survive one tick, between any two steps. Fault counters are bounded per kind;
the proofs lift all these bounds for the properties they cover. Workers and
tags (pods, partitions and jobs in v2) are permuted by symmetry in the safety
runs; liveness runs use none. Deadlock is checked in every run but `calls`, whose
calls end: the only states without progress are those `Terminated`, `Idle` and
`Returned` describe.

For workflows, three steps and three edges hold every shape that treats the
algorithms differently: a chain, a fork, a join, a join with parallel edges, a
self-loop, cycles of two and three with and without an entry, an unreachable
step, repeated ids, edges to unknown steps, and both empty boundaries. The
proofs cover every size.

Keys are independent of each other, and a race on one needs a validation on
either side of a revocation: one key and two calls. Two users with two names, of
which one is the administrator's, show clashes of names across creation and
deletion; three tokens hold an access and a refresh token of one session and one
of another. The components of `security` share no state, nor do those of
`calls`; each is explored in full while the others stay where they begin. In
`calls`, three metrics give one before and one after the first whose input is
missing; four parts of length 0 to 3 against sizes 1 to 4 fill a chunk exactly,
overfill it by one, and exceed it with a single part.

**Fairness.** `WF(Work(w))`: a worker process that can take its next step
eventually does; this includes the LLM call, which is awaited without a timeout
in the code, so a call that never returns is outside the assumption. A lost
worker is replaced (Celery's pool, the pod's restart policy). `WF(Redeliver)`,
`WF(Assign)`: the broker restores messages of lost workers and the group
coordinator assigns partitions. No fairness on the client, the clock, faults
or auto-commit. `WF(Validation)`: the validation of a workflow is plain Python
without waiting, it runs on until it returns.
`WF(Middleware \/ Endpoint \/ Send)`: the event loop resumes a request it has
received; as for workers, an endpoint that awaits for ever is outside.

**Conditions in properties.** Some guarantees end with the first fault of a
kind, and say so by the fault counters: `QuietIsTerminal` until a Redis error or
a visibility timeout (the last update may be the one that fails, or an older
attempt's "running" may be the last write); `CompletedIsFinal` until any fault;
`CompletedEventHasResult` until an eviction; `EventsAgree` until a kill, an
eviction or a publish error. The weaker contract holds throughout.

### Findings

1. `celery_expiry`: the comment at `redis_job_store.py:67` says that resetting
   the TTL keeps long jobs from expiring mid-flight; no update happens during an
   evaluation.
2. `kafka_loss`: with auto-commit, a pod killed during an evaluation loses the
   job, against the docstring of `api/v2/eval_router.py`.
3. `kafka_flip`: publishing `eval.completed` is inside the `try` of the
   evaluation, so a publish error turns a completed job into a failed one.
4. `workflow_empty`: `validate_steps_not_empty` is a validator of a field with a
   default, and pydantic does not validate defaults: a definition without the
   key `steps` is accepted with no steps. The test passes `steps=[]`.

Remarks met while modelling, without a run of their own:

- `workers/celery_app.py:32` promises a dead-letter queue; nothing routes to it.
- `main.py:87` and `:119` call the error layer outermost; it is the seventh layer
  from outside. A 500 it makes passes neither the CORS nor the logging layer, so it has no
  CORS headers.
- `nodes/chunking.py:62` says "Recursively split"; only `separators[0]` is used,
  so a part longer than `chunk_size` stays whole. A text of blanks gives one empty
  chunk, and a separator that shows is put after the last part.
- `ragas_adapter.py` resolves all fifteen metric classes on every single-turn
  call, so one missing class fails calls that do not use it.
- `nodes/evaluation.py:48` imports `random` inside the loop that may be empty and
  uses it after the loop.
- The retrieval node reads `query_embedding` or `embedding`; the embedding nodes
  write `embeddings`.
- `is_active` of a user is stored and shown; a login does not look at it.
  `reset_user_tokens` marks a user with `requires_reauth`, which no code reads (its
  docstring says that tokens are not revoked).

## 4. Proofs

All theorems hold for any number of jobs, workers, tags or partitions, any
`JOB_TTL > 0`, any `MAX_RETRIES`, any number of faults. The assumptions are
`StoreAssumption`, `CeleryAssumption`, `KafkaAssumption`,
`WorkflowAssumption`, `KeyAssumption`, `AccountAssumption` and
`RequestAssumption`: bounds are naturals, the special values differ from
ordinary ones, and there is a job (v1) or a key (`ApiKeys`) at all. The theorems on workflows hold
for any set of ids and any bounds on steps and edges; those on the splitter for
texts, separators, sizes and overlaps of any length (`ChunkAssumption`: lengths
are naturals, and no more of a separator shows than it has); the one on pages for
any number of items and any page size of at least 1 (`PageAssumption`); those on
evaluations for lists of metrics of any length (`EvalAssumption`: a list of metrics
is a list of strings); the one on the classification report for any labels and any
number of samples (`ClassAssumption`: that number is bounded by a natural).

| Theorem | Statement | Argument |
|---|---|---|
| `CeleryEvalProofs!TypeCorrect`, `KafkaEvalProofs!TypeCorrect` | `Spec => []TypeOK` | inductive by itself, one step per action |
| `RecordsStayCoherent` (both) | `Spec => []RecordCoherent` | `CoherenceInv` |
| `CeleryImplementsContract`, `KafkaImplementsContract` | `Spec => ImplementsContract` | each step is a contract step or a stutter, under `CoherenceInv` |
| `NoTaskIsLost` (v1) | `Spec => []NoLostTask` | `NoLostInv` |
| `MessagesHeldOnce`, `QuietJobsAreTerminal` (v1) | `Spec => []Holders`, `Spec => []QuietIsTerminal` | `QuietInv` |
| `CompletedStaysCompleted` (v1) | `Spec => CompletedIsFinal`, an action property | `FinalInv` |
| `RetriesAreBounded` (v1) | `Spec => []RetryBound` | `BudgetInv` |
| `JobsHandledOnce`, `CompletedEventsHaveResults` (v2) | `Spec => []HandledOnce`, `Spec => []CompletedEventHasResult` | `ResultInv` |
| `EventsAgreeWithStore` (v2) | `Spec => []EventsAgree` | `KafkaEvalProofs!ReportInv` |
| `WorkflowProofs!TypeCorrect`, `OrderIsTopological` | `Spec => []TypeOK`, `Spec => []OrderTopological` | `KahnInv` |
| `CyclesReportedExactly`, `UnreachableReportedExactly` | `Spec => []CyclesExactly`, `Spec => []UnreachableExactly` | `WorkflowProofs!ReportInv` |
| `AcceptedRuns` | `Spec => []AcceptedIsRunnable` | `RunInv` |
| `RefusalsCostExactly`, `EventsMatchResults`, `VerdictsAreOne` | `EvalSpec => []RefusedUnjudged`, `[]EventMatchesResult`, `[]VerdictsAgree` | `EvalInv` |
| `SummariesAgree` | `ClassSpec => []SummaryAgrees` | four disjoint sets of positions |
| `ChunksAreBounded`, `NoTextIsLost` | `ChunkSpec => []ChunkBound`, `ChunkSpec => []NothingLost` | `ChunkInv` |
| `LifespanReleases` | `Spec => []ReleasedUnlessRaised` | `LifeInv` |
| `ResponsesCarryIds`, `RequestsAuditedOnce`, `TenantsAgree` | `Spec => []IdsOnEveryResponse`, `[]AuditedOnce`, `[]TenantAgrees` | `ReqInv` |
| `RevokedKeysStayOut`, `ExpiredKeysRefused` | `KeySpec => []RevokedStaysOut`, `KeySpec => []ExpiredRefused` | `KeyInv` |
| `LoginsAreDeterministic`, `WritesAreAuthorized`, `DeletedUsersOnlyRefresh` | `AccSpec => []LoginDeterministic`, `AccSpec => WritesAuthorized`, `AccSpec => DeletedOnlyRefresh` | `AccInv`; the last two are action properties |
| `PagesArePartition` | `PageSpec => []PagesPartition` | `PageInv` |

`RecordCoherent` is not inductive: a "completed" update onto a pending document
would leave it without `started_at`. `CoherenceInv` adds that a message or a
running worker belongs to an issued job (`IssuedFirst`); that documents and
snapshots are coherent and keep the type that was issued (`DocumentsCoherent`);
and that whoever evaluates or writes a result does so on a document that is gone
or past "pending", and never holds a pending snapshot (`StartedFirst`). The last
part is stable because nothing but `create_job` writes "pending", and
`create_job` happens once per id.

`NoLostTask` is not inductive either: when a worker acknowledges, the message it
removes may be the last one of its job. `NoLostInv` adds `LeavesSuccessor`: a
worker about to acknowledge for a job that has not ended leaves behind another
live message with **more retries** than the one it removes. A plain "another
message" would not do: two workers could each count on the message the other is
about to remove. Retries order the messages, so the one with most is safe.

The other v1 theorems rest on who can still act for a job.
`QuietInv`: until a visibility timeout, what a worker runs is unacknowledged and
runs nowhere else (`Holders`), so every accepted job whose document has not ended
has a message that will be delivered or a worker that will still write (`Driven`).
`FinalInv`: until a first fault, a job is in one place at a time, as a message on the
queue or in the hands of a worker that has not reached its acknowledgement
(`InOnePlace`), and a completed job is nowhere. A retry does not break this, because
the worker that published it is past its last write. `BudgetInv` bounds
evaluations by counting: `Tries(j)` is the set of attempts that the messages and
workers of a job may still make, a redelivery adds at most one allowance of
`MAX_RETRIES + 1`, and evaluations made, tries left and the allowance of a request
that is not yet sent never exceed what redeliveries have granted. The
sum is over a set, hence the cardinality of disjoint blocks of tries.

In v2 nothing of the kind is acknowledged by the handler: commits run on their own.
What keeps two pods apart is that a request is on the topic once (`OnceLogged`: no
id is published twice) and that whoever handles message `i` of a partition either
owns the partition or has it committed past `i` (`Handles`). A partition that is
assigned resumes at the committed offset, so nobody is handed the message again
while its pod lives; an eviction breaks exactly this, for it takes the partition
without a commit from a pod that goes on. `HandledOnce` (`Placed` and `Alone`) is the
result. `ResultInv` adds `Kept`: once "completed" is out for a job, its document has
the result, and so has every copy that may overwrite it. `Alone` is needed there: a
second pod with an older copy would write the result away. A redelivery after a
crash reads a document with the result, and `Merge` keeps it. `ReportInv` adds,
until a kill, an eviction or a publish error: a partition without owner is committed
to its position (`Drained`), so positions never go back; a reported job was handed
out and is in no pod's hands (`Settled`), hence will never be polled or written
again; and a pod about to report finds the status it wrote (`WroteFirst`).

On workflows not even `TypeOK` is inductive: that `in_degree` stays a natural
number needs the algorithm's invariant. `KahnInv` says that the count of a step
is the number of edges into it that have not been followed (`Counting`, an edge
being followed once its source is placed and it is no longer in `todo`), that a
queued or placed step has none left (`Ready`), and that a step with none left is
queued or placed (`Waiting`). From `Ready` the order is topological. When the
queue is empty, every step that was not placed has an unfollowed edge from
another such step, so together they are cyclic; conversely the first placed
step of any set has no predecessor in it. The lengths of order and steps differ
exactly in that case or when an id is repeated, by the injection and surjection
theorems on finite sets. `ReportInv` adds the search: what is marked or pending
lies in every closed set that holds the first step, and the edges of a marked
step lead to marked or pending ones or are still in `todo`; at the end the
marked steps are the least closed set. `RunInv` adds what an accepted definition
needs: the order is complete (`FullLength`), and without edges queue and order
are the steps as written (`WrittenOrder`). That the order begins with the first
step follows when there are edges: the steps other than the first placed one would
otherwise be a closed set without it, against the reachability of all.

For the splitter, `ChunkInv` adds what the piece being built must satisfy so that
closing it is right: `CurrentBound`, the bound of a chunk with the whole of its last
separator, of which `strip()` takes the blanks away, and `Kept`: whatever shows is
in a chunk or in the current piece, and lies before the blanks of the last
separator. The lengths of chunks come from the cardinality of intervals.
`PageInv` says that a client about to ask for a page has exactly the items before
its offset; the step is that `has_next` means `page * page_size < total`
(`DivUp`, the rounding of the number of pages).

For evaluations, `EvalInv` says what has been judged, scored and published at each
point of the call; in the multi-turn loop, `judged` and `scores` are exactly the
metrics before `left` (`LoopInv`), each of which had its inputs. The classification
report is computed in one step, so `SummariesAgree` is about its operators: the four
counts are cardinalities of a partition of the positions, and f1, which the code
computes from precision and recall with their zero cases, is cross-multiplied.

For requests, `LifeInv` says what is open in each phase of the lifespan.
`ReqInv` says, for a request at any depth of the stack, what the layers it has
entered have put into `request.state` (`StateInv`), what the layers it has left
have written into the response (`ResponseInv`), whether the audit record has been
taken and logged (`AuditInv`), and that an exception never leaves the error layer
(`WayInv`): were it to, the layers outside would write and log nothing. At depth 0
the three theorems can be read off.

`RevokedStaysOut` speaks of calls that have been accepted, so it needs what keeps
the calls behind them out. `KeyInv` adds that a revocation that has committed is in
the repository (`RevocationsHold`); that a settled key is inactive there, absent
from the cache, and in no call's hands as an active copy (`SettledOut`), so nothing
can bring it back; that a call begun later has not got past the check
(`LateCallsWait`); and what the check established about expiry (`PassedUnexpired`).
In `AccInv` the names of stored users differ (`NamesUnique`: creation scans for the
name, and no update changes one), and refresh tokens carry no permissions
(`RefreshGrantsNothing`), which is what keeps them from authorizing a write although
no check looks at the type of a token.

The inductive invariants were checked by TLC before they were proved: those of the
v1 tier on the instance of `celery_faults`, those of the v2 tier on the instance of
`kafka_faults` and on two with two jobs, one of them with two partitions.

**Only model-checked:** liveness (`EventuallyEnds`, `EventuallyReported`,
`Answered`, `RequestAnswered`), since fairness is outside this prover's reach. Every
invariant and every action property that a passing run checks is also proved.

## 5. Mutants

Every property of a passing run has a mutant: a plausible slip in the code
(acknowledging early, one retry too many, swallowing an error, publishing before
storing, not committing on exit, ...) under which TLC finds it violated. They
are written beside the definitions they alter, each marked "Mutant".

## 6. Not modelled, and plan

Not modelled, and why:

- Settings and feature flags: values read at startup; what depends on them is a
  choice in the models.
- Log output and traces: pure I/O. The middleware that carries them is modelled.
- Auth0 validation: a remote service, and nothing calls it. The role table of `permissions.py`: constants
  that none of the modelled code reads. Cryptography.
- `redis_streams.py`: nothing instantiates it.
- The workflow nodes other than the splitter: placeholder values where calls to
  models and stores are to come, and lists of string tests.
- Cursor parameters and sort fields: passed on, or parsed and checked against a list.
- The LLM calls and the values of the metrics.

Done: every component of the inventory that keeps state or has control flow of its
own is modelled, and every safety property of the runs is proved. Left: the safety
half of the liveness properties (a measure that every step of a worker's own
decreases), stated as action properties, so that only the use of fairness stays
with TLC.
