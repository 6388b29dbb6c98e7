# Verification of the Conexao connector

TLA+ modules for the backend of the connector (`src/backend/app`), the TLC runs
that check them and the theorems that TLAPS proves about them. `PROJECT.json`
lists components, runs, mutants, the map from definitions to source lines,
hazards, findings and theorems. This file says what they mean.

    tlc -workers 2 -config engine_shipped.cfg MCJobEngine.tla     # any run
    tlapm JobEngineProofs.tla                                     # and the other *Proofs modules

## 1. The system

A client registers a *tenant*, *connections* to an ERP (Sankhya), *flows* from a
source to a target connection, and field *mappings*. `POST /flows/{id}/run`
makes a *job* of a payload. A Celery worker executes it: either it maps the
payload and simulates the write, or it runs a read operation against the ERP.

| component | source | state | operations | talks to |
|---|---|---|---|---|
| job engine | `integrations/runner.py`, `models/sync_job.py`, `database/session.py` | rows of `sync_jobs`, `integration_logs`, `integration_errors` | `prepare_flow_job`, `execute_job`, `reprocess_job` | PostgreSQL, Sankhya client |
| worker | `workers/tasks.py`, `workers/celery_app.py` | messages in Redis, one unacknowledged message a process | `process_flow_job`, `execute_flow_job` | engine, Celery |
| jobs API | `api/v1/routes_jobs.py` | none of its own | list, get, cancel, reprocess | engine, Celery |
| flow run API | `api/v1/routes_flows.py:177-218` | none of its own | run (queued or `sync=true`) | engine, Celery |
| idempotency | `integrations/idempotency.py` | none | key of tenant, flow, payload | engine |
| retry policy | `integrations/retry_policy.py` | none | `calculate_backoff` (the rest is used by tests alone) | worker |
| administration | `routes_tenants.py`, `routes_connections.py`, `routes_flows.py`, `routes_mappings.py` | tenants, connections, flows, mappings | create, update, delete, test, validate | engine, client |
| field mapping | `integrations/mapper.py`, `validator.py` | none | `map_fields`, `validate_required_fields` | engine |
| Sankhya client | `connectors/sankhya/client.py`, `auth.py`, `exceptions.py` | cached access token | `authenticate`, `execute_read_operation`, error mapping | ERP over HTTP |
| read catalog | `connectors/sankhya/catalog.py`, `services.py`, `schemas.py` | constant table | resolve and validate a read operation | engine, administration |
| homologation validation | `validation/sankhya_readonly.py` | report of one run | creates a tenant, connection and flow, runs it, polls the job | the API |
| masking, encryption, registry, logs and health API, settings, migrations, scripts | `core/`, `connectors/registry.py`, ... | none that changes | | |

What is hard, and the properties that make each component correct:

* **Job engine, worker and job requests** share the `sync_jobs` row and nothing
  locks it. Every actor loads the row, works (an attempt waits for the ERP),
  and commits only the columns it changed. A request commits a row before it
  sends the message for it; a worker commits an attempt before it schedules the
  retry; a message may be delivered twice (`task_acks_late`). Correct means: no
  job is stranded, attempts are counted and bounded, the audit trail agrees with
  the row, a cancellation and a duplicate mean what the API says, and every job
  ends.
* **Administration** checks for linked resources and deletes later. Correct
  means: nothing but a job refers to something deleted, a flow stays within its tenant, columns that
  are written together agree.
* **Sankhya client** keeps a token beyond a request. Correct means: no call is
  made with a token known to be expired, and every HTTP outcome becomes exactly
  one error class, on which the engine's retries depend.
* **Catalog and mapping** are pure. Correct means: they agree with a reference
  definition on all small inputs; production is refused unless allowed.
* **Validation** waits for a job for a bounded time while the engine retries.
  Correct means: a report covers every operation and vouches for nothing that did
  not succeed, a run ends, and a run after a broken one reuses what that one left.

## 2. Modules

| module | models | state |
|---|---|---|
| `JobLifecycle` | what the engine promises of a job, without queue and sessions | status, attempt count and flag of each job, cancellations that are let through and not written, attempts in flight across one |
| `JobEngine` | engine, worker and job requests as the code runs them | see below |
| `ReadCatalog` | how a stored configuration becomes a read operation, or is refused | none: operators |
| `FieldMapping` | how mappings turn a payload or a record into a target, and the required-field checks | none: operators |
| `SankhyaClient` | one connector: its token, its requests, the error each answer is raised as, what is made of a body | `clock`, `client` |
| `FlowAttempt` | the inside of an attempt and of a connection test, on top of the three above | `job`, `run`, `last` |
| `Administration` | the endpoints for tenants, connections, flows and mappings, and the run request, as overlapping transactions | the tables, the threads |
| `ValidationRun` | the homologation script as a client of the API, with an operator beside it, over `JobLifecycle` | `script`, `report`, what it left in the API |
| `Null` | `None`, the value of what is left out | |
| `MCJobEngine`, `MCFlowAttempt`, `MCAdministration`, `MCValidationRun` | the constants of the runs | |
| `JobEngineProofs`, `OneWorkerProofs`, `LifecycleProofs`, `FlowAttemptProofs`, `AdministrationProofs`, `AdministrationTypes`, `ValidationRunProofs` | the theorems and their proofs | |

How they fit together:

    ValidationRun --(uses)--> JobLifecycle <--(implements)-- JobEngine
                                                                ^ ends as it says
    FlowAttempt = SankhyaClient + ReadCatalog + FieldMapping ---+
    Administration: the rows the others take for granted

`JobEngine` lets an attempt end in any way a flow allows: an attempt resolves its
flow again (`runner.py:174`), so what the flow did at submission does not bind it.
`EndsAsEngineSays` shows that every end of the detailed attempt is a step of
`JobEngine` with one of the error types it expects of what the flow does by then, so that
what holds in `JobEngine` holds with the real inside. `ValidationRun` takes `JobLifecycle` for its
jobs, which `JobEngine` implements (run `engine_lifecycle`, theorems of `LifecycleProofs`).

### `JobLifecycle`

A job is submitted (`Submit`), attempted (`Attempt`) and reset (`Reset`); `CancelRequest`
and `CancelCommit` are the check and the write of a cancellation, which the code does not
make one step. `asked` has the jobs whose cancellation was let through and is not
written; `late` those with an attempt in flight when it was written, which still writes
its outcome over it (`LateAttempt`) or dies (`Lost`). So the machine makes no promise
the code breaks: it has the counterexamples to `CancelSticks` and `SuccessFinal` of
section 4 among its behaviours.

### `JobEngine`

| variable | stands for |
|---|---|
| `row[j]` | the committed columns `status`, `attempt_count`, `cancel_requested` |
| `queue[j]` | messages for job j in the broker; a count, because a retry has a countdown of its own and any message may be delivered next |
| `act[a]` | where worker or API thread a is in its code, its job, and the row its session loaded |
| `trail[j]` | `integration_logs` of the job since it was created or reset: how many attempts, and the status of the newest |
| `withdrawn`, `syncJobs` | ghosts: acknowledged cancellations, and jobs submitted with `sync=true` |
| `resets`, `faults` | counters for the bounds |

`Merge` is SQLAlchemy's unit of work: an UPDATE carries the columns that differ
from the loaded row. It matters. A cancellation that loaded `pending` and an
attempt that loaded the same row leave a row that neither of them wrote. An
attempt that takes a `retrying` job to `retrying` does not write the status at
all, so that a cancellation committed during it stays.

`running` is not a value of `row`: `execute_job` assigns it in memory and
replaces it before anything is flushed (`autoflush=False`). The branch of
`cancel_job` for running jobs (`routes_jobs.py:61-70`) therefore never runs.

| code | actions |
|---|---|
| `run_flow` | `Prepare` (lookup of a duplicate), `Insert` (commit), `Publish` or `StartSync` |
| `execute_flow_job`, `process_flow_job` | `Load` (delivery and read), one of `AttemptCancelled`, `AttemptSucceeds`, `AttemptFails`, `AttemptRaises` (outcome and log in one commit), `Schedule` (refresh, send the retry), `Ack` |
| `run_flow` with `sync=true` | the same attempts by the thread, and `SyncAttemptRaises` |
| `cancel_job` | `CancelRequest` (check), `CancelCommit` |
| `reprocess_job` | `ReprocessRequest` (check), `ReprocessCommit`, `Requeue` |

Faults are actions of their own, enabled by the constant `Faults`:

| fault | action | meaning |
|---|---|---|
| `"request"` | `RequestDies` | the API process dies, or the broker refuses the message of a request |
| `"publish"` | `ScheduleFails` | `apply_async` raises in the worker; the task fails and is acknowledged |
| `"commit"` | `AttemptUnsaved` | the attempt's commit and the handler's commit both fail |
| `"child"` | `ChildDies` | a pool child is killed; Celery acknowledges its message, because `task_reject_on_worker_lost` is off |
| `"worker"` | `WorkerDies` | the worker dies; the message is delivered again |

Abstracted: payloads (equal payloads of a flow are equal keys, `KeyOf`), error
texts, timestamps, correlation ids, `integration_errors` (written with the same
commit as the log of a failure), HTTP answers. Any attempt may succeed or fail
in any way some flow allows (`FailureKinds`). Left out: a redelivery by Redis while the
task still runs (visibility timeout, one hour; `WorkerDies` with a second worker
gives the same second execution only after the first has gone), and
`task_always_eager`, a setting for tests.

### `SankhyaClient`, `ReadCatalog`, `FieldMapping`, `FlowAttempt`

A connector is made for an attempt or a test and closed with it. `client.todo` is
what is left of its operation: a token, and the POST of `loadRecords`.

| code | actions and operators |
|---|---|
| `SankhyaClient.authenticate` (`client.py`) | `AuthenticateFromCache`, `AuthenticateLegacy`, `CredentialsMissing`, `RequestToken`, `TokenRefused`, `TokenIssued` |
| `_load_records_raw`, `_map_http_error`, `_parse_json_response`, the exception classes | `RequestRecords`, `RecordsRefused`, `RecordsReceived`, `ErrorOf` |
| `extract_records`, `select_record_fields`, `normalize_read_records_response`, `count_records` | `ExtractRecords`, `Normalized`, `CountRecords` |
| `resolve_read_operation_request`, `validate_read_operation_resolution`, `SankhyaReadOperationConfig` | `Resolve`, `CatalogRead`, `LoadRecords`, `Permitted`, `Resolution` |
| `map_fields`, `apply_transformation_rule`, `validate_required_fields` | `MapFields`, `Transform`, `MissingSources`, `MissingTargets` |
| `execute_job` | `Begin`, then `FlowInactive`, `ReadInvalid`, `SourceMissing`, `MappingRaises`, `TargetMissing`, `Deliver`, `ConnectorRaises`, `MockRead`, or `Connect` and `ReadFails` or `ReadAnswered`; `Return` |
| `test_connection` | `StartTest`, `EndTest` |
| PATCH of the flow between two attempts | `Edit` |

A value is a class of values, those the rules tell apart (`FieldMapping`): digits,
decimals, dates, words, blanks, numbers, nothing. A body is a list, an object with
candidates for the list, or anything else. Time is a clock that may tick between
any two steps; it starts again with each connector, because it is only compared
with the expiry of that connector's token. An edit may make anything of a flow but
leaves the payload of the job alone, which is the row's: a job that writes may
read at its next attempt, and the other way round. Cancellation, queue and crashes are left to
`JobEngine`. A connection test with a read check does not look at the environment of
the connection; neither does the model's. The count that is stored is the total
the ERP claims, and may differ from the number of records.

### `Administration`

Each handler is two steps of a thread: one that reads and checks, and one that
commits. `act[h]` is what it carries from the one to the other. `Merge` and `Changed`
are the unit of work again (only changed columns are written). The foreign keys are those
of the migration; `sync_jobs.flow_id` has none. A commit the database refuses
changes nothing, and so does `AbandonRequest`. Cascades follow the relationships of the models:
a tenant takes its connections, jobs and logs, a flow its mappings.

| code | actions |
|---|---|
| `routes_tenants.py` | `CreateTenant`, `PatchTenant` and `PatchTenantCommit`, `DeleteTenantCount` and `DeleteTenantCommit` |
| `routes_connections.py`, `_ensure_tenant`, `test_connection` of the runner | `CreateConnection`, `TestConnection` with their commits |
| `routes_flows.py` | `CreateFlow`, `PatchFlow`, `DeleteFlowCount`, `RunFlow` with their commits |
| `routes_mappings.py` | `CreateMapping`, `PatchMapping` with their commits, `DeleteMapping` |
| `execute_job`, as far as it depends on the registry | `Execute`, `ExecuteSucceeds`, `ExecuteFails`, `ExecuteOrphan` |

`CreateTenant` and `DeleteMapping` are one step each, for they read nothing that
another request can change to an effect. `latestTest`, `meanwhile` and `erpReads` are ghosts:
the outcomes a connection may show (its newest test's and those that committed while
that one was under way), what has committed since a test under way began, and the
connections a job read. A job is `stranded` when nothing of its attempt could be
saved: its flow is gone, or the text of the error does not fit the column (`integration_log.py:27`).
`clients` chooses, once for a behaviour, which kinds of requests its clients send.

### `ValidationRun`

`script.pc` is where `run_validation` is: `look` and `create` (the three
`_create_or_reuse_*`), `run`, `poll` (`_poll_job_until_terminal`), `logs`, `report`. `made` is what it
left in the API, `job` the jobs of this run, `logs` the newest logs of the tenant. Faults:
`RequestFails` (nothing happened), `AnswerLost` (it happened, the script does not know),
`Killed`. An operator may cancel or reprocess the jobs of the run (`CancelRequest`,
`CancelCommit`, `Forget`, `Reprocess`, bounded by `MaxRequests`); `reprocessed` and `undone` are
ghosts of what they did. One run at a time, and a request whose answer is lost is over before the
next run looks. A job that was given up goes on, and its logs push those of the job
that is polled out of the list; so do those of any other flow, for which they stand.

## 3. Runs

| run | instance | shows |
|---|---|---|
| `engine_shipped` | the deployment of `docker-compose.yml`: 1 worker, overlapping requests (2 threads), 1 job; all requests, both sync modes, 2 faults of any kind | `DeadLetterExhausted`, `AuditAgrees`, `AttemptsCoverLogs` |
| `engine_one_client` | the same with requests that do not overlap (1 thread), 2 jobs of one payload, 2 faults of any kind | `AttemptsMatchLogs`, `CancelRemembered`, `IgnoredHasSuccess` |
| `engine_scaled` | 2 workers, 2 threads, 1 job that reads; all requests, both sync modes, a worker that dies, fair | `TypeOK`, `AttemptBound`, `TaskBacked`, `SyncAttemptAlone`, `LiveJobsFinish` |
| `engine_lifecycle` | 1 worker, 2 threads, 2 jobs, all requests, none of which contend for a job (`UncontendedSpec`), a worker that dies, fair | `ImplementsLifecycle` |
| `engine_cancel_sticks` | 1 worker, 1 thread, 1 job, no fault | violation of `CancelSticks` |
| `engine_success_final` | 1 worker, 1 thread, 1 job, no fault | violation of `SuccessFinal` |
| `engine_payload_once` | 1 worker, 1 thread, 3 jobs, run only | violation of `PayloadRunsOnce` |
| `engine_retries_conclude` | 1 worker, 1 thread, 1 job, run only, fair | violation of `RetriesConclude` |
| `attempt_outcomes` | one job over its attempts, or one connection test; flows with two mappings out of seven and 16 payloads, eight read configurations with five kinds of credentials, edits between attempts that turn reads into writes and back, five bodies, tokens that last 0, 1 or for ever | `RetryAgreesWithPolicy`, `CallsOnlySandbox`, `CallsBounded`, `TokenNotKnownExpired`, `StoredWithinCatalog`, `DeliveredAsMapped`, `EarlyRefusalJustified`, `EndsAsEngineSays`, `CallsConclude` |
| `admin_registry` | two tenants, three connections (sandbox, production, another tenant's), a flow, a mapping, a job, a worker; four mixes of requests, two or three at once | `ReferencesHold`, `FlowsWithinTenant`, `PairsAgree`, `LatestTestShown`, `ReadsStayInSandbox`, `NoResurrection` |
| `admin_linked_not_deleted` | the same | violation of `LinkedNotDeleted` |
| `validation_reports` | three runs over two operations, two faults, one request of an operator (cancel or reprocess) | `NothingMadeTwice`, `ReadyMeansSuccess`, `ReportComplete`, `VerdictStands`, `LastAttemptReported`, `RunEnds` |

The passing runs differ in what they assume, because the code promises less the
more actors there are. TLC finds each of these when the assumption is dropped:

* *Any number of workers and threads* (`engine_scaled`): attempts stay bounded, no
  job is stranded, a synchronous attempt is alone, and jobs end. All but the last are
  proved as well.
* *One worker process*, which is what `docker-compose.yml` starts
  (`--concurrency=1`; `engine_shipped`). With two, a worker that dies after it has
  scheduled the retry and before it acknowledges leaves two messages for one job;
  two attempts then run side by side, both count as the same number, and the merge
  of their commits can be a row that neither wrote.
* *Requests that do not overlap* (`engine_one_client`). When they overlap, a reset
  checked on an old row lands while a later attempt runs (counts and logs part), a
  cancellation loses its flag in a reset (it is forgotten), and a cancellation
  checked before a success is committed after it (the success that others were
  ignored for is gone).
* *Requests that contend for no job* (`engine_lifecycle`): no job has two attempts, two
  cancellations or two resets at once, nor a cancellation with a reset, and no job is
  cancelled while another of its key is about to be ignored (`Uncontended`). Other
  requests overlap, and attempts overlap with cancellations.

**Bounds.** `MaxAttempts = 3` is the value the code writes (`runner.py:715`), and
the least that has an attempt from `retrying` to `retrying`, where the column
merge matters. `engine_scaled` and `engine_lifecycle` take 2, for four actors, or liveness
with two jobs, make them large; their safety is proved for every value. `Jobs`: one job has all the interleavings of one row, for no action
reads two rows but the duplicate lookup, which needs two jobs with one key
(`engine_payload_once` adds one with another key). `MaxResets = 2` (`engine_shipped`,
`engine_one_client`) gives two concurrent resets of one
job, or a reset of a job already reset; where the bound is 1, the theorems cover more. `MaxFaults = 1` allows one fault at every
point of a behaviour, `2` a fault in the recovery from another. Two threads and two workers are the least with races between
equals. `Threads` are symmetric in `engine_shipped`, `admin_registry` and `admin_linked_not_deleted`,
which check no liveness; the runs that do use no symmetry.

`attempt_outcomes`: `MaxAttempts = 3` again; `MaxClock = 3` lets a token that lives
for 1 run out before it is looked at, between two looks and in flight; `MaxCalls = 3` is one
more than `CallsBounded` allows, so that the counter does not hide a violation. Two mappings at a time are
enough for an overwritten target, a shared source and a default next to a
mapping without one; the catalog has an entry with defaults short of its fields
and one with a limit of 1. The edits lead from one real read to every way it can be spoilt, to flows
that write and get as far as their mapping, and from those back. `admin_registry`: every race of two handlers on a row
takes two threads; the fourth mix has a third thread, for a chain of a tenant's delete, a
connection's creation and a run. A flow, a mapping and a job suffice because no
handler compares two of them; ids are used once, so that a row that comes back
shows. The mixes leave out requests that touch none of the tables the others do; the theorems
hold for every mix. `validation_reports`: `MaxPolls = 2` has a poll that goes on and one
that gives up, `LogLimit = 2` with `MaxAttempts = 2` has logs that fit, and logs
that are pushed out by a job given up before; the third of the `MaxRuns = 3` follows two broken
ones. `MaxRequests = 1` has every race of one cancellation, or one reset, with the attempts and the polls; both of
one job are within the theorems, which take any number. The code's values are 120 polls and 500 logs, and only whether they suffice matters.

**Deadlock** is not checked: jobs, resets and faults are bounded, so that a
behaviour in which all jobs have ended and nobody has anything to ask really
stops. That nothing stops too early is what `LiveJobsFinish` and `TaskBacked` say.
For the same reasons `attempt_outcomes` stops when its job has ended, `admin_registry`
when its ids are used up, and `validation_reports` after its last run;
`CallsConclude` and `RunEnds` say that they do not stop half-way.

**Fairness** (`FairSpec`): weak, on the steps of each worker (take a message, end
the attempt, schedule, acknowledge) and of each handler that has begun. The worker
is a loop over the queue; ERP calls have a timeout (`client.py:47-51`); no step
waits for another actor. After `WorkerDies` this presumes that somebody starts the worker again:
`docker-compose.yml` does not (it has no `restart`), and until then jobs wait in the queue.
Nothing is assumed of requests or of faults. `FlowAttempt`:
weak, on the steps of the attempt or test and on the ERP's answers; a request
that is not answered times out, which is an answer here. `ValidationRun`: weak, on the
script's own steps; nothing is assumed of the engine, and a job may stay where it
is for ever. `Administration` has no liveness property.

**Mutants.** Every property of a passing run has a mutant, a plausible bug in one
mapped definition (`Mutant of ...` comments in the modules), which TLC refutes
under the same configuration.

## 4. What the documentation says and the code does not do

* `CancelSticks`: README and `docs/DECISIONS.md` promise that a pending job is
  cancelled at once. A worker that loaded the job before the cancellation commits
  its outcome over it. `CancelRemembered` shows what is kept: the flag stops the
  next attempt.
* `SuccessFinal`: `cancel_job` refuses successful jobs, but by the row it loaded. An
  attempt that succeeds between its check and its commit ends as `cancelled`, and the
  payload is no longer known as processed.
* `PayloadRunsOnce`: `docs/DECISIONS.md` says that the same payload is not
  executed twice. Only payloads that have already succeeded are refused; two in
  flight are both executed. `IgnoredHasSuccess` shows what is kept: nothing is
  ignored without a success.
* `RetriesConclude`: README says that retryable failures end in `dead_letter`. A
  synchronous attempt that is to be retried stays in `retrying`, because no task
  is sent for it, and `reprocess` refuses it.

* `LinkedNotDeleted`: `docs/PROJECT_RULES.md` and `docs/DECISIONS.md` block the delete of a tenant
  or flow with linked resources, to avoid orphaned history. Both deletes count
  first and commit later: a connection created in between is deleted with its tenant, a job
  is left without its flow. `ReferencesHold` shows what is kept: no row but a job refers to
  something that is gone, for the foreign keys refuse the other deletes.

One more contradiction is in the models and has no run. README says that every attempt
writes an `integration_log`. An attempt does not if its flow was deleted meanwhile (the error
row needs the flow, `ExecuteOrphan`) or if the text of its error exceeds the 500 characters of the
column (`AttemptUnsaved`, `ExecuteFails`): the commit of the exception handler fails as the attempt's did, and the
job stays `pending` or `retrying` with no message. Nothing is written, so no property of rows and
logs can tell; `TaskBacked` is about behaviours without this fault.

Behaviour that surprises but contradicts no document, with the property that says what holds next to it:

* Two connection tests at once may leave a connection `active` after a failed
  newest test: a test that loaded `error` and fails changes no column.
  `LatestTestShown` says that nothing older than the newest test, or than one that committed while
  it was under way, is shown.
* Two mappings of one target deliver the one that was loaded last, and no query orders
  them: `DeliveredAsMapped` says that one of them decides, whichever. A required source that is missing is
  refused even if the other mapping would have filled the target: `EarlyRefusalJustified`
  is about distinct targets.
* A flow may be edited between two attempts of a job, or between its submission and the first,
  into one that reads instead of writing: the job then ends as the new flow says
  (`EndsAsEngineSays`), and the row keeps the payload of the old one.
* A job that outlasts the polls is reported `failed` with `timeout_error` and may succeed later.
  `VerdictStands` is about the statuses the script did see.
* A job an operator cancels while the script polls may be reported `cancelled` and succeed
  after all, and a job reported in `success` may be cancelled later: `CancelSticks` and
  `SuccessFinal`, seen from the script. `VerdictStands` and `ReadyMeansSuccess` say that nothing else
  changes a verdict.
* When more than 500 newer logs of the tenant come before a job's, its result counts none of
  them. `LastAttemptReported` is about logs within the limit.

## 5. What is proved

`JobEngineProofs`, for all `Jobs`, `Workers`, `Threads`, `Faults`, bounds and
payloads, from the assumptions of `JobEngine` alone (`MaxAttempts` positive, workers
are not threads, `NoJob` is not a job, sync modes are Booleans):

| theorem | statement | argument |
|---|---|---|
| `TypeCorrect` | `Spec => []TypeOK` | inductive as it stands |
| `AttemptBoundHolds` | `Spec => []AttemptBound` | `RetryInv` |
| `SyncAttemptAloneHolds` | `Spec => []SyncAttemptAlone` | `RetryInv` and `SyncInv` |
| `NoJobStranded` | `Spec => []TaskBacked`, if no fault but a worker's death happens | `TaskBacked` with the three above |

* `RetryInv` is needed because the bound on a row says nothing of the rows that
  sessions hold: a stale snapshot is merged into the row later. `SeenOK` says of
  each actor that holds a row what that row allows, and `RowOK` what every merge
  of the two preserves.
* `SyncInv` says when a job can be the business of several actors: a thread that
  has prepared a job is alone with it until the row is committed (`PreparedAlone`),
  unknown jobs have no message (`NewJobsUnknown`), and a synchronous attempt keeps
  the job out of the queue until it ends (`AloneIn`). Its hard case is a reset: it
  needs an ended row, which a synchronous attempt leaves only when it is over.
* `TaskBacked` counts a worker that has yet to look at the refreshed row, so that
  an attempt's commit hands the obligation from the message to the worker, and
  `Schedule` hands it back to the queue.

`OneWorkerProofs`, for the same constants, under the hypotheses a theorem states:
`OneWorker` (`Workers` has at most one element, the deployment of `docker-compose.yml`)
and `OneClient` (at most one thread: requests do not overlap). Without them no
property of the table holds: two workers that attempt one job, or two requests that overlap, merge
columns of rows loaded at different times (TLC refutes the first three with a second
worker in `engine_shipped`, and the others with a second thread).

| theorem | needs | argument |
|---|---|---|
| `DeadLetterExhaustedHolds`, `AttemptsCoverLogsHolds`, `AuditAgreesHolds` | `OneWorker` | `AuditInv`: the three together with `AttemptInv`, which says that the row of a job under attempt can be cancelled or reset meanwhile and no more, and that its log does not grow |
| `CancelRememberedHolds` | `OneClient` | `FlagInv`: no attempt writes the flag, and a cancellation under way has seen it as it is |
| `AttemptsMatchLogsHolds` | both | `SettledInv`: a job that is being reset has ended and is not attempted, so that an attempt has seen the count of the log it adds to |
| `IgnoredHasSuccessHolds` | both | `DuplicateInv`: a success that no cancellation under way is about is final (`FinalStays`), and the lookup of a duplicate finds a final one |
| `FinalSuccessStays` | both | `FinalStays`: what is left of the refuted `SuccessFinal`, and that a cancellation which looked too early is its one exception |

* All rest on one classification of the steps (`StepKinds`): a step commits nothing
  (`Quiet`), ends an attempt, or commits an insert, a cancellation or a reset; what each kind
  writes is stated once (`AttemptWrites`, `InsertWrites`, `CancelWrites`, `ResetWrites`).
* `FreshInv` adds to `RetryInv` and `SyncInv` that a job without a row has no log.

`LifecycleProofs`, for the same constants: the refinement of `JobLifecycle` by `JobEngine`.

| theorem | statement | argument |
|---|---|---|
| `LifecycleStepsHold` | `Spec /\ []Uncontended => Lifecycle!Init /\ [][Lifecycle!Next]_(Lifecycle!vars)` | `SessionInv`, then each kind of commit is an action of `JobLifecycle` (`AttemptImplements`, `InsertImplements`, `ResetImplements`, `CancelImplements`); so are the check of a cancellation, a request that dies after it and an attempt that dies, and all other steps stutter (`QuietImplements`) |
| `OneWorkerLifecycle` | the same from `Spec`, if `OneWorker` and `OneClient` | these imply `Uncontended` (`OneAttempt`) |
| `SuccessFinalUncontended` | `SuccessFinal`, if besides no thread ever cancels | `SuccessStays`, a step of the above |

* `Uncontended` says that each job has at most one attempt, one cancellation and one reset
  at a time, no cancellation with a reset, and no cancellation while another job of its key is about
  to be ignored. Any number of workers and clients, deaths, lost and repeated
  messages, and attempts that overlap with a cancellation are allowed. It is a
  hypothesis because the code does not ensure it: without it a stale merge takes
  a job along steps `JobLifecycle` does not have.
* `SessionInv` is two parts: the row a session is about to change is as the
  session loaded it, or has been cancelled since (`Fresh`), and what is about to
  be ignored is a duplicate still (`PreparedWell`).
  That an attempt and a reset of one job never overlap is not assumed but proved
  (`StatusOfHeld`): one has a live or cancelled row before it and the other an ended one.
* `asked` and `late` are mapped to the threads that are cancelling and to the cancelled jobs that an
  actor still attempts. An attempt whose outcome is the status it had loaded does not write
  the status, so that the cancellation it overlapped with stays: `AttemptRow` says which columns the merge
  leaves to whom, and `LateAttempt` of `JobLifecycle` has both endings.

`FlowAttemptProofs`, for all flows, edits, catalogs, bodies, lifetimes and bounds, from
these assumptions: catalog entries are well defined (the program refuses to start otherwise)
with limits of 1 to 50, none is named `sankhya_load_records` (which the code resolves before it
looks at the catalog), a flow has finitely many mappings,
the model's bounds are numbers, lifetimes are integers or missing, an edit leads from one of
the flows to another with the same payload (which the job has a copy of), `None` is no value and no error type, `MaxAttempts` is positive:

| theorem | statement | argument |
|---|---|---|
| `CallsOnlySandboxHolds` | `Spec => []CallsOnlySandbox` | `CallsInv`: a connector of an attempt exists only for a flow that resolved to a real read, and `RealIsSandbox`, a fact of the catalog's operators |
| `CallsBoundedHolds` | `Spec => []CallsBounded` | `CallsInv`: the calls made and those the plan still holds add up to those of the whole operation (`ConnectorOK`) |
| `TokenNotKnownExpiredHolds` | `Spec => []TokenNotKnownExpired` | `TokenInv`: between the look and the load the token is not exchanged |
| `DeliveredAsMappedHolds` | `Spec => []DeliveredAsMapped` | `FlowInv` (the flow at work is one of `Flows`, so its mappings are finite), and `OrdersCover` (an order of a finite set lists all of it), and `TargetOfSome`: a target has what the last of its mappings in the order makes |
| `EarlyRefusalJustifiedHolds` | `Spec => []EarlyRefusalJustified` | a missing source without a default is transformed to something missing, or raises, rule by rule |
| `EndsAsEngineSaysHolds` | `Spec => EndsAsEngineSays` | `RowInv`: the row the attempt holds is the job's, since nobody else writes it; then one case for each way to end, with the errors of the flow as it is by then (`ErrorsExpected`) |
| `RetryAgreesWithPolicyHolds` | `Spec => []RetryAgreesWithPolicy` | a table: `ErrorOf` after the client agrees with `ShouldRetry` on each answer |
| `StoredWithinCatalogHolds` | `Spec => []StoredWithinCatalog` | the last step alone: the limit of a resolved read is at most the entry's maximum (`ReadWithinDefinition`), and what is stored is what the read normalized (`StoreStores`) |
| `AttemptTypesHold` | `Spec => []TypeOK` | `TypeInv` with `CallsInv`, `FlowInv` and `RowInv`: a count stays in bounds since a job that may be attempted again has an attempt left |
| `OrderIsImmaterial` | `MapFields` of a payload is the same in any two load orders of mappings with distinct targets | an order lists the whole set (`OrdersCover`), so each target comes from its one mapping |

`OrderIsImmaterial` matters because no query of the code orders the mappings of a flow.

`AdministrationProofs` and `AdministrationTypes`, for all ids, threads, workers, payloads and mixes of requests,
from the typing of payloads and that a worker is no thread:

| theorem | statement | argument |
|---|---|---|
| `ReadsStayInSandboxHolds` | `Spec => []ReadsStayInSandbox` | by the steps that read alone: they resolve the flow they loaded |
| `FlowsWithinTenantHolds` | `Spec => []FlowsWithinTenant` | `RegistryInv` |
| `NoResurrectionHolds` | `Spec => NoResurrection` | `RegistryInv`: an id that a request is about to insert is still absent, and reserved for it |
| `PairsAgreeHolds` | `Spec => []PairsAgree` | `Paired`: the pair in a row, the pair a request loaded and the pair it writes are each whole, and `MergedWhole`: so is any column-wise merge of them |
| `ReferencesHoldAlways` | `Spec => []ReferencesHold` | `LinkedInv`, which adds the shapes of rows (`Shaped`) |
| `LatestTestShownHolds` | `Spec => []LatestTestShown` | `TestsShown`: a connection shows an outcome of `latestTest`, and a test under way finds the row it loaded or one that a test in `meanwhile` wrote, so that the merge at its commit (`MergedTest`) shows its own outcome or one of those |
| `RegistryTypesHold` | `Spec => []TypeOK` | inductive with `Tabled`; a column-wise merge of rows and a row patched by a validated payload are rows (`MergedTyped`, `PatchedTyped`), and a row that is written is a whole one |

`RegistryInv` is three parts: tables are functions on their ids (`Tabled`), no
two requests insert one id (`Reserved`), and rows of flows and the changes of
PATCHes under way keep the tenant of the flow (`FlowsSane`). The last is why
`FlowsWithinTenant` holds although a PATCH is validated against a row that may
change: no endpoint changes the tenant of a flow or of a connection, so that every connection
a validated PATCH names is right for any later row.

`ValidationRunProofs`, for all operations (a sequence that is not empty, of names other
than the tenant's and the connection's) and bounds, where `None` is no number and no error:

| theorem | statement | argument |
|---|---|---|
| `ReportCompleteHolds` | `Spec => []ReportComplete` | `Place`: while the script works, what it wants is the operation after its results |
| `NothingMadeTwiceHolds` | `Spec => []NothingMadeTwice` | `MadeInv`: what it is about to create does not exist, with `Place` for what it wants |
| `VerdictStandsHolds` | `Spec => []VerdictStands` | `RunInv`: the status it read is still the job's, or a cancellation is between them (`Stands`), for nothing but a reset or a cancellation takes a job out of a status that ends it, and nothing but an attempt in flight out of a cancellation (`EngineKeeps`); and so for each result (`VerdictStep`) |
| `ReadyMeansSuccessHolds` | `Spec => []ReadyMeansSuccess` | `RunInv`: each reported success is backed by a job submitted for its operation (`SuccessStep`) that is in success, or in `undone` and cancelled (`Succeeded`): a success cannot be reset, and an attempt in flight cannot follow the cancellation of one |
| `LastAttemptReportedHolds` | `Spec => LastAttemptReported` | `LogsInv`: until a reset the newest log of a job at work that failed, or that the script saw fail, is the failed attempt's (`NewestTells`); `FoundAll`: if the job's logs are among the newest listed, the script finds each of them, the newest too |
| `TypeOKHolds` | `Spec => []TypeOK` | `ScriptTyped` with `Place`, `RunInv`, `LogsInv` and `MadeInv`: each operation submits one job at most, so that the submitted jobs fit `Jobs` |

The jobs move by actions of `JobLifecycle`; what submissions, attempts and cancellations do to them is
stated once (`SubmitEffect`, `AttemptEffect`, `LateEffect`, `CancelEffect`). The newest
log exists by well-foundedness (`Max` of a set of places), since the prover has no induction.

Every safety invariant and every action property of the passing runs is the statement
of a theorem, some under the hypotheses listed. Only model-checked:

* liveness (`LiveJobsFinish`, `CallsConclude`, `RunEnds`) and the fairness part of
  `ImplementsLifecycle`, which are beyond the prover (its initial states and steps are
  proved by `LifecycleStepsHold`);
* the counterexamples of the violation runs: a theorem can bound what they break
  (`FinalSuccessStays`, `SuccessFinalUncontended`), not show that it happens.

## 6. Not modelled

* *Masking and encryption* (`core/`): a recursion over arbitrary data by key name, and calls
  of a cryptographic library; neither keeps state. The masking check of the validation
  (`all_masking_ok`) and the masking of stored records go with them.
* *Connector registry, base class*: a constant table with one connector. The methods of
  the client that nothing calls (`load_records`, `execute_query`, save, update and delete of single
  records) are not modelled, nor is the field list `["*"]`, which no catalog entry allows.
* *Configuration, logging, application start, operator scripts*: they read
  settings and start processes.
* *Listings* change nothing; the one a result depends on (the limited listing of the logs) is
  `Listed` of `ValidationRun`. The *migrations* are the initial states and the foreign keys.
* *Payloads as text*: hashing of idempotency keys, JSON and the exact text of transformed values
  are abstracted to equality and to classes of values.

## 7. What is left

1. Two runs of the validation at once, which create everything twice.
2. A redelivery by Redis while the task still runs (visibility timeout).
