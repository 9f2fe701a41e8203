# Verification of Limes Axis

TLA+ models of the coordination logic of Limes Axis: the control API
(`src/services/api`), the Temporal worker (`src/services/worker`) and the
PostgreSQL rows they share. TLC checks the models on small instances; TLAPS
proves the properties that matter most for every value of the constants.

Most of the code base is request-local: a handler validates a document, writes
rows once and appends an audit event. What is hard to get right, and hard to
test, is the part where several processes change the same rows: leases and
claim tokens, retries after a timeout, writes based on an earlier read,
scheduled sweeps beside requests. The project models that part.

## Inventory

`A` is `services/api/src/axis_api`, `W` is `services/worker/src/axis_worker`.
All repository methods live in `A/persistence.py`; every request runs in
`session_scope` (`A/db.py`), that is, in one READ COMMITTED transaction.

| Component | State | Operations | Hard because | Correct when | Here |
|---|---|---|---|---|---|
| Approval decisions (`A/approval_decisions.py`) | `approval_records`, action run, workflow history, outbox row, audit event: one transaction | `record_demo_approval_decision` | concurrent deciders; direct mode signals before the commit | one decision per approval; callers are told what is stored | `ApprovalDelivery` |
| Decision outbox (`A/approval_outbox.py`, `W/approval_outbox_loop.py`) | `approval_decision_outbox`: status, attempt count, claim token, lease, due date | claim a batch, signal, reconcile a closed execution, finalize | crashes between signal and finalization; late workers; signals that arrive after their deadline; one failing row in a batch | at-least-once delivery that looks like once; fenced finalization; one audit event; bounded attempts | `ApprovalDelivery`, `ApprovalPromise`, `ApprovalRefinement` |
| Approval workflow (`W/workflows/approval_workflow.py`, `W/temporal_adapter.py`) | accepted decision, buffered signals | start, signal (two contracts), complete, cancel | duplicates and competing senders | the first decision stands; duplicates change nothing | `ApprovalDelivery` |
| Browser sessions (`A/main.py`, `A/session_lifecycle.py`) | `oidc_browser_sessions`: status, refresh token, rotation link, expiry | login with a cap, refresh in three phases, logout, expiry, revocation by reference | a network exchange between claim and rotation; reads and writes by primary key without a lock | one usable session per login; revocation is final; no credential left at rest; the cap | `OidcSession` |
| Maintenance jobs (`A/maintenance_jobs.py`, `W/schedules.py`) | none of their own | orphaned-session sweep, tenant reconciliation, audit retention | candidates read in one transaction and written in another | stuck claims are resolved; a blocked tenant is cleared | sessions: `OidcSession` |
| Tenants and admission (`A/platform_tenants.py`, `A/tenant_admission.py`) | `tenants`, quotas; a cache per process | provision, suspend, reactivate, quotas, admission of a request | the status is checked before it is used, and cached | no usable session of a blocked tenant lasts; a decision is at most one time to live old | partly, `OidcSession`, `TenantStateCache` |
| Source ingestion (`A/connector_source_ingestion.py`, REST and S3 variants) | requests with lease, token and attempt; checkpoints; batches; payload objects | submit, claim, renew, validate, extract, retry, dead-letter, cancel, requeue | a worker loses its lease in the middle of a read; objects are stored outside the transaction | a batch chain per binding without fork or gap; all bindings of a request or none; the object is what its batch says | `SourceIngestion`, `IngestionLedger`, `IngestionRefinement` |
| Source readers (`A/connector_source_extraction.py`, `A/connector_s3_source.py`, `A/connector_rest_*.py`) | the checkpoint they resume from | read a table, list a prefix, follow pages | the source changes during the read; limits cut a read anywhere | what is recorded adds up; nothing is left out silently; a checkpoint stays usable | `TableRead`, `S3Inventory`, `RestTraversal` |
| Connector runs and live sync (`A/connector_runs.py`, `W/connector_live_sync_activities.py`) | run row, batch checkpoints, checkpoint claims | dispatch, claim, renew, execute batches, release | activities retried by Temporal beside operators; claims that lapse | batches without gap or overlap; rows billed once | partly, `LiveSync` |
| Action runs and workflow history (`A/action_runs.py`, `A/workflow_history.py`) | `action_runs`, `workflow_runs`, timeline | request, outcome, transition by a decision | three writers of one history; retries under one key | one run per key; a timeline without gap; a run row that an event explains | `ActionHistory` |
| Usage metering (`A/usage_metering.py`) | event journal, bucket totals | admit a request, charge, project | lost commit acknowledgements; several projectors | every event billed once; no request served unbilled | `UsageMetering` |
| Portability restore (`A/portability_restore_runner.py`) | restore runs and steps | start, claim, complete, fail, block | workers that die and come back; two plans for a target | one handler at a time; completed means restored | `RestoreRun` |
| Credential leases (`A/connector_credential_leases.py`) | lease rows | issue, renew, revoke | renewal races revocation | a revoked lease is not used | a nondeterministic refusal elsewhere |
| Model invocations and agent runs (`A/model_invocations.py`, `A/agent_runs.py`) | `model_invocations`, `agent_runs` with steps, audit and usage events | invoke, run an agent | a paid provider call between two transactions, or inside one; repeated and dying requests | one call per key; no record half there | `ModelCalls` |
| Batch exports (`A/connector_source_batch_exports.py`) | export requests, artifacts in the object store | request, decide, materialise, read back | two writers of a row and of a storage key; the put is inside an open transaction | what was approved is what leaves; each transition once | `BatchExport` |
| Search index, rate limit, snapshot exports | rows, counters | see "Not modelled" | - | - | not modelled |
| Policies, OIDC protocol, assurance, HTTP routes, SDK, web console | rows written once, or none | functions of one request | - | - | not modelled |

How they meet: the API and the worker share only the database and Temporal. A
decision travels from a request (recorded with its outbox row in one commit)
through a worker (claim, signal, finalize) to a workflow. A session is created
by a login, handed on by refreshes, and ended by requests of its owner, by an
administrator, by the next login and by the worker's jobs; the tenant's status
is read by all of them and written by the platform operator. A request is
admitted through the tenant cache and journalled before its handler runs; the
projectors of all replicas fold the journal into the totals. An ingestion
request is submitted over HTTP and executed by the dispatchers, which read the
sources and share the checkpoints; a live synchronisation is driven by a
schedule and by operators through the same operations.

`PROJECT.json` lists every component, the hazards with the line where each one
bites, and which property would catch it.

## Modules

### ApprovalDelivery

State: `record` (approval_records), `outbox` (the row: status, attempt, claim
token, due, lease), `handler` (the open transaction of a request), `tasks`
(deliveries in flight in the workers), `net` (signals whose call timed out but
that may still arrive), `wf` (Temporal executions with their signal queues),
and the histories `replies`, `audits`, `tries`, `faults`.

| Code | Actions |
|---|---|
| `record_demo_approval_decision` | `BeginDecision` (permission, advisory lock, first read), `RepeatDecision` (replay or conflict), `DenyByPolicy`, `SignalNow` (direct mode), `CommitDecision`, `AbortDecision` |
| `run_once`, `_claim` | `Claim` of a batch: `FOR UPDATE SKIP LOCKED`, new token, attempt + 1, lease |
| `_signal_or_reconcile` | `SignalDelivered`, `SignalFailed` (the signal may still be on its way), `SignalRejected`, `Reconcile`, `ReconcileUnknown` |
| `_finalize_success`, `_finalize_failure` | `Finalize` through the claim token, `FinalizeRaises` |
| worker process | `WorkerCrash`; a failed finalization leaves siblings of the batch running (`awaited`) |
| clock | `LeaseExpires`, `RetryDue`: at any moment, so clocks may disagree |
| `ApprovalWorkflow`, Temporal | `StartWorkflow`, `CancelWorkflow`, `AcceptDecision`, `CompleteWorkflow`, `LegacySignal`, `LateArrival` |

`ApprovalPromise` is the abstract specification: an approval is decided once,
only that decision takes effect, and it is reported delivered only if it did
or the work was cancelled. `ApprovalRefinement` gives the refinement mapping.

The claim token (a `uuid4`) is the ordinal of the claim of its row, which is
all that fencing needs: no two claims of a row have the same.

### OidcSession

State: one row per session (`status`, `token`, `child`), what the clock makes
of it (`expired`, `stale`), the tenant's status, `work` (what each process has
read and has yet to write) and the history `root` (the login a session
descends from). A transaction that reads first and writes later is two steps.
The ORM writes by primary key what it computed from its first read, so a
revocation that raced a rotation overwrites it; `Revoke` and `Release` keep
that. `claim_`, `finalize_` and the revocation by reference test the row as
they write it and are one step.

| Code | Actions |
|---|---|
| `oidc_callback` | `Authenticate` (tenant checked in a transaction of its own), `Admit` (admission lock, excess), `CommitLogin` |
| `identity_session_refresh` | `BeginRefresh`, `ClaimRefresh`; then `FinalizeRefresh`, `FailRefresh` or `BeginRelease`/`Release` |
| dead cookies, logout | `ReadExpired`, `ReadBlocked`, `ReadUnreadable`, `ReadLogout`, and `Revoke` |
| `identity_session_revoke` | `RevokeByReference` |
| `run_orphaned_session_sweep_job` | `ScanSessions`, then per candidate `LoadSwept` and `RevokeSwept` or `FailSwept` |
| `_reconcile_one_tenant` | `Reconcile`, then `Revoke` |
| environment | `SuspendTenant`, `ReactivateTenant`, `SessionExpires`, `ClaimGoesStale`, `Crash` |

The sweep is modelled row by row, which is what it falls back to when a batch
fails; a batch that commits as a whole gives other processes fewer states to
meet. The batch limits only postpone rows to the next run.

### SourceIngestion, IngestionLedger, IngestionRefinement

State: one row per request (`row`: status, stage, attempts, token, lease),
the attempts in its evidence (`timeline`), audit counts, the `checkpoint` of a
binding, `batches`, the payload `objects`, and what every dispatcher is doing
(`work`).

| Code | Actions |
|---|---|
| submission, cancellation, requeue | `Operator` |
| `claim_connector_source_ingestion` | `Claim`, then `Take` of each row of the batch |
| validation stage | `Validate` |
| extraction of a binding | `Prepare` (lease renewed in a short transaction), `ReadSource`, `StoreObject` (no transaction) |
| completion | `Commit` of all batches, checkpoints and the row under the token; `CommitNothing` when the acknowledgement is lost or the fence refuses |
| failure | `FinalizeFailure`: retry with delay or dead letter |
| environment | `LeaseExpires`, `RetryDue`, `PassEnds` (crash or shutdown) |

`IngestionLedger` is the abstract specification: requests open and close, and
an extraction that closes adds an entry per binding, all at once, each from
where the chain of that binding ended. `IngestionRefinement` maps batches to
entries and rows to states.

### S3Inventory, RestTraversal, TableRead

The three readers. `S3Inventory`: `StartListing`, `ListNext`, `CompareNext`,
`Emit`, `CommitRead` against a bucket that changes between any two of them;
`mirror` is what a consumer of the records would hold. `RestTraversal`: a page
and its checkpoint per step, against a source that may hand out any
continuation. `TableRead`: `_read_bounded` row by row, with edits of the table
between the pages. The watermark is the cell that `_row_to_dict` made of the
last key, and where such a cell stands among the keys is a variable of the
table, `rendered`: with it (numbers, text, uuid, dates, decimals), elsewhere
(`bytea`), or where the statement of the next page fails (`ReadFails`).
`NothingIsLostSilently` names the reads it is true of: keys that keep their
order as text (`KeepsOrder`), tables without a key, and reads that end within
the first page. `Ordered` has the order by key that S3 and PostgreSQL
return their items in.

### ActionHistory

The three transactions that write an action run and the history of its
workflow, statement by statement, with the row locks each flush takes and the
unique keys each insert meets. `EnsureFlow` is `ensure_workflow_run`,
`UpdateFlow` the flush of the run row, `NumberEvent` and `AppendEvent` the
timeline. The row's state is read without a lock (`loaded`), and the flush
writes it only where it differs from what was read (`Flushed`), so that it may
stay behind: `TimelineIsComplete` says what is left, that a row that differs
from its latest event had been in that event's state before, and is now in the
state of an event in between. The bootstrap takes the first state from a
reference record (`FirstStates`); an outcome has two of the states. The other
columns, flushed the same way, are left out. A database deadlock (the three take the two rows in different
orders) ends in `Rollback`.

### RestoreRun

`start_restore_run` is `BeginStart` under the tenant's row lock and its commit
`InsertRestore` or `ResumeRestore`; `claim_step`, `complete_step`, `fail_step`
and `block_unsupported_steps` are one step each under the run's lock.
Handlers run with no transaction open, between `ClaimStep` and `HandlerEnds`.

### LiveSync

An attempt (`tick`) lists the run, claims its last batch checkpoint, executes
and releases. `thread` is an open transaction of an activity: `BeginExecution`
(checks, seed), `Resume` (latest checkpoint, claim), `ReadBatch` per batch,
`PersistOutcome` with the commit. An activity that Temporal starts again is a
second thread with the same attempt.

### UsageMetering

`Admit`, `AppendBreaks`, `LateCommit` and `Reconcile` are
`RequestUsageAdmissionRecorder.record` with a commit that succeeds, breaks,
lands later and is looked for; `InsertCharge`/`CommitCharge` the synchronous
charge in the transaction of its source; `LookForPending`, `ClaimEvents` and
`CommitProjection` a projection: snapshot, locked rows skipped, marks and
totals in one commit.

### TenantStateCache

`snapshot` in its four steps (`ReadClock`, `LookUp`, `LoadState`,
`StoreState`) by unsynchronised threads, beside changes made here (which
invalidate after their commit) and elsewhere (which do not).

### ModelCalls

`caller` is a request with its open transaction. `PrepareInvocation` is
`_prepare_invocation`: it commits the row of a direct invocation before the
provider is called (`CommitsBeforeCall`) and leaves that of an embedded one to
the agent run's transaction. `CallRuntime` is the call with the finalisation;
`CommitCall` the end of the request. An agent run is `InsertAgentRun`, then
`ExecutionDisabled` or `ReadContext`, `RouteInvocation`, the invocation,
`TakeOutcome` and `RefuseProposal` or `AcceptProposal`, all uncommitted until
`CommitCall`. `CallBreaks` may come between any two of them.

### BatchExport

Per operation a read, a fence and a commit: `AskForExport` and `InsertExport`,
`ReadForDecision` and `FenceDecision`, `ReadForArtifact` and `FenceArtifact`,
then `PutArtifact` outside the database and `CommitExport`. A fence is an
`UPDATE` that tests the row again and locks it. `RequestFails` rolls back and
leaves the object where it is; `ConnectionLost` drops the transaction under a
thread that still has its put ahead. `OpenArtifact` and `ServeArtifact` are
the read of the row and of the object, which may be overwritten in between.

### Faults

Definitions under a comment that begins with "Fault:" belong to no
specification. They are wrong versions of a mapped definition, one for each
checked property; replacing the definition by its fault must make TLC find the
property violated.

## Runs

| Run | Instance | Shows |
|---|---|---|
| `approval_outbox` | 1 approval, 2 requests, 2 workers, 3 attempts, 2 faults | record, row and workflow agree through crashes, late workers, late signals and retries; each row is audited once; the promise is kept |
| `approval_shared` | 2 approvals and boolean senders, one workflow | the first decision stands; a delivered row did reach the workflow |
| `approval_direct` | outbox disabled, 2 requests, 3 tries | one recorded decision; nothing is signalled after its commit |
| `approval_liveness` | 2 approvals sharing a workflow, one with a rejected contract, fairness | every decision is delivered or given up; a delivered one ends its workflow |
| `session_refresh` | 2 requests, 1 job, a login and its rotation, released claims | one usable session per login, one exchange per token, no credential left |
| `session_revocation` | 2 requests, 1 job, no configuration faults, fairness | revocation is final; an ended login stays ended; logins respect the cap; every refresh claim is resolved; a suspended tenant is cleared |
| `session_cap_refresh` | 2 requests, 3 sessions, stored refresh tokens | **violated**, see below |
| `ingestion_ledger` | 2 requests over 2 bindings, 2 dispatchers, S3 or REST | the batches are the abstract ledger; every object is the one its batch describes |
| `ingestion_history` | 1 request over 2 bindings, any connector, a crash, an expired lease, a requeue, fairness | row, evidence, batches and audit agree, and no attempt past the last one is retried; all bindings or none; the request settles |
| `ingestion_store` | 1 request, PostgreSQL, a lease that expires during the read | **violated**, see below |
| `source_reads` | the three readers, one per behaviour; fairness for S3 | records add up and catch up with the bucket; absences are real; short circles are caught and the REST checkpoint stays readable (`WindowIsSound`); a table read says what it left out |
| `components` | ActionHistory, RestoreRun, LiveSync, UsageMetering, TenantStateCache, ModelCalls, BatchExport, one per behaviour | history and idempotency under racing writers; one restore handler at a time; rows billed once; totals exact; staleness bounded; one provider call per key and whole records; an export is written once and read back as approved |

`source_reads` and `components` check several modules that share no variable:
a variable that never changes says which one a behaviour exercises, and the
others rest in one initial state. Each module is explored as in a run of its
own.

Run one with `tlc -config ApprovalOutbox.cfg MCApprovalDelivery`.

Deadlock is not checked: every one of these systems may rest, with all
decisions delivered, all sessions ended, all requests settled, and the bounds
reached.

### What the violated runs show

`session_cap_refresh`. `docs/deployment.md` (1229-1234) says that the
concurrent-session cap "remains exact across concurrent callbacks and API
replicas". The login counts active rows only. While a session is being
refreshed its status is "refreshing": it is neither counted nor evicted, and
the refresh then inserts its child as active without the admission lock and
without counting. With a cap of one, a login during a refresh leaves two
active sessions; the next login restores the cap. A second way is an eviction
that read the parent before its rotation and revokes the parent after it. What
does hold is `LoginsRespectCap`, which `session_revocation` checks.

`ingestion_store`. `docs/platform-connectors.md` (1449-1453) says that "genuinely
new bytes never collide with immutable recorded history". The key of a
PostgreSQL batch object is made of request, binding and generation, the
generation counts recorded batches, and the put is not fenced by the claim: a
worker whose lease expired during its read stores what it read over the object
of a batch that another worker has recorded meanwhile. S3 and REST objects are
named by their digest, which is what `ingestion_ledger` checks.

### Observations

Met while modelling, each at the line given, and not stated as a property:

- `docs/platform-connectors.md` says two workers cannot resume the same run
  concurrently, and `connector_live_sync_activities.py` 287 that an execution
  "never loses single-worker ownership mid-run". The claim is checked before
  the batch loop only (`connector_runs.py` 1979), so a lease that lapses in
  the loop, or an activity that is started again, lets two executions resume
  from one checkpoint. The unique id of a batch checkpoint makes the loser
  roll back as a whole, so that `RowsAreMeteredOnce` holds all the same.
- `connector_runs.py` 1187: a dispatch that read the run before an execution
  committed writes status and summary whole over it. The execution's batches
  stay, and the run may be executed again.
- `connector_runs.py` 1944: the lease is validated again before every batch,
  but the row is the one already loaded in the session; an expiry is noticed,
  a revocation committed by another session is not.
- `persistence.py` 2295, 2356: the list of pending signals is copied before
  the row is locked and overwritten whole, so that of two concurrent writers
  the second drops the entry of the first; the timeline keeps both. An outcome
  of an action run may likewise be overwritten by a concurrent outcome or by
  a later decision (`persistence.py` 2090).
- `persistence.py` 2244, 2329 and 2391: the workflow run is read without a lock
  and its flush leaves out the columns whose new value equals the one that was
  read. A second request that read `action_requested` and waited for a
  decision's lock writes neither state nor status, although its event is the
  latest: the row keeps the decision's. Columns may come from different
  writers. `docs/platform-workflows.md` 75-78 says that persistence "appends
  `workflow.action_run.recorded` timeline evidence, updates the workflow
  state/current step"; the evidence is appended in any case.
- `connector_source_extraction.py` 496: the keyset watermark is the key's JSON
  form. A `bytea` key becomes `<binary N bytes>`, which the next page's
  statement and the probe compare with the keys themselves: with the keys
  `01`, `02`, `03` and pages of two, `03` is left out and the batch says
  `truncated=false`; keys above the text are read again and again up to the
  limit. A `real` key, sent as a double, may repeat its row, and a key of a
  type that is not comparable with text ends the read with an error. The
  comments say "honest watermark, resumable later" (453) and "truncation truth
  is exact" (500), and `docs/platform-connectors.md` 1383-1385 has a
  "deterministic watermark" and caps that are "honest successes". The
  condition of `NothingIsLostSilently` is there for this: without it TLC finds
  both the loss and the repeated row in the `source_reads` run.
- `platform_tenants.py` 808: "single-process deployments see changes at once"
  does not hold for a lookup that loaded the row before the change and stores
  it after the invalidation; `StalenessIsBounded` is what remains. At
  `platform_tenants.py` 843 two threads that evict at the same time may pick
  the same key, and the second pop raises.
- `portability_restore_runner.py` 513: a registry without a handler for a
  component, asked after all steps are completed, puts a completed run back
  into quarantine, and no plan can be started for the target any more.
- `usage_metering.py` 163: a request that was refused because its event could
  not be found may be billed when the commit lands later. Exactness is of the
  journal, not of the answers; the other direction is `UsageIsExact`.
- `persistence.py` 3650: a requeue is idempotent while the request is pending;
  the same ask after a second dead letter requeues again.
- `action_runs.py` 897 says that the loser of a race for an idempotency key
  "replays". Handlers are coroutines over a synchronous session: the loser's
  insert blocks the event loop of its process. If the winner is a handler of
  the same process that awaits its signal with the transaction open, it cannot
  resume, and nothing but a statement timeout (`postgres_statement_timeout_ms`,
  0 by default) ends the wait. The same holds for `start_agent_run` and for
  the advisory lock of direct decisions (`persistence.py` 1878). Two processes,
  as in the models, do not block each other this way.
- `agent_runs.py` 747: the loser of a race for the key of an agent run gets an
  unhandled unique violation instead of a replay. A run whose process dies is
  not on record, and a retry calls the provider again; `AtMostOneCall` says
  what holds.
- `connector_source_batch_exports.py` 892: a thread that lost its connection
  after the fence puts its artifact over the recorded one if the
  materialisation ids are equal. The reader then refuses
  (`artifact_checksum_mismatch`) until somebody restores the object.
- `connector_source_batch_exports.py` 391: the fingerprint of a request leaves
  out `export_request_id`, so that the same key with another id is answered
  with the first export.
- `persistence.py` 2015: the decision of a batch or snapshot export is written
  to the approval record without the advisory lock of approval decisions, and
  the approval id is the client's choice.
- `connector_evidence_invariants.py`: snapshot exports have no fence; a
  decision can be changed after the artifact was written, and two concurrent
  materialisations both write and audit.
- `search_rebuild.py`: live writes stamped before the watermark of a rebuild
  and committed after its export would slip past the fence. No production
  code starts a rebuild at this commit.

### Bounds

- `MaxTries` (transactions per approval): two is a decision and a rolled back
  or repeated one; direct mode has three, since there each rolled back one
  leaves a signal.
- `MaxFaults`: two lets the second holder of a claim fail like the first while
  a third works; the outbox run has three attempts, so that a row can be given
  up early, late and exactly on time.
- Two requests, two workers: every race in the code is between two writers of
  one row; a third adds no new pair. The proofs have no such bound.
- `MaxSessions`: two sessions are a login and its rotation, three add an
  evicting login or a rotation of the rotation.
- Ingestion: two requests that share a binding, two dispatchers, two attempts
  are a race for a checkpoint, a stale worker beside its successor, and an
  attempt past the last one. One stall, crash and requeue each, in the run
  that is about them.
- Readers: two object keys and three versions, of which two have the same
  content, with a limit of one record; a window of two continuations among
  four; four keys with a page of two and a limit of three rows, so that a page
  and the limit are reached exactly, missed by one and passed. Three
  conversions of keys: one that keeps the order (uuid), one whose value lies
  just below the key, so that its row comes again (`real`), and one value for
  all keys (`bytea`).
- `ActionHistory`: two clients, two keys, two payloads and three events: a race
  for a key and a race for a number with one event before it. Two first
  states, one of which an operation sets, and two outcomes.
- `RestoreRun`: three plans of two bundles, a component without a handler, two
  claims of a step: one that dies and its successor.
- `LiveSync`: three attempts in two threads over a source of two rows in
  batches of one, of which the first is rejected: a fresh run that stops
  half-way, its resumption, and a competitor. The property was also checked
  with two dispatches and with two row limits.
- `UsageMetering`: three requests in two periods, batches of two, two
  projectors, a charge with two tries.
- `TenantStateCache`: a time to live of two, two lookups and two changes: an
  entry that expires, a store that is overtaken and a change in between.
- `ModelCalls`: two requests, one key of each kind and two asks: a race, a
  repetition after a crash, and a conflict. Also checked with three requests.
- `BatchExport`: one export id under two keys with two asks, two approvals and
  a rejection, two materialisations under one id, two attempts: a racing pair
  for each fence and a stale writer. Also checked with two ids, with three
  threads and with three attempts.
- Symmetry is used for requests, workers and jobs, in runs without liveness.

### Fairness

`ApprovalDelivery!FairSpec`: the dispatch loop (`run_dispatch_loop`) polls for
ever and claims in the order of `available_at`, so a row that is due again and
again is claimed (strong fairness of `ClaimRow`); a delivery has deadlines on
its calls and ends (weak fairness); leases and delays run out; Temporal
delivers buffered signals and completes runs. Crashes are not fair and are
bounded by `MaxFaults`.

`OidcSession!FairSpec`: Temporal schedules start the sweep and the
reconciliation again and again, whatever became of the last run, and not every
attempt fails at the same step (strong fairness of the steps of a job); a
request past its reads ends, if only by dying; claims go stale. Nothing is
assumed of users: no login, logout, refresh or expired cookie is ever due.

`SourceIngestion!FairSpec`: the dispatch loop polls for ever (weak fairness of
the steps of a dispatcher, which have deadlines), delays run out, and so does
the lease of a holder that is gone. Crashes and stalls are bounded, not fair.

`S3Inventory!InventoryFairness`: extractions of the binding keep being
requested and run; the bucket changes finitely often.

## Theorems

Every invariant, action property and refinement that a passing run checks is
also proved, for every value of the constants that satisfies the assumptions
of the module. These say what kind of value a constant is, and a little more:
what is counted, summed or sorted is finite (`UsageAssumption`,
`InventoryAssumption`, `TableAssumption`); the value that stands for "nothing"
is not among the values it is told from (`ExportAssumption`,
`RestoreAssumption`, `HistoryAssumption`, `TraversalAssumption`, and the two
above); sizes, batches and windows are positive where the settings demand it.
TLC evaluates the assumptions in every run.

A theorem is about the specification of its component: `Spec` for the approval
path, the sessions and the ingestion, and `CacheSpec`, `RestoreSpec`,
`UsageSpec`, `SyncSpec`, `HistorySpec`, `ModelCallsSpec`, `ExportSpec`,
`InventorySpec`, `TraversalSpec` and `TableSpec` for the modules that
`MCComponents` and `MCSourceReads` put side by side.

| Theorem | States | Argument |
|---|---|---|
| **ApprovalSafety_proofs** | | |
| `TypeCorrect` | `TypeOK` of ApprovalDelivery | with `TasksHaveRows`: a delivery is of an existing row |
| `RepliesAgree` | `ReplyAgreesWithRecord` | `DecisionInv`: while a transaction is open its approval is undecided, and no two are open for one approval (`LockInv`); a row carries the recorded decision (`RowInv`) |
| `AuditIsExact`, `ClaimsExclude`, `AttemptsBounded`, `DeadLettersJustified` | the outbox invariants | `ClaimInv`: the token of a row is its newest claim, only that one can finalize, an unfinished claim of a lost worker is accounted for in `faults`, and a permanent outcome has its reason in a workflow that cannot change any more |
| `FirstWriteStands` | `FirstWriteWins` | from types alone, per action |
| **ApprovalRefinement_proofs** | | |
| `NoPhantoms` | `NoPhantomDecision` | `PhantomInv`: signals are copies of committed rows, whose payload never changes |
| `DeliveryIsSeen` | `DeliveredWasSeen`, without `OwnWorkflows` | `ArrivalInv`: a task that will finalize as delivered has its decision in the workflow, as a signal or as its result |
| `LastSignalMatches` | `LastSignalMatchesRecord`, in either mode | `TimeInv`: a signal is no newer than the last transaction of its approval, and one of that transaction carries what it recorded or is about to |
| `DeliveryIsEffective`, `NoConflicts` | under `OwnWorkflows` | `OwnInv`: a workflow sees the signals of one approval only, so all are equal, and a task that will finalize as delivered has its signal in the workflow |
| `PromiseKept` | `KeepsPromise` under `OwnWorkflows` | each action maps to a step or a stutter of `ApprovalPromise`, using `OwnInv` |
| **OidcSession_proofs** | | |
| `SessionTypes`, `LineageLinear`, `ExchangesExclusive`, `CredentialsDropped` | the session invariants | `SessionInv`, below |
| `RevocationFinal`, `EndedLoginsEnd` | `RevocationStands`, `EndedLoginsStayEnded` under `~ConfigurationFaults` | `RowEffects`: what a step can do to the rows |
| `LoginsWithinCap` | `LoginsRespectCap` under `~ConfigurationFaults` | `CapInv`: what a login will evict is enough, since no step but an insert adds to the active sessions of logins, and the admission lock admits one at a time |
| **SourceIngestion_proofs** | | |
| `IngestionTypes`, `ExtractionAllOrNothing`, `HistoryTruthful` | the ingestion invariants | `IngestionInv`, below |
| `ObjectsMatch` | `RecordedObjectsMatch` under `"postgres" \notin Connectors` | `StoreInv`: a key determines what is stored under it, because it contains the digest |
| `LedgerKept` | `KeepsLedger` | each action maps to a step of `IngestionLedger` or to a stutter; a completing commit adds exactly the entries that follow the checkpoints |
| **SourceReaders_proofs** | | |
| `RecordsAlwaysAddUp`, `AbsencesReal` | the inventory invariants | `InventoryInv`: a record is of what was listed (`RecordsInv`); where a reader has no record its new inventory agrees with the one on record, unless another read was committed (`BasisInv`); a key listed as absent was absent during the listing (`GoneInv`) |
| `WindowSound` | `WindowIsSound` | `TraversalInv`: the visited list is the last `Window` continuations handed out (`Remembers`), no two equal ones are that close (`NoCircle`), and an open checkpoint is below the ceiling (`CheckpointInv`) |
| `NothingLostSilently` | `NothingIsLostSilently` | `TableInv`: the rows read and the page in hand repeat nothing and ascend where there is a key (`Orderly`), and a row that stood all the while is among them, or beyond them where more may come (`Covers`), wherever no watermark of another order has limited the read (`Trusted`), which needs that a read that goes on has used up a page (`Paged`) |
| **Requests_proofs** | | |
| `RunsIdempotent`, `TimelineComplete` | the history invariants | `HistoryInv`: locks exclude (`LocksAreExclusive`), a request past its insert holds its key and every other writer keeps the payload (`WritesWell`), and a number is read and kept under the lock of the run row, so that it is still the next one (`NumbersWell`); what was read of the row's state is current, or an event in between explains the row (`ReadsWell`, `StateIsTold`) |
| `CallsAreSingle`, `RecordsWhole` | the invocation invariants | `CallsInv`: one request owns a key (`OneOwner`), its uncommitted row is as far as its progress says (`CallProgress`), committed rows are whole and count the calls (`CallRows`) |
| `TransitionsOnce`, `ApprovedArtifacts` | the export invariants | `ExportInv`: one handler holds a row (`OneHolder`), whose transition is still open (`HandlerInv`); an operation is audited exactly if the row shows it (`Trails`); unless a transaction died after its fence, an export is put once and the object is the recorded one (`PutsAreSingle`, `RecordedArtifacts`) |
| **Platform_proofs** | | |
| `StalenessBounded` | `StalenessIsBounded` | `CacheInv`: the state in an entry, and in the hands of a lookup, was in force at the moment the expiry counts from |
| `HandlersAreExclusive`, `CompletionIsHonest` | the restore invariants | `RestoreInv`: at most one run of the target has steps left (`SoleOpenRun`), a worker that executes a handler has the fence of its run, and one that starts a run has the tenant row, until whose release no other run becomes open (`HandInv`); evidence stands behind every completed step (`RunInv`) |
| `UsageExact` | `UsageIsExact` | `UsageInv`: what a projector has locked is pending and locked by it alone (`ProjectorInv`), a charge is inserted by one try at a time (`ChargeInv`), a commit under way has not landed (`AdmissionInv`), and a total is the sum of its projected events (`LedgerInv`) |
| `RowsMeteredOnce` | `RowsAreMeteredOnce` | `SyncInv`, below |

`OwnWorkflows` is the deployment the outbox is for: outbox enabled, no boolean
senders, one workflow per approval. Without it a workflow may act on another
approval's decision; `DeliveryIsSeen` is what remains.

`SessionInv` is needed because none of the properties is inductive. A chain
stays linear since exactly one session of a login has no child (`TipInv`) and
usable sessions have none (`RowInv`); that survives a rotation because the
rotating request is the only holder of the parent, and the parent has no child
(`HolderInv`), even after others revoked it. Revocations write ids read
earlier, so the ids must exist (`WorkInv`); a login writes an id reserved
before, so nobody else may have taken it (`WorkInv`).

`~ConfigurationFaults`: `release_oidc_browser_session_refresh` reads
"refreshing" without a lock and writes "active" by primary key, so a
revocation committed in between would be undone. The path is taken when the
token exchange reports a configuration error. The default exchanger raises
none, and the settings used after it were already needed to read the cookie,
so only an exchanger supplied by a deployment can reach it. `LineageLinear`,
`ExchangesExclusive` and `CredentialsDropped` hold with it all the same.

`IngestionInv` says of a request that its row, attempts and audit events agree
(`RequestInv`), of the store that a name with a digest has that payload
(`StoreInv`), and of every dispatcher what it may rely on (`WorkInv`): its
token was issued, and while it is the current one its attempt is the one the
row counts (`GoodClaim`); the checkpoint it started from is the current one or
has been passed (`Based`); the bindings of its request are divided into those
left and those extracted, with one result each (`Gathered`). A dispatcher
whose claim was taken over keeps what it has read; the token, and the revision
of the checkpoint, keep it from recording it. `Kept` lists what no step takes away from
the other dispatchers, so that each action is only asked about its own.

`SyncInv` is the largest. The committed batches are a chain by index, sequence
and position, each with the total of the rows up to it (`Chain`). An execution
in its loop goes on from a batch that is committed (`Based`), and once it has
inserted one, that batch is the last and what it has inserted continues the
chain (`Ahead`): the unique id of a batch is what makes a second one wait and
fail, so that one execution at a time has uncommitted batches (`WriterInv`).
The total it subtracts is that of the batch it resumes from; where it read the
total before it resumed, its claim is of an earlier batch if the two differ,
and the resumption refuses (`Planned`, with `ClaimInv` and `TickInv`).
`MeterInv` equates what was metered with the total of the last batch. The
property holds although two executions may resume from one checkpoint: what
the claim does not exclude, the id does.

### Induction over data

Sums, ascending lists and chains of any length need induction, and the
library's theorems for it take an operator as a parameter, which the provers
cannot instantiate. `Induction_proofs` therefore states induction with a set:
`NumberInduction` says that a set with 0 that is closed under successor
contains the numbers, `SubsetInduction` the same of the subsets of a finite
set. A proof names the set of numbers (or subsets) with the property it wants
and cites the lemma. On these rest the lemmas about finite sums (an
element may be taken out, a disjoint union adds up, equal terms give equal
sums) and
about `Ascending`, the one operator of `Ordered`, which is the order in which
S3 lists keys and PostgreSQL returns a page.

### Only model-checked

The liveness properties, since fairness is outside the prover's reach:
`EverySettles`, `DeliveredCompletes`, `ClaimsResolve`,
`BlockedTenantIsCleared`, `EveryRequestSettles`, `MirrorCatchesUp`. The two
violated runs (`CapIsExact`, and `RecordedObjectsMatch` for PostgreSQL) have
no theorem. `TypeOK` of ApprovalDelivery, OidcSession and SourceIngestion,
`ClaimsAreExclusive`, `NoPhantomDecision` and `DeliveredIsEffective` are
proved and not checked by a run of their own.

## Not modelled

- Contents: payload formats, cookie encoding and signatures, token decryption,
  audit payloads, device metadata. Where one can fail, the failure is a choice
  (`SignalRejected`, `ReadUnreadable`, `FailRefresh`).
- `last_seen_at`: it moves the idle timeout, and a session may expire at any
  moment in the model. A touch that races a refresh claim moves `updated_at`
  and so delays its staleness, which only makes `ClaimGoesStale` later.
- SQLite profiles: writes are serialised there and the locks are no-ops.
- The policy engine: a pure function of one request; its verdict is a choice.
- Search rebuild: no route, job or schedule starts one at this commit; what
  it races with is the caller's choice.
- Snapshot exports (`connector_evidence_invariants.py`): the same life cycle as
  batch exports without the fences; see the observations.
- One event loop for all handlers of a process: a request that waits for a
  lock never stops another one here; see the observations.
- Credential leases beyond their verdict; the counter of the rate limiter,
  which is one step without an await (or one Redis script).
- Connector runs without a live plan, and evidence read models: one row, or
  reads.
- Web console, SDK client, policy evaluation, document validation, assurance
  and release tooling, demo reference data, HTTP schemas: functions of one
  input, without state that others change. They are most of the code by
  volume, which is why the mapped share of all lines stays small: the models
  cover the code with claims, leases, locks, retries and shared rows.

## Plan

1. Action properties for the modules that have only invariants: a finished
   outbox row, a completed restore step, a projected usage event and a
   materialised export are never written again.
2. Abstract specifications for `UsageMetering` (a set of billed events) and
   `LiveSync` (a position that advances), refined as the ledger is.
3. Snapshot exports beside `BatchExport`, sharing the approval record.
4. Pending signals as data of `ActionHistory`, composed with
   `ApprovalDelivery`.
