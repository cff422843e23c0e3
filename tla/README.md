# CloudOps platform: a TLA+ verification project

The CloudOps platform watches a fleet of cloud accounts, clusters, certificates,
credentials, source repositories and pipelines, and tells people when something
is wrong. It is a FastAPI application (`src/apps/api/app`), a Celery worker and
beat process (`src/apps/worker`), a PostgreSQL database and a web console
(`src/apps/web`). This directory models the parts of it in which an order of
events can go wrong, checks them with TLC and proves the central invariants with
TLAPS.

Paths below are relative to `src/apps/api/app` unless they begin with `src/`.

## 1. Inventory

| Component | State | Operations | Talks to |
|---|---|---|---|
| Unified alerts (`alerting/`) | `alerts`, `alert_suppressions`, `maintenance_windows`, rules, routes, policies and steps | `publish`, `resolve_alert`, `resolve_source`, `acknowledge_alert`, `suppress_alert`, `run_escalation`, `run_suppression_expiry` | called by the certificate, health, pipeline, GitHub and credential publishers inside *their* transactions; queues deliveries |
| Notification dispatch (`notifications/`) | `notification_deliveries`, `notification_destinations` | `deliver`, `dispatch_pending` | Teams, Slack, e-mail, webhook providers; four jobs and every `publish` call it |
| Background jobs (`services/jobs.py`, `task_dispatch.py`, `src/apps/worker`) | `platform_jobs`, messages of the Celery broker | `enqueue_job`, `submit_job`, the tasks, `mark_job_running`, `mark_job_finished` | every HTTP "run now", every beat tick |
| Credentials (`services/credentials.py`, `credential_jobs.py`, `secrets/`) | `credentials`, versions, validations, rotation events; the secret backend | create, replace, validate, disable, rotate, scan | the secret backend and the database are two stores |
| Certificate monitor (`services/certificate_monitor.py`, `certificate_jobs.py`) | `certificates`, `certificate_alerts` | discovery, `evaluate_alerts`, mark missing, renew, acknowledge | publishes into unified alerts |
| Application health (`services/health_sync.py`, `integrations/health/`) | per-component and per-application status, consecutive counters, incidents, scan locks | scans, aggregation, incident and alert evaluation | publishes into unified alerts |
| Webhook deliveries (`services/github_webhooks.py`, `pipeline_webhooks.py`) | `*_webhook_deliveries` | accept, enqueue, process | GitHub and Azure DevOps redeliver; jobs |
| Pipelines (`services/pipeline_sync.py`, `integrations/pipelines/`) | pipelines, runs, `pipeline_alerts` | sync, `correlate_run`, `evaluate_run_alert` | publishes into unified alerts |
| Cloud inventory (`services/aws_sync.py`, `alibaba_sync.py`, `db/repository.py`) | clusters, certificates, secrets with a `present` flag, per-scope success times | scans per account and environment, `replace_*_for_scope` | cloud providers |
| GitHub sync (`services/github_sync.py`, `github_secrets.py`) | repositories, workflows, runs, variables, `github_alerts` | upserts, `evaluate_run_alert` | GitHub API; publishes into unified alerts |
| Platform administration (`platform/`) | providers, accounts, environments, bindings, settings | edits, validation, readiness | read by the scans |
| Schema (`db/models.py`, `src/apps/api/migrations`) | the tables | `alembic upgrade`, `downgrade`, `create_all` | everything |
| Presentation (`services/catalog.py`, `overlay.py`, `mappers.py`, `platform/presenters.py`) | none | lists, pages, matrix and indicators, live or over demonstration data | reads all tables |
| Authorisation (`core/`) | role tables, a rate counter | checks | every route |
| Topology, cloud and SCM providers, HTTP API, web console, infrastructure | none that changes by itself | formatting, API wrappers | |

What makes each component correct:

* **alerts**: one active alert per fault; nobody is told twice of one fault;
  silence is respected; suppressions end; due escalations happen; what the
  console shows changes only by the steps an operator expects;
* **dispatch**: a row recorded as sent was accepted; the retry schedule bounds
  the attempts; settled rows stay settled; every row settles;
* **jobs**: one job of a kind at a time; a row that blocks its kind is in
  somebody's hands; work is not repeated without cause; jobs end;
* **credentials**: the secret that the backend holds, the fingerprint and the
  status in the row speak of the same version of the credential;
* **certificates**: one active alert per certificate, closed by a renewal, and
  agreeing with the unified alert;
* **health**: an incident opens after, and closes after, the configured number
  of consecutive results, each result counted once; a scan excludes another;
* **webhooks**: each event is processed, and processed once;
* **pipelines**: a failing pipeline has an open alert and a recovered one has none;
* **inventory**: a row is `present` exactly when the last successful scan of its
  scope saw it;
* **administration**: nothing loses its owner, and a readiness is earned by the
  account that has it;
* **schema**: every way of migrating ends in the tables the code declares, and
  every migration can be taken back;
* **presentation**: two views of the same rows agree.

What is hard here: handlers and jobs run in many processes with a session each
and no row locks or version columns; providers answer late; tasks are retried
and redelivered (`acks_late`); several rows are changed before one commit; rows
are decided upon in one transaction and acted upon in a later one.
`PROJECT.json` lists each such place with its line ("hazards").

## 2. Modules

| Module | What it is |
|---|---|
| `DeliveryRows` | the delivery row, its statuses, and `deliver()` as the operator `Deliver` |
| `AlertLifecycle` | the alerting component: alerts, deliveries, suppressions, windows, destinations; one action per handler and job |
| `AlertBoard` | abstract: what a reader of the alerts is promised, per fingerprint |
| `EscalationJobs` | `run_escalation()` in jobs that overlap, for one escalation to one destination |
| `AlertSessions` | the requests and jobs that raise, resolve, acknowledge and suppress one fault, in sessions that overlap |
| `NotificationDispatch` | `dispatch_pending()` run by several processes with sessions of their own |
| `DeliveryLedger` | abstract: what a queued notification is promised |
| `JobQueue` | `enqueue_job()`, the broker, the tasks |
| `JobKinds` | the forty kinds of job and the families their tasks fall into |
| `CredentialStore` | credentials as rows and secrets in two stores |
| `ExpiryClasses` | `classify_expiry()` |
| `CertificateMonitor` | one certificate, its alerts, and the jobs that evaluate it |
| `HealthRules` | statuses and the aggregation of an application's status |
| `ClusterResources` | from a Kubernetes listing to resources, snapshots, summaries and signals |
| `HealthScan` | one application: scans, checks, counters, incidents, alerts |
| `PipelineRuns` | the runs of a pipeline or workflow, webhooks, syncs, alerts |
| `InventoryScan` | clusters and TLS certificates under overlapping scans |
| `PlatformAdmin` | providers, accounts and environments under concurrent requests |
| `SchemaModels`, `SchemaMigrations` | the tables the code declares, and the ten migrations |
| `ConsoleViews`, `ConsoleChecks` | what the console shows of one database, and how far its views agree |
| `*Proofs` | theorems about `AlertLifecycle`, `NotificationDispatch`, `JobQueue`, `CredentialStore`, `CertificateMonitor`, `HealthScan` and `PipelineRuns`; `PlatformProofs` has those about `InventoryScan` and `PlatformAdmin`, `AlertLifecycleProofs` those about `EscalationJobs` and `AlertSessions`, `HealthScanProofs` those about `HealthRules`, `CertificateMonitorProofs` those about `ConsoleViews` |
| `MC*` | instances for TLC |

How they are composed. `AlertLifecycle` and `NotificationDispatch` share
`DeliveryRows`, so both run the same `deliver()`: the first has every handler and
runs each as one transaction, the second has one handler and opens it up into
its query, its provider calls and its commit. What `AlertLifecycle` says is hence
said of transactions that follow one another, and its comments say so where it
matters. `EscalationJobs` and `AlertSessions` open up the other handlers, the first
the job that escalates, the second those that change one fault, and say what is
left of the same claims when the transactions overlap. The publishers
(`CertificateMonitor`, `HealthScan`, `PipelineRuns`) each hold the unified
alerts about their own object beside their own alerts, as `publish()` and
`resolve_source()` leave them, because the agreement of the two is what they
can break. `HealthScan` takes its worlds from inventories through
`ClusterResources`, and its status from `HealthRules`. `JobQueue` says how a job
comes to run and end; the other modules begin where it runs.
`CertificateMonitor` and `ConsoleViews` classify by the same `ExpiryClasses`.

Where a module says *session* or *job*, it is the unit of work of SQLAlchemy: a
transaction reads rows, keeps copies, and its commit writes the columns that
differ from what it read, over whatever others have committed meanwhile
(`Column`, `Written`). PostgreSQL's READ COMMITTED is assumed throughout.

### 2.1 AlertLifecycle and the code

| Code | Model |
|---|---|
| `AlertRow.status`, `acknowledged_at`, `resolved_at`, `policy_id`, `severity`, `occurrence_count` | the fields of `alert[a]` |
| `first_seen_at`, last `sent_at` | `age` (0..MaxAge) and `quiet`: the repeat period has passed |
| `NotificationDeliveryRow` | `delivery[alert, type, destination, slot]` |
| `AlertSuppressionRow` with its `ends_at` | membership of the alert's source in `suppressing` |
| `MaintenanceWindowRow` | membership of the fingerprint in `maintenance` |
| `publish()` | `PublishOccurrence`, `PublishSilently`, `PublishAndNotify` (queues *and* dispatches the alert's own rows) |
| `resolve_alert()`, `resolve_source()` | `Resolve`, `ResolveSource` through `ResolveAlerts` |
| `acknowledge_alert()`, `suppress_alert()` | `Acknowledge`, `Suppress` |
| `run_dispatch`, `run_recovery_dispatch` | `DispatchPending` |
| `run_escalation()`: escalations, repeats, dispatch | `EscalationCheck` |
| `run_alert_evaluate()`: dispatch, then `run_escalation()` | `Evaluate` |
| `run_suppression_expiry()` | `SuppressionExpiry` |

Points at which the model follows something a reader might overlook:

* `publish()` reopens the newest row when that is resolved, and keeps its
  `first_seen_at` and `occurrence_count`.
* `suppress_alert()` refuses no status: a resolved alert becomes `SUPPRESSED`,
  which is active, and later `OPEN` with `resolved_at` set. `due_for_escalation()`
  then skips it because of `resolved_at`.
* `acknowledge_alert()` turns a suppressed alert into an acknowledged one.
* an occurrence of an active alert returns before any notification, also when a
  rule's `minimum_occurrences` is reached by it.
* the fallback of `due_for_escalation()` takes *every* enabled step when the
  alert has no escalation row at all. It matters only to a policy all of whose
  steps wait longer than the policy itself, which no seeded policy and no instance has.
* `due_for_repeat()` looks at neither suppressions nor windows, and queues
  without looking for live rows.
* sessions are created with `autoflush=False` (`db/session.py`); the queries of a
  handler see its own new rows because of the explicit flushes, and the model's
  handlers read the tables they just wrote (`q1`, `q`) where the code flushed.

Abstractions: which rule, route and policy a signal selects is the parameter
`Rules`, `RoutesOf`, `RoutePolicyOf`, not the matching code; a provider's answer
is one of `accepted`, `temporary`, `permanent` (the classes that
`classify_error` maps exceptions to, as `deliver()` tells them apart); timestamps
are what is compared of them. A policy has at most one step per type and
destination, as the seeded policies have. Events, audit rows, metrics and message texts
are left out. `Slots` lets failed and skipped rows, which no query selects any more,
be replaced, so that an alert may be notified without end in a finite table;
`HasRoom` is the only guard that is not the code's, and slots are free again as
soon as a row fails, so it never stops a job in the runs' instances for ever.

**Overlapping transactions.** Beat starts `alert-evaluate` and
`alert-escalation-check` every 60 seconds (`core/config.py:119,121`), the worker runs
them in a pool of processes (`src/apps/worker/Dockerfile:18`), and both run
`run_escalation()`: query, insertion, provider calls, one commit
(`alerting/jobs.py:16-23`), without a lock or a unique key. Requests and publishing
jobs change alerts beside them. Two modules follow this:

| Code | `EscalationJobs` | Code | `AlertSessions` |
|---|---|---|---|
| the first `dispatch_pending()` | `StartDispatch` | `publish()`: its two queries | `LookActive`, `LookLatest` |
| flush, `due_for_escalation()`, `_queue_deliveries()` | `QueueEscalation` | its flush, then `_queue_deliveries()` | `FlushFault` |
| the second `dispatch_pending()` | `StartRedispatch` | its commit | `CommitFault` |
| the commit, with or without a new row | `CommitEscalation`, `CommitOutcomes` | `resolve_alert()`: `_queue_deliveries()`, then flush | `ReadResolve`, `QueueRecovery`, `FlushResolve`, `CommitResolve` |
| an error, the end of the process | `AbortJob` | `acknowledge_alert()`, `suppress_alert()`, `run_suppression_expiry()` | `Read...` and `Commit...` of each |

A row that a session has flushed is locked until its commit (`IsFree`, `Unlocked`):
the other transaction waits, and then writes over it. `revived` are the rows that a
late commit brought back from FAILED; `beside` and `races` mark a publisher between whose queries and
commit another session made a row active. Both are ghosts.

### 2.2 NotificationDispatch and the code

`Begin` is the query, `Drop` the early returns of `deliver()`, `Call` the reading of
alert and destination up to the provider call, `Answer` and `AnswerTooLate` its
end, `Commit` the commit of the job's session, `Crash` the end of the process or
the rollback in `_run()`. `loaded` is what the session read and `copy` the ORM
objects; `Written` is SQLAlchemy's UPDATE, which sets the columns that differ
from what was read. No error is raised
when another transaction changed the row. Other handlers appear as `Queue`,
`ChangeAlert` and `EditDestination`. `messages` counts what a destination
accepted, `mishaps` the crashes and late answers, and `shared` how often a dispatcher
read a row that another one held at the time; all three are ghosts. The worker's
pool has a process for each core and four kinds of job dispatch, so nothing is assumed of
the number of dispatchers. `DeliveryLedger` is what they do together: a transaction takes up
queued rows, attempts each once, and writes what became of them, or nothing.

### 2.3 JobQueue and the code

An enqueuer goes through `Look` (the first `find_running_job`), `FindOther` or
`Create` (the second one inside `create_job`), `CommitJob` and `Submit`. A worker
goes through `Take`, `Start` (`mark_job_running`), `WorkDone` or `WorkRaises`,
`Finish`/`MarkFailed`/`LeaveUnmarked`, then `Retry` (`self.retry`) or `GiveUp`; its
message is acknowledged last. The tasks differ in four things, kept in `family`:
whether they mark the row running, whether work and outcome are one commit,
which outcomes they record, which errors they retry. `JobKinds` reads these four
off each of the forty tasks, with its `max_retries` and whether beat has an
entry for it, and the run is over the families it finds, the inline mode
included. Its assumptions are that no two kinds have one name, that the run
retries no more often than every task does, and that an outage is made up for
by a retry or by beat, except for `credential-validate`,
`certificate-validate` and `github-webhook`, which only a person or GitHub
starts. A fleet job's `partial` status counts as succeeded. `pushed`, `worked`,
`lost` and `mishaps` are ghosts.

### 2.4 CredentialStore and the code

| Code | Model |
|---|---|
| `credentials` row: status, fingerprint, due date | `row[c]` |
| the secret backend, by `_reference_for()` | `store[Reference[c]]` |
| `create_credential()`, `replace_credential()` | `BeginCreate`/`BeginReplace` (reads), `Store` (`put_secret`), `CommitCreate`/`CommitReplace`, `Fail` anywhere between |
| `update_credential()`, `disable_credential()` | `UpdatePolicy`, `Disable` |
| `run_credential_validation()` | `StartCheck`, `LoadSecret`, `RecordSuccess` and `FinishCheck`, `RecordFailure` |
| `scan_rotation_statuses()` | `ReadScan`, `CommitScan` |
| a due date coming closer | `Tick` |

`disturbed` and `unhealed` are ghosts: the credentials whose secret was written
by a request that failed after it or overlapped another, and those with a failed
validation that no later replacement has seen. The commit of the job that
succeeded is inside the `try` of the validation, so `FinishCheck` may fail into
`RecordFailure`.

### 2.5 CertificateMonitor and the code

The certificates of a job are evaluated one by one and share no row, so one is
followed. `ExpiryScan`, `AlertEvaluation`, `Discovery`, `Probe` (an HTTPS
endpoint) and `Validate` are the five jobs: each reads the row and its alert,
brings the row up to date and ends in `evaluate_alerts()`, which is the choice between
`OpenAlert`, `ChangeKind`, `ResolveAlert` and `KeepAlert` in `Commit`. `Rollback` is
what happens to a job that raises. A discovery lists the certificates of an account (`List`, which
may fail: `ListingFails`) before it opens the transaction that stores them, so what `Discovery`
stores is the date that was true when it listed (`services/aws_sync.py:294-337`). `Validate` connects to the host the row
names and writes the date of whatever certificate it presents
(`services/certificate_monitor.py:648-670`): the one in use, one from before a renewal, or one of `Others`; `misled` is the ghost that says the
row has had a date on which the certificate never expired, or none. A handshake that verifies succeeds with no
expired certificate (`Accepted`). The reading of the row, the handshake and the look for its alert are one step of a job:
that a day begins or another job commits between them is left out. `Free` lets a job take the first idle worker. `board` holds the kinds (CERTIFICATE_WARNING, ...) with an active
unified alert; a change of kind resolves one and publishes the next. `Renew`, `Pass`
(time) and `ResolveOnBoard` (an operator) are the environment. OPEN stands for ACKNOWLEDGED as well, since
the jobs ask for either; what that leaves out is an acknowledgement whose commit overwrites a resolution (section 6).
An alert row that is resolved and that no job refers to any more is dropped from
the model (`Forget`), so that `MaxAlerts` bounds only what is alive. `raced` says that
two jobs that overlapped have written what they disagree on.

### 2.6 HealthRules, ClusterResources, HealthScan and the code

`HealthRules` is `integrations/health/status.py` and `rules.py`: `Worst`, `WorkloadStatus` and
`Aggregate` with all its rules. `ClusterResources` is `normalize.py`, the collector
and the folding in `health_sync.py`: pods, nodes, workloads, jobs, services and ingresses
with their statuses, `snapshot_from_resources()`, the summaries that a cluster scan stores and the `Condition` an
application scan reads. `HealthScan` follows one application: `Ingest` (the fleet job stores labelled
resources), `ClusterScan` (summaries take their place), `BeginScan`/`CommitScan` (an
application scan under the lock: aggregate, counters, incident, alerts), `BeginCheck` or `BeginEvaluation`, and `CommitCheck` (an HTTP check, or the
evaluation of alerts, which take no lock), `AcknowledgeIncident`. The lock is
a row that is inserted and deleted in one transaction: the model lets the second insert wait,
which is what the key does. OPEN and ACKNOWLEDGED of an incident are one.

### 2.7 PipelineRuns and the code

`source` chooses between `pipeline_sync.py`/`pipeline_webhooks.py` (Azure DevOps) and
`github_sync.py`/`github_webhooks.py`, which have an `upsert_run()` and an `evaluate_run_alert()` each.
`Accept` is the webhook route (insert of the delivery, commit, enqueue), `BeginDelivery` and
`BeginSync` open a transaction, `UpsertRun` is one run of it, `Commit`
and `Rollback` end it. The two differ in the rows a recovery looks for, in the id of an alert (of GitHub's: made of the
run, so a resolved one blocks the next), and in the order of flush and publication, all of which the
operators named `...ByPipeline`, `...ByWorkflow` say. The unified alerts are modelled by who inserted them,
since two overlapping first publishers insert two; where the code takes the latest of several, the model takes any.

### 2.8 InventoryScan and the code

`Discover` lists the clusters of the scopes it covers (some accounts may fail, a listing may leave a cluster
out), `ScanCertificates` lists the TLS secrets of the clusters the inventory has, `Read` is the reading
of the rows at the begin of the storing transaction, `CommitDiscovery` is `replace_clusters_for_scope()` for every
scope, `CommitCertificates` is `replace_certificates_for_account()` with the merging by
`certificate_public_id()`, `Rollback` what an error does. `Move` changes the environment tag of a cluster or
removes it.

### 2.9 PlatformAdmin and the code

Each handler of `api/v1/platform.py` that asks the cloud, or checks dependants before it deletes, is cut into its
reading and its commit; handlers that only edit are one action. `EnvironmentReadiness` and
`AccountReadiness` are `platform/readiness.py`. Accounts are of a provider type with an inventory adapter (AWS,
Alibaba). Left out: the status columns and edits of a provider, the class of an account, applications,
settings, integrations and the audit rows. The run has one account, so the loop of a provider validation over several
accounts is left to the theorems, which are about any number of them. `FinishDiscovery` is `_finish_fleet_job()`; the
names of the administration differ from those of `InventoryScan` because one module has the proofs about both. With no provider row left a job falls back to the topology file; that is not modelled.

### 2.10 SchemaModels and SchemaMigrations

`SchemaModels` has every table of `db/models.py` with its foreign keys and unique keys, and the columns of the six tables that
a later migration alters. `SchemaMigrations` has every `upgrade()` and `downgrade()` as a sequence of steps, with the guards
(`_has_table`, `_has_column`) some of them have and what PostgreSQL refuses (a table that is there, a table others
refer to, a column that is missing). TLC evaluates four assumptions with the `administration` run: `HeadIsMetadata` (from nothing
to head gives the tables of the models, but for one unique key, section 6), `DowngradesUndo` (each downgrade gives back what was there before,
but for the last, which does nothing), `ThereAndBack`, and `StartedTooEarly` (`create_all` of an API that starts before the migrations
makes those from base to 0003 fail and those from 0004 on succeed; compose starts it after them).

### 2.11 ConsoleViews and ConsoleChecks

A database is a record of sets of rows. Each view is an operator over it: `LiveClusters`, `EnvironmentClusters`, `LiveMatrix`, `Dashboard`,
and for the demonstration mode `OverlayClusters`, `OverlayCertificates`, `OverlayCell`, `HealthByScope`. `ConsoleChecks` relates them over all databases of a few rows,
which TLC evaluates with the `inventory` run:

* `IndicatorsCountTheList`, `PageShowsTheList`, `NoSeedBesideReal`: the dashboard counts what the list shows, and each cluster once;
* `IndicatorsPartition`: every certificate is in one of the three classes of the dashboard (proved as well, section 5);
* `AlertsPerRegion`, `PagesCountOnce`: how often an alert is counted;
* `HealthIsItsOwn`, `CellsShowIncidents`: whose health is shown;
* `NoMixture`, `CellShowsTheList`, `OneIdInTwoRegions`: demonstration and live rows never mix in one place.

Where two views do not agree the check says exactly when; section 6 lists these cases.

## 3. Runs

Run one with `tlc -workers 2 -config <cfg> <module>`.

| Run | Module | Instance | States | Shows |
|---|---|---|---|---|
| `alert_escalation` | MCAlertLifecycle | one alert, policy-prd-critical with one destination, one retry; one transaction at a time | 18 thousand | nobody is told twice, silence, and under fairness a due escalation is queued |
| `alert_board` | MCAlertLifecycle | one fingerprint with two possible rows, two severities of which one has a route and a policy, repeats, a destination that is switched off and on, limit 1 | 4 thousand | one active row; `AlertBoard` is implemented; a suppression lifts |
| `alert_sessions` | MCAlertSessions | an evaluation, an escalation check and a dispatching job on one escalation; or two sessions on one fault with three possible rows | 1,099 thousand | what is left of the claims of the two runs above when transactions overlap: one live row for each that escalates, one INITIAL, a RECOVERY for each that resolves, a second row only by a race |
| `dispatch_overlap` | MCNotificationDispatch | two dispatchers on one row, two retries, one mishap | 82 thousand | SENT means accepted, mixed commits keep the budget, a repeated message is paid for, settled rows nobody holds stay settled, rows settle; `DeliveryLedger` is implemented |
| `jobs` | MCJobQueue | two requests, two workers, one retry, two mishaps, the fifteen families of `JobKinds` | 271 thousand | blocking rows are in somebody's hands, work is explained, jobs end |
| `credentials` | MCCredentialStore | two credentials of one name in two accounts that share one reference, two requests, a validation, three edits or months | 364 thousand | what a row says of its secret holds but for the disturbances the model counts; the rotation that is due is shown |
| `credentials_own_secret` | MCCredentialStore | the same, with three requests and one edit | violation | see section 6 |
| `certificates` | MCCertificateMonitor | two overlapping jobs, a certificate that expires on day 55 and a renewal on day 115, a host that may present one which expires on day 200, one step of 60 days, three alert rows, one hand | 315 thousand | the alerts of a certificate follow its life, in the end also after a date that is none of its own |
| `health` | MCHealthScan | up and healthy, or half up, crashing and unhealthy; thresholds 2; two scanners, one checker, two incidents | 104 thousand | one incident, ruled by the counters; nothing stays open |
| `pipelines` | MCPipelineRuns | a pipeline or a workflow, two runs, three attempts, one delivery, two transactions | 676 thousand | announced once; rows catch up; success clears |
| `inventory` | MCInventoryScan | two accounts with a cluster each, three scopes, one secret name, two overlapping scans, one move or omission | 542 thousand | true rows stay true; repeated scans bring all rows back |
| `administration` | MCPlatformAdmin | one account with one environment, two requests and a discovery at a time | 348 thousand | owners, and readiness |

`jobs`, `health`, `inventory` and `administration` also evaluate the assumptions of `JobKinds`, `ClusterResources`
(in `MCHealthScan`), `ConsoleChecks` and `SchemaMigrations`.

### Properties

* `NotifiedOnce`: there is no unique key on
  deliveries; that no destination is told twice, as none has two live rows of a kind (`NoDuplicateNotification`),
  is the joint work of the existence check, the reopening of rows and the
  retries. Repeats are exempt: they are meant to be sent again. It is said of transactions that
  follow one another, and so is `OneActiveAlert`.
* `OneLivePerEscalator`, `ToldOnceOfFault`, `ClearedPerSession`, `SecondRowIsRaced`: what overlapping transactions leave of
  them. Jobs that escalate together insert a row each, and no more than these live at one time; sessions that resolve together queue a
  recovery each; but the beginning of a fault is told by one row, because `publish()` looks after its flush; and
  a second row of a fault needs a publisher that another session raced between its queries and its commit.
* `MixedRowsKeepBudget`: one attempt and one per entry of the schedule, also under the
  column-wise overwriting of concurrent commits.
* `SilencedAlertsStaySilent`: nothing but a recovery leaves for a resolved or
  suppressed alert, also not from a row that was queued long before.
* `OneActiveAlert` and `ImplementsBoard`: only an operator acknowledges or
  suppresses, only an expired suppression reopens, a fault raises only what is clear.
* `EveryRowSettles`, `SuppressionLifts`, `DueEscalationIsQueued`, `JobsFinish`: liveness, section 4. That a row
  settles does not end the matter for an escalation: one that failed is queued anew, in the
  transaction in which it failed, as long as the alert is open.
* `SentWasAccepted`, `RepeatsAreExplained`, `SettledStaysSettled`, `ImplementsLedger`:
  at-least-once delivery, and its price, for any number of dispatchers. A row that two of them read is sent by both,
  and that is the price of `shared`; an older reading may revive a settled row, which is why `SettledStaysSettled` speaks
  of rows that nobody holds.
* `ActiveIsCarried`, `WorkIsExplained`: a queued or running row blocks its kind, so
  it must have an owner unless something was lost that the code does not record.
* `SecretIsThere`, `FingerprintIsOfStoredSecret`, `InvalidIsExplained`: two stores without a common transaction. A
  fingerprint is never without a secret; it is that of the secret unless the last writes were disturbed; INVALID is the trace of a
  failed validation that no later replacement superseded. `RotationIsShown`: as months pass, the scan brings the status of a
  rotation to what the date says; it may lose against a replacement or an edit and still gets there.
* `AlertsPerWriter`, `AlertsAgree`, `EndsByRenewal`, `RenewalEndsAlerts`, `ExpiryIsAlerted`: jobs that overlap insert an alert each but no more; the unified
  alerts agree unless writers raced; no alert ends before a renewal unless the row was given a date that is none of the certificate's
  (`misled`); and whatever was written meanwhile, a listed certificate has an alert in the end once it has expired, and none once it was renewed.
* `OneIncident`, `IncidentsFollowCounters`, `HealthyEndsAll`: an incident opens and closes at the thresholds whatever DEGRADED and UNKNOWN results do to the
  counters; once the application stays healthy everything about it ends, although cluster scans and fleet jobs replace each other's rows and checks end late.
* `AnnouncedOnce`, `RowsCatchUp`, `SuccessSettles`: the failure of a run is sent once although webhook and sync race; lost and late
  webhooks are made up for by the sync, unless a taken id makes the sync fail for good.
* `RightRowsStayRight`, `InventoryCatchesUp`, `CertificatesFollow`: only a scan with an outdated view spoils a true row, and successful scans repair what was spoilt.
* `NothingIsHomeless`, `ReadinessIsEarned`, `ReadinessSettles`: deletions check and commit in two steps; a readiness is that of the account of today, and in the end the one that `environment_dump()` computes.

Each passing property has a mutated operator beside the definition it replaces
(`HasLiveUnsent`, `MayRetryOnceMore`, `AnswerForgotten`, `StoreOnce`, `ResolveAlertQuietly`, ...): the mistake it names
is one the property detects. The type invariants are proved and not run, and so are `NoDuplicateNotification` and `RetryBudget`.

### Bounds, and why they are enough

* Fingerprints and copies: handlers touch one fingerprint, except suppression
  and `resolve_source`, which touch the alerts of a source. Two possible rows per fingerprint show whether a second is ever used; the proofs are
  for any number of fingerprints.
* `MaxSlots = 2`: a duplicate needs two live rows. `MaxRetries = 1` or `2`: first
  attempt, a retry that may be repeated, and the last one.
* `MaxAge = 1`: before and after the escalation delay. `MaxCount = 1`: occurrence counts
  matter only to `minimum_occurrences`, which is 1 in the seeded rules.
* `Limit = 1` in `alert_board`, so that the limit bites where safety is checked; where settling is checked a batch holds every row that is due. With
  less room a row can starve in the code (section 6).
* `alert_sessions`: `EscalationJobs` and `AlertSessions` share no variable, so one run has the behaviours of either. Two jobs that escalate insert two rows; a third
  row shows whether there can be more. Three rows of a fault are one more than two publishers insert. `MaxRaces = 1`: the race that a second row needs.
* `MaxMishaps`: one or two crashes or late answers; the properties count them.
* `MaxRequests = 2` jobs of a kind: two rows can collide; two workers and two enqueuers.
* `credentials`: two overlapping requests; a validation that spans any of them. Three edits: a date that is far off comes due, and past, and is moved once on the way.
* `certificates`: a step of 60 days takes the first certificate from due to expired and its renewal from healthy to due, so every kind of change
  happens; the boundaries between the classes are checked in `ConsoleChecks`. The third alert row is one that is still referred to. The other
  certificate of the host is healthy on both days, so that its date ends an alert which should stay.
* `health`: thresholds of two are the least at which a count can be interrupted. In a world where nothing is available a third kind of
  alert is raised (WORKLOAD_UNAVAILABLE) and the liveness property takes too long, so TLC does not visit it; the safety properties are proved for every world. The assumptions of
  `MCHealthScan` range over all applications of one workload and two pods and over all clusters of three resources.
* `pipelines`: three attempts let one run fail, recover and fail again beside another. One webhook that arrives early, late or never beside the syncs.
* `inventory`: a cluster that moves, vanishes or is left out of a listing once; the second account is what a failing listing or a shared name brings in.
* `administration`: every handler can overlap every other and the discovery. One account: the alias is what rows are bound by, and
  an account deleted and created again under its alias occurs. `AccountSettings` leaves out a disabled account without a credential, which nothing tells from one with.

`jobs.cfg` does not check deadlock because when the requests are used up and the jobs have ended there is nothing left to do.

## 4. Fairness

Weak fairness is given to what runs by itself. Beat starts the alert jobs every
30 to 60 seconds (`core/config.py:119-124`, `src/apps/worker/celery_app.py:158`), so
`DispatchPending`, `EscalationCheck` and `SuppressionExpiry` are fair; a retry time
comes because time passes; a dispatcher that began goes on because provider calls have
timeouts; workers take what is in the broker and a request that was begun goes on.
Nothing is assumed of sources, operators, destinations being enabled or providers
accepting, and mishaps are never required to happen or not to.

* Credentials: `WF(ReadScan)` and `WF(CommitScan)`; beat starts the rotation scan every six hours and it calls nobody.
* Certificates: a job that has listed goes on or its listing fails, and one that was begun commits or rolls back (weak). Listing goes on, discoveries that store
  the date in use and probes that succeed go on, and of the jobs that hold the class of that date some commit (strong: a job may find both slots taken, or be rolled
  back, for a while). Beat starts discovery and the validation of endpoints every six hours. Nothing is assumed of what validations find.
* Health: fleet ingestion is weakly fair, scans and checks begin and commit again and again (strong, as they wait for the lock
  or for a slot, and may fail). Probes answer in the end because they have a timeout.
* Pipelines: a transaction goes on; a sync commits again and again (`[]<>`), unless the id of an alert is taken for good, in which case the code fails
  every time. No webhook need arrive.
* Inventory: a scan goes on. That discoveries and certificate scans succeed again and again is a premise *of the properties*, since discovery
  runs on request only, and certificate scans every six hours.
* Administration: no fairness. `ReadinessSettles` has its premises in its statement: from some time on nothing but successful validations and discoveries.

## 5. Proofs

`tlapm <Module>.tla` checks every obligation of a `*Proofs` module. The theorems hold for every value of the constants that satisfies
the assumptions of the modules, in particular for any number of fingerprints, policies,
destinations, slots, rows, dispatchers, requests, workers, credentials, jobs, scanners, runs, clusters, accounts, environments and handlers.

**AlertLifecycle.** `Inv == TypeOK /\ OneRow /\ NoDuplicateNotification /\ RetryBudget`.
`OneActiveAlert` alone is not inductive: a second, resolved row could be suppressed,
which makes it active. `OneRow` says there is no second row, because `publish()` opens a
new one only when there is none; it implies `OneActiveAlert`. It is an invariant of transactions that follow one another. The argument follows the code:
lemmas about `Deliver`, `Queued` and `Delivered` say what any handler does to *a* delivery
table `q` (`Proper`: it stays sound, what was sent stays sent, what becomes sent was
notifiable), `Proper` is transitive, and each handler is a composition of the
two operators. Theorems: `TypeCorrectness`, `OneActiveAlertAlways`, `NoDuplicates`,
`Budget`, and from the same step lemmas the action properties `ToldOnce` and
`SilencedStaySilent`. `BoardImplemented` is the refinement of `AlertBoard`: the board shows
of a slot its active row, and by `OneRow` that is the row or nothing, so that a handler that
changes rows repaints exactly their slots (`Repaint`) and each repainting is a step of
the board (`BoardStep`) or none.

About overlapping transactions there are four theorems, for any number of jobs and sessions. `EscalationsBounded`: a job that will insert has condemned every row it
saw alive, to be FAILED by its commit, so the rows that no inserter has condemned and the inserters themselves are together no more than the jobs that escalate (`Covered`).
`FaultToldOnce`: who inserts an INITIAL row holds the lock of its alert and none was there (`Looked`). `RecoveriesBounded`: a session that will insert
a RECOVERY counts as a row (`Promised`), and each resolves an alert once. `SecondRowNeedsRace`: what a publisher found is so still, unless another session made a row active beside it (`Undisturbed`).

**NotificationDispatch.** `Inv` adds to the invariants, for each dispatcher and row,
`SessionOK` (what was read was due; the copy is the reading until the row is
delivered and one attempt at it afterwards) and `OnceRead` (behind a dispatcher's back a row
that was read has not vanished, and one read in RETRY is not PENDING). `OnceRead` is what
makes the mixture of two commits sound: a RETRY row that fails again changes only its counter,
and the status it leaves standing is then never PENDING. Theorems: `TypeCorrectness`,
`SentWasAcceptedAlways`, `BudgetOfMixedRows`, `SettledForGood`.
`RepeatsExplained` and `LedgerImplemented` are about any finite number of dispatchers. `Counted`: the messages of a row and the dispatchers that still try it
are together at most one, the mishaps and the times it was read while held; while nobody has sent the row or is about to, and while a dispatcher has failed at it, one of these is left over. A dispatcher that begins either is alone with the row and
spends that one, or is counted in `shared`. `DeliveryLedger` has a transaction for each dispatcher: the rows it holds are its batch (`Holding`), those its provider
accepted are sent (`Sent`), and a commit writes what became of them.

**JobQueue.** `Inv == TypeOK /\ Linked /\ Borne`. `ActiveIsCarried` speaks of a row and of its owner, who may be a request that has not yet
submitted, a message, or a worker; `Linked` says that these name rows that exist, `Borne` that an active row has one of them or was counted as lost. Theorems: `TypeCorrect`,
`ActiveRowsAreCarried`. `WorkIsAlwaysExplained` follows a job's claims to be worked on, `Claims(j)`: its messages at the broker and the workers
that hold it. `Paid(j)`: what was worked and the claims together never exceed what was pushed and the mishaps; every step that
adds a claim adds to the right side, and working spends one.

**CredentialStore.** `Inv == TypeOK /\ Requested /\ Known /\ Kept`. `Requested` follows a request between its two stores: its secret is there once it is stored
(`Backed`), it is the stored one if nobody was beside it (`Alone`), overlapping requests have marked what they touch (`Marked`), and an INVALID row was INVALID when the request read it, unless a validation has failed since (`Unfailed`); `Known`: what the job and the scan have read exists;
`Kept`: the three invariants. Theorems: `TypeCorrect`, `SecretsAreThere`, `FingerprintsAgree`, `InvalidRowsAreExplained`.

**CertificateMonitor.** `Inv == TypeOK /\ Budget /\ Referenced /\ Read /\ Single /\ AlertsAgree`. `Budget` counts a running job that found no alert as
the alert it will insert, which is what bounds them by the number of jobs; `Read` says what the readings of jobs still have in common with the rows when nothing raced. Theorems: `TypeCorrect`,
`AlertsWithinBudget` (a theorem about cardinalities), `UnifiedAlertsAgree`. `AlertsEndByRenewal` is an action property
about the time before the first renewal and before the row was given another date (`First`); `Faithful` says that until then the row and every listing have the date of the first
certificate, a job that is not about to write another (`Strange`) writes no date and a class that stays due, so that no commit resolves an alert that still is, and the commit of
a strange one misleads the row.
About `ConsoleViews`, for any database with finitely many certificates: `CertificatesCountedOnce` and `PageAgreesWithDashboard`, which are `IndicatorsPartition`
of `ConsoleChecks` without its bounds; the argument is that each class is an interval of days, and that a certificate without a date has 0 days.
`OnlyManagedIsShown` and `PageHasTheList` are `NoSeedBesideReal` and `PageShowsTheList` of any database.

**HealthScan.** `Inv == TypeOK /\ Locked /\ NoTwo /\ Counters /\ FoundByScans /\ IncidentsFollowCounters`. `Locked`: a scan with an open session holds the lock; so what it found of incidents
(`FoundByScans`) is still so when it commits, but for a revival. `NoTwo` is `OneIncident` without a cardinality; of the two counters one is zero (`Counters`). Theorems: `TypeCorrect`, `NoSecondIncident`, `CountersRuleIncidents`.
About the operators of `HealthRules`, for all signals: `QuietHidesNothing` (whichever rule decides, an application that is HEALTHY or UNKNOWN has no failing
component) and `CriticalHasACause`, from `WorstOfSome`, that `Worst` is what its name says.

**PipelineRuns.** `Inv == TypeOK /\ Delivered /\ Single /\ Known /\ Counted`. `Single`: a row that an open transaction has inserted is in no other transaction and not
committed, which is what the flush before the publication gives. `Counted`: a failure was announced once if a transaction tells it, and not at all while there is neither such a transaction nor an alert. Theorems: `TypeCorrect`, `FailureAnnouncedOnce`.

**InventoryScan.** `Inv == TypeOK /\ FoundIsListed /\ ReadExists`; the action property `RightRowsAreLeft` then follows commit by commit. Theorems: `TypeCorrect`, `RightRowsAreLeft`.

**PlatformAdmin.** `AdminInv` is the conjunction of `AdminTypeOK`, `NothingIsHomeless`, `ReadinessIsEarned` and, for each open request, job and
account, `SoundRequest`, `SoundJob` and `SoundAccount`: what a handler has read of parents and dependants is still so when it commits, or the
commit that changed it has marked the object as overlapped; the environments in a job's scope exist, or their deletion overlapped it; and an account
with a failed validation has been validated, which is why a readiness derived from it is earned. TLC checks it on the instance of `administration`. Theorems: `AdminTypeCorrect`, `NobodyIsHomeless`,
`ReadinessIsAlwaysEarned`; the case of a provider validation is about all its accounts at once.

Only model-checked: all liveness, since fairness and ENABLED are beyond the prover (`DueEscalationIsQueued`,
`SuppressionLifts`, `EveryRowSettles`, `JobsFinish`, `RotationIsShown`, `RenewalEndsAlerts`, `ExpiryIsAlerted`, `HealthyEndsAll`,
`RowsCatchUp`, `SuccessSettles`, `InventoryCatchesUp`, `CertificatesFollow`, `ReadinessSettles`); and the assumptions of
`JobKinds`, `MCHealthScan`, `ConsoleChecks` and `SchemaMigrations`, which are evaluated for one set of values or for all small ones
(but for what is proved of the console's views, see above). `SummariesTell`
and its like compute folds, about which nothing can be proved by induction here. Every invariant and every safety action
property of a passing run is a theorem.

## 6. Where the code does less than it says

Met while modelling. The first, `OwnSecret`, is a run; the others are what a model had to follow, or what an assumption of section 2 states.

**Credentials.** `OwnSecret` (`docs/credentials.md:9`, "Provider → Region → Account → Environment → Credential"): `_reference_for()`
(`services/credentials.py:157-161`) leaves the account out, so two credentials of one name in two accounts share a secret and replacing one changes the other. Also:
INVALID is final, since `compute_status()` returns it as it is and `record_validation_result()` relies on it, until a replacement; a scan or an edit that overlaps a
failed validation may write its status over INVALID; a replacement enables a DISABLED credential.

**Alerts.** An escalation whose first attempt failed is sent after the acknowledgement, because `deliver()` (`notifications/dispatcher.py:128`) does not look
at it (`test_alerting_phase11.py:189` says acknowledgement stops escalation). Maintenance is looked at by `publish()` (`alerting/service.py:357`) and the escalation check only: what waits for a retry
when the window begins is sent inside it (`NotificationsAdmin.tsx:284`, "Notifications are suppressed during the window."). An occurrence of an active alert returns before any notification,
also when it reaches a rule's `minimum_occurrences` (`alerting/service.py:360`). Reopening keeps `first_seen_at` (`:287`), so an old alert that flaps is escalated at once. An
outage of the secret backend reads as an empty secret (`notifications/dispatcher.py:64`) and fails the delivery for good. RECOVERY rows are exempt from the status check.

Overlapping transactions (`EscalationJobs`, `AlertSessions`, `NotificationDispatch`): `alert-evaluate` and `alert-escalation-check` both run `run_escalation()` every 60 seconds (`core/config.py:119,121`) in a
pool of processes (`src/apps/worker/Dockerfile:18`), each in one transaction (`alerting/jobs.py:16-23`); both find no live escalation row (`alerting/service.py:233`), both insert one, and the destination is told
twice of one escalation. Two resolutions that overlap queue a recovery each (`:399`). An acknowledgement that read the alert before a resolution committed
overwrites it (`:412`; the next line says "resolved alerts cannot be acknowledged"), and so does `acknowledge_alert()` of the certificate monitor (`services/certificate_monitor.py:312`). Two publishers
of a new fault insert a row each. Dispatchers that overlap send one row twice. With more rows due than the limit (`notifications/dispatcher.py:178`), an escalation whose
destination fails is queued anew in each run without an attempt, comes first every time, and starves a row that waits for its retry.

**Jobs.** A failed task marks its row failed before Celery retries it; the next request finds no active job and creates one; the retry sets the first to running again, and both run
(`db/repository.py:331`; `test_aws_phase3.py:128` is `test_jobs_are_idempotent_while_running`). `src/apps/worker/README.md:32` says "Transient provider errors retry."; the credential validation, the certificate
jobs and the GitHub syncs are not retried (beat starts them again, but for the validation). A job whose target was deleted falls back to all enabled accounts (`platform/fleet.py:26-36`).

**Certificates.** `docs/certificate-monitoring.md:49` says one active alert per certificate; jobs that overlap find none and insert one each (`services/certificate_monitor.py:247`). A validation writes the date of
whatever the host presents into the row of a listed certificate (`:648-670`), which ends the alert of an expiring one without a renewal until the next discovery; a listing from before a renewal may be stored after it. A failed HTTPS probe clears `not_after`, the class becomes UNKNOWN and
the alert is resolved as renewed. `certificate_public_id()` (`db/repository.py:32-34`) takes what follows the last "/" of the ARN, so TLS secrets of one name in different namespaces
or clusters share one row, although `uq_acm_certificates_arn` and `docs/certificate-monitoring.md:7-13` treat each as a certificate: the row may name one cluster and the environment of the other, and hide an expiring certificate.

**Health.** The cluster scan replaces labelled rows by unlabelled summaries, after which an application scan sees no workload. The summaries are silent about daemon sets and services. A deployment without available
replicas whose pods run is CRITICAL, yet WORKLOAD_UNAVAILABLE is not raised, because the replicas are then counted by ready pods (`services/health_sync.py:640`). `acknowledge_incident()` (`:1200`) revives a resolved incident. `recover_health()` resolves
all unified alerts of the application and environment, those of pipelines and GitHub included (`alerting/service.py:531`). A failing HTTP check hides a CRITICAL certificate or cluster in the
aggregation, as it decides first. The result of `cluster_health_status()` reaches only a label that is overwritten (`services/health_sync.py:413-417`). An endpoint definition that names a cluster loses its row at each scan of the cluster.

**Pipelines and GitHub.** The delivery id of Azure DevOps may be the id of the subscription (`services/pipeline_webhooks.py:66`), so its later events count as duplicates. When enqueueing fails after the commit, the redelivery
is a duplicate too. A run whose alert was resolved and that fails again is not announced again; of GitHub its id is taken (`services/github_sync.py:326`) and every sync that lists it is rolled back (`RowsCatchUp` states the exception; `src/apps/worker/README.md:32` says
"Jobs are idempotent upserts."). A success in a listing resolves the alert of a newer failure. A GitHub recovery clears the unified alert though another run still fails. A run that is correlated to another environment leaves the alert of the old one active. On the
worker's path nothing marks the pipeline webhook's job finished; the inline path does.

**Inventory.** A failing `describe` marks a cluster, and a failing TLS listing all certificates of an account, missing while the scope counts as scanned. `discovery_active` is never reset, although
`docs/aws-emea-dev-iam.md:96` lists "any AWS cell whose last discovery has not succeeded" as mocked. The success of a scan of another kind clears `last_error`. A discovery of one environment that overlaps one
of the fleet after a change of tags may leave a present cluster missing until the next. One integrity error rolls back all accounts of the job. The clusters of a disabled account stay present.

**Administration.** Validations that overlap may leave an account HEALTHY under a FAILED provider; a provider disabled meanwhile is written READY; one that is enabled again keeps DISABLED, and a failing validation overwrites it. An environment keeps `readonly` when the
class of its account changes. Nothing reads the values of `settings_store`. `ensure_provider_rows()` (`services/pipeline_sync.py:103-138`) overwrites the Azure DevOps configuration made in
Administration with that of the settings (`docs/platform-administration.md:3`). The `status` of a GitHub integration is its enabled flag as well, so the next sync (`services/github_sync.py:396`) undoes Disable.

**Schema.** Migration 0010 leaves out the unique key of `application_environment_bindings` that `db/models.py:1209` declares, so nothing keeps a migrated database from two bindings of a pair; its downgrade does nothing.

**Console.** Each of these is stated by an assumption of `ConsoleChecks`.

* The page of an environment that was discovered shows ignored clusters (`services/overlay.py:200-205`), the list does not; clusters of a disabled or deleted environment are on the list and not in the indicators.
* `live_matrix()` counts alerts by provider and environment: an environment in two regions counts each alert twice, and the indicator takes the larger number. The critical ones include suppressed alerts (`alerting/presenters.py:232`), the open ones do not.
* A certificate without a date is counted as expired on the dashboard and as nothing on its page. One without an environment is under DEV in live mode and in every environment of its account in the demonstration, where two
  regions then show it under one id.
* The page of an environment, and the demonstration, give an application without health of its own that of any application of its name and environment, whatever its region (`services/overlay.py:752-758`).
* Without any application, open incidents are in no cell of the demonstration matrix though the indicators count them. The cell of a place is made from one of the rows of the place, the list from all.

## 7. Plan

1. What overlapping sessions leave of a whole alert: suppression by rule, repeats and maintenance in `AlertSessions`, with `EscalationJobs` beside it on the same rows.
2. The remaining GitHub events (push, deployment, job) and the projection of workflow runs onto pipelines; retention.
3. The columns that say when a scope was scanned, and with what error (`db/repository.py:69-100`), in `InventoryScan`; the status of providers and integrations in `PlatformAdmin`.
4. The remaining views: jobs, runs, audit, maintenance.
5. Theorems: what the demonstration views show of any database (`CellShowsTheList`, `NoMixture`).

## 8. Not modelled

* Authorisation: role tables and request checks, without state but a rate counter.
* Cloud and SCM providers: wrappers of external services; modules see the outcomes of a call.
* The HTTP API routes and serialises; each route is a call of an operation of a module. The web console is its client.
* GitHub's repositories, variables and secrets: upserts of rows that nothing else decides by.
* The topology file and its seeding, the demonstration data, all formatting, metrics and audit rows.
* Infrastructure.

SQLite, which the settings allow for development, compares naive and aware timestamps differently from PostgreSQL and locks the whole database; the models assume PostgreSQL.
