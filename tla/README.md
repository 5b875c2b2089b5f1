# m8flow-core in TLA+

m8flow-core is a Python library that runs BPMN processes inside an
application's own database. It wraps SpiffWorkflow, which interprets the
diagram, and keeps what an application needs to see (status, tasks, work items,
due dates, history) in tables next to a serialized copy of the workflow. The
application sends commands; each runs in a SQLAlchemy session whose transaction
the application commits or rolls back.

The repository also has a sample application, a Flask program that embeds the
library: it migrates the database, provisions users in Keycloak, deploys and
starts processes from its pages, and calls services through a connector proxy.

This directory models both in TLA+. TLC checks the models on small instances,
and TLAPS proves the most important safety properties for every instance. Paths
below are relative to `src/m8flow_core/`, those of the sample application to
`sample_app/src/m8flow_sample_app/`, unless they start with `docs/`.

## The system

| part | state it owns | operations |
| --- | --- | --- |
| process instances (`services/process_instances.py`, `process_instance_reactivation.py`) | `process_instance.status`, lifecycle events | create, suspend, resume, error, terminate, schedule retry, retry |
| workflow runtime (`services/workflow_runtime.py`) | serialized workflow, task rows | initialize, start from definition, advance, refresh timers, retry service tasks, record a failure |
| human tasks (`services/tasks.py`, `work_items.py`) | `work_item` rows | claim, complete, assign pending, close, reopen |
| scheduler (`services/scheduler_jobs.py`, `scheduler_runtime.py`) | `scheduler_job` rows | upsert, claim due, run due, delete |
| timer starts (`scheduler_runtime.py`, `process_definitions.py`) | `timer_start` jobs | import, fire, reschedule |
| lanes (`services/lane_assignment.py`) | groups, members, potential owners | import, assign, sync, assign pending |
| permissions (`services/authorization.py`) | groups, principals, targets, assignments | provision a role, grant to a user, decide |
| process definitions (`services/process_definitions.py`) | definitions by digest, version snapshots | import, start from definition |
| call activities (`workflow_runtime.py`, `call_activities.py`) | the parser of a workflow being built | resolve what a process calls |
| service tasks (`service_tasks.py`, `connector_proxy_service_tasks.py`) | none of their own | fetch commands, post a command, judge its answer |
| Keycloak helpers (`utils/keycloak/service.py`) | the shared realm | provision organizations, groups, users |
| migrations (`alembic/`, `sample_app/alembic/`) | the schema and two version tables | upgrade, downgrade |
| sample application, start-up (`app.py`, `seed.py`) | tenants, users, default secrets | start in standalone or shared mode, seed |
| sample application, pages (`web.py`, `auth.py`, `views/`, `secrets.py`) | the browser's session, secrets | sign in, edit secrets, deploy, start |
| sample application, catalog (`shared_m8flow.py`) | files shared with an m8flow backend | publish, load |
| transactions (`application/dispatcher.py`, independent sessions of the runtime) | sessions, row locks | run a command, commit a baseline or a failure on its own |

What makes it hard:

* The status, the blob, the task rows, the work items and the scheduler jobs are
  five copies of one truth, and every command rewrites a different subset.
* Users, operators and the scheduler interleave on one instance, and claiming
  and completing do not look at its status.
* A failing service task commits part of its effects in a session of its own,
  while the session that called it goes on or is rolled back.
* Nothing but row locks orders two transactions: there are no version columns,
  and the ORM writes the columns that differ from what it has read.
* Group IDs are hashes, usernames are shared by tenants, and groups named like a
  lane are still honoured.
* A definition is found by the digest of its source and updated in place, while
  instances of older deployments point to it and other requests start it.
* Keycloak, the connector proxy and the catalog directory take part in no
  transaction: whatever was done there stays done when a request fails.
* Two migration histories own the same tables, and SQLite commits every DDL
  statement by itself.

`PROJECT.json` lists the main hazards at their lines, with the properties that
would catch each of them. Other behaviours of the code that a reader should know
of, and that no run is about:

* Every save makes all READY tasks claimable anew (`workflow_runtime.py:2211`):
  a claim on a parallel task is gone when somebody completes another task.
* Importing a definition again resets the cycles, date and lock of its timer
  start job; a changed diagram is a new definition, and the job of the old one
  stays, so both start (`workflow_runtime.py:2269`).
* `process_instance_completed` is recorded by `complete_task` only
  (`tasks.py:233`); an instance that a timer or a retry completes has no such
  event.
* A start locks the row of its definition until the request commits, service
  calls included (`workflow_runtime.py:748`).
* The catalog is written before the definition is committed (`deploy.py:192`); a
  crash in between leaves an entry that the database does not have.
* A browser session that names a row which is gone shows a server error until
  its cookie is gone (`auth.py:101`).

## Modules

Each component has a module; `MC` modules give the constants of the top modules
values for TLC. Eight `...Proofs` modules have the theorems: `SchedulerProofs` is
about `SchedulerPass` and `TimerStart`, `TransactionProofs` about
`TaskTransactions` and `Authorization`, and those of `HostRequests` and `SampleApp` are about the modules
they are composed of, too. `HostRequests` extends `CallActivities` and `ServiceCalls`, which extends
`ModelCatalog`, which extends `DefinitionStore`; `SampleApp` extends
`SchemaMigrations` and `SharedLogin`, which extends `TenantSeed`, which extends
`KeycloakProvisioning`.

### ProcessInstance

One process instance as the database shows it between committed commands. The
process diagram is a parameter: manual tasks, service tasks and timers, `Pred`
(which tasks lead to a task), `Host` (the task a boundary timer sits on) and
`Delay`.

| variable | in the code |
| --- | --- |
| `status` | `process_instance.status` |
| `initialized`, `state`, `due` | `workflow_state_json`: present, task states, due dates of timers |
| `row` | `task.state` |
| `item` | `work_item`: status, owner, completed by |
| `timerJob`, `retryJob` | `run_at` of the two scheduler jobs of an instance |
| `lastEvent` | the last lifecycle event |

Actions are commands (`Initialize`, `ClaimTask`, `CompleteTask`, `Suspend`,
`Resume`, `ErrorInstance`, `Terminate`, `ScheduleRetry`, `Retry`), jobs
(`RunTimerJob`, `RunRetryJob`) and `Tick`. A command that raises is rolled back
and is no step, except for what `CommitFailure` models: the independent session
that stores the failure of a service task. `SaveProgress` is
`_persist_workflow_state` with everything it calls: rows, materialized and
closed work items, status, timer job.

SpiffWorkflow is external. `RunAll` returns every state a run can end in, each
service task succeeding or failing. Diagrams are acyclic and each BPMN task has
one runtime task. Exclusive gateways are covered as the union of the diagrams
that are left when a branch is chosen. `complete()` is called whatever the state
of its task: after a retry has reopened work items, also on tasks that are over.
It then updates the children of the task, so an elapsed timer right behind it may
fire before its job runs (`Overdue`). A task that a timer had cancelled becomes
completed; `REDONE` is this state, and nothing follows from it, as cancelling has
dropped the children. Of the elapsed timers on one task one fires and cancels the
others (`Firings`, `Interrupted`). Timestamps are distances from now, and `Tick`
brings them closer.

### TaskTransactions and WorkItemContract

The commands of `services/tasks.py` and terminate, split into the statements
that PostgreSQL interleaves: unlocked reads, the compare-and-set of a claim,
flushes in the order of the code, commit, and abort at any point. `lock` has the
session that holds each row; `seenStatus`, `seenDone` and `seenItem` are what a
session has read. `Column` writes a column only if the session has changed it.
`Instance` stands for the rows that every writer updates. All parallel tasks are
READY at the start.

`WorkItemContract` is what the tables promise: a free item is claimed once, a
completion belongs to the user who has claimed the item, the instance completes
with its last item and ends with all items closed. `ImplementsContract` in
`TaskTransactions` instantiates it on the committed rows.

### SchedulerPass

`run_due_scheduler_jobs` as a transaction: one poller claims a batch, runs the
jobs one after the other in an outer session, and the application commits or
rolls back (`commits` says what it does with a pass that has raised; the
policies considered are `CommitOnError`).
`inst`, `table` and `newest` are committed; `view`, `pending`, `started` and
`batch` belong to the outer session, and `written` has the rows it has locked.
A timer start commits the row of its instance in an independent session before it
runs (`Baseline`, the state `shell` of `newest`), or creates it in the outer
session if that one does not see the definition or the user yet (`Draft`).
Failures of service tasks are recorded by an independent session
(`CommitFailure`), which waits for the locks; if it cannot be opened, or the
instance is a draft (`Missing`), the outer session records them (`FallBack`).
Whatever else a job raises, before or after its instance is there, is not
recorded (`FailUnrecorded`). The sessions are those of the dispatcher, with
autoflush off.

### TimerStart

The `timer_start` jobs of process definitions: `Import` (again, too), `Fire` with
the rescheduling of cycles, `FailToFire`, and time in fractions of a second,
since `run_at` is in whole seconds. A definition is one version of a diagram.

### LaneAssignment

Lane groups, their members and the potential owners of work items in several
tenants. Lane names are equal if they are equal after `normalize_lane_name`. An
action is a whole command; handlers that change several tables in a row pass
them along as a record (`Tables`, `Store`). READY tasks are assigned in any
order, since nothing in the code fixes one. The second owner sync of a retry
repeats the first and changes nothing. `Join`, `Leave` and `CreateLegacyGroup`
are the application's user directory.

### Authorization

`ensure_v1_role` and `grant_permission_to_user` as concurrent transactions. A
call is a program, the sequence of rows it needs (`Program`), and each row goes
through `_get_or_create`: `Select`, `Insert` (ON CONFLICT DO NOTHING, which
waits for an uncommitted row with the same key), `Reload`, and `UpdateGrant`
where the grant type differs. `Arbitrated` excepts targets without a resource
ID, whose NULL the unique constraint does not compare. `Authorize` is the
decision of `DatabaseAuthorizationPolicy` on the committed rows. A request names
its tenant by ID or slug (`Identifiers`), and a group whose identifier has no
colon applies to every tenant. `before` is a history variable: the calls with the
same program that had committed when a session began.

### SchemaMigrations, KeycloakProvisioning, TenantSeed, SharedLogin, SampleApp

The life of the sample application. `SampleApp` is `create_app`: `Start` (in a
mode), `Statement` after `Statement` of the migration, `Migrated`, one request
of `Provision` after the other, `SeedAndServe`, `Page`, `Stop`, and `Crash`
anywhere; while it is down an `Operator` runs Alembic, and administrators change
the realm (`RealmChanges`).

* `SchemaMigrations`: the two histories as plans of statements, over tables with
  their foreign keys, indexes, the ENUM type of `m8flow_tenant.status` (on
  PostgreSQL, `TypesOf`) and the two version tables. `Accepted` is what the
  database does not refuse; PostgreSQL rolls a command back, SQLite keeps what it did. A
  secret table may have been made by another program (`foreign`).
* `KeycloakProvisioning`: `Program` is the sequence of requests, and a lookup puts
  the requests it makes necessary in front (`Follows`). `RequestFails` with or
  without the effect, and the program is run again from its beginning. IDs that
  Keycloak hands out carry the era of the realm, which `RebuildRealm` ends.
* `TenantSeed`: tenants, users, roles and default secrets, written in one
  transaction. `Realigned` tenants have got another ID, and `MovedRows` and
  `MovedUsers` follow them.
* `SharedLogin`: the cookie of one browser (`active`, `pending`), forms that are
  stale, and answers of Keycloak that come late, twice or for another login.
  `signedIn` is a history variable.

### DefinitionStore, CallActivities, ModelCatalog, ServiceCalls, HostRequests

Requests of a host, several at once, each with a session of its own, which it
commits (also after an error it has shown on a page) or rolls back.

* `DefinitionStore`: definitions (`rows`), `snapshots` and `instances` as
  committed, and `session` with what each request has read, locked and will
  write. Steps are the statements of an import (`Look`, `Write`,
  `DuplicateDigest`), of a start (`Choose`, `Prepare` with its independent
  session, `SeedRow`, `Finish`), of a retry, which reads the definition only when
  it stores the workflow (`ReadDefinition`), of a failure (`RecordFailure`) and of the end
  (`Commit`, `Abandon`). `RowIsFree` and `InstanceIsFree` are row locks.
  Two first starts of a definition both look for its task definitions before
  either has committed them: one then meets the unique constraint and is rolled
  back (`TasksCollide`).
* `CallActivities`: `_load_called_process_definitions` with its stack `pending`.
* `ModelCatalog`: a directory per process model. A publication writes file after
  file and can stop in between, with a torn file, perhaps cut inside a character
  (`Garbled`), which a comparison or a load cannot decode (`Undecodable`,
  `PublishRaises`). `read_text` turns CRLF into LF (`AsRead`): a source with CRLF
  is loaded without, and its publication never finds itself unchanged.
  `published` is a history variable: what was last published undisturbed. Identifiers are of the form
  `group/model`; others are not published.
* `ServiceCalls`: the registry, the secrets of the tenant in a session of their
  own, the POST and the judgement of its answer. `effects` has the instances
  whose command was run, whatever the answer said. The code takes every 2xx body
  for a result unless its `error` is an object. The proxy is external, and the
  model assumes of it that a command which was not run is answered by such an
  object or an HTTP error.
* `HostRequests`: the composition, with bounds on what is asked and goes wrong.
  A request that starts what it has itself imported is the host program of
  `docs/how-to/embed-in-your-application.md`; the pages of the sample application
  start in requests of their own. One workflow is built at a time,
  since building touches nothing that is shared.

## Runs

| run | question | result |
| --- | --- | --- |
| `instance` | Do the five copies stay consistent under every sequence of commands and jobs, does one job serve two timers, do timers and scheduled retries make progress, and is work that a retry reopens harmless? Two parallel user tasks, one with two boundary timers, one with a timer behind it, service tasks before and behind them. | holds |
| `instance_timer_fires` | Does every waiting timer of a live instance fire? | violated |
| `tasks_single_writer` | Are claims exclusive, and do the tables implement the contract next to concurrent claims and aborts, with one writer? | holds |
| `tasks_lost` | Is a committed completion kept when another user completes a parallel task? | violated |
| `pass` | Can every failure be retried if raised passes are rolled back, is every start that did not finish made again, do sound jobs run beside one that always fails, and does every pass end? | holds |
| `pass_commit` | Can every failure be retried if raised passes are committed? | violated |
| `pass_hang` | Does a pass end if two jobs of one instance are in a batch? | violated |
| `timer_start` | Are firings counted and without drift, and do they all happen? | holds |
| `lanes` | Is work offered to the right users, of one tenant and through one group? | holds |
| `authorization` | Are concurrent grants complete, without doubles or deadlock, and decisions what was asked for? | holds |
| `startup` | Do the migrations respect their foreign keys, is the realm whole after broken starts, are tenants and users in one piece through modes and rebuilt realms, is nobody served who has not signed in, and does the application come up? | holds |
| `requests` | Do instances keep their version, can publications be read back, are called processes loaded, secrets fresh, service tasks not passed over, and does every request end? | holds |

The four violated properties state what the documentation says, quoted in the
findings of `PROJECT.json`:

* `TimerFires`: a timer that comes due while its instance is suspended, in error
  or running loses its job, and nobody makes it again.
* `CompletionIsNotLost`: two completions restore the same stored workflow, and
  the second commit overwrites the first.
* `FailureCanBeRetried` with committed passes: releasing the lock of the failed
  job flushes `running` over the recorded `error`.
* `PassEnds` with a shared instance: the independent session waits for a row of
  the outer session of its own thread.

Some properties that hold name an exception, which is a behaviour of the code
that the models reach and a reader should know:

* `RequestEnds`: a host that imports a source under another process model and
  starts it in the same transaction waits for its own snapshot
  (`WaitsForItself`).
* `StartsAgain`: an application whose tables were dropped by the library's
  downgrade stays stamped and does not start.
* `OneRowPerUser`: going back from shared to standalone mode makes second rows.
* `CatalogIsWhole`: two publications at once mix their files, and an upload
  leaves the decision tables of earlier deployments in place. If it has none
  itself, one table that is left is loaded with it (the property says nothing of
  this case), and with several, or one that cannot be decoded, the process model
  is not loaded.
* `SettledStaysSettled`, `ReworkMovesNothing`: completing a work item that a retry
  has reopened turns a cancelled task into a completed one, and may fire an
  elapsed timer right behind it.
* `DecisionMatchesGrants`: a denial is turned around by a permission whose call
  was not over when the denial began.
* `AdvanceMeansEffect` says at least once: a lost answer, a crash or two retries
  at once run a command twice.

### Bounds

* `instance*`: two users (one in `instance_timer_fires`), delays of one and two, a
  retry at most one unit ahead. The two boundary timers elapse together, and one
  service task is behind a user task alone, so that a second run of what follows
  a completed task would show. The diagram has every kind of task; a timer
  before, at and after the job's date occurs.
* `tasks_*`: two users, two tasks, and three sessions of which one writes, or
  two writers in `tasks_lost`. Two tasks are what a lost update needs, and two
  claims next to a writer make every lock wait happen. `tasks_lost` uses that
  users, tasks and sessions are symmetric; `tasks_single_writer` has an action
  property and a refinement to check and does not.
* `pass*`: two or three instances, three or four jobs, a limit of two or three,
  one crash. A batch holds fewer jobs than are
  due, so the limit matters.
* `timer_start`: a count of two, a one-shot and an endless cycle, nine half
  seconds, one failure, a reimport at the second instant. Passes are late
  whenever `Fire` is not taken at once.
* `lanes`: two tenants, three users, three work items, three colliding IDs and
  one group named like the lane, one membership that the directory changes.
* `authorization`: four sessions, one rollback, two roles with two commands in
  common.
* `startup`: one organization, two users of different groups, two dialects, four
  databases to begin with. Each scenario disturbs one side: two commands of
  operators, or one and a fault, with the schema; a fault with two rebuilt realms,
  or with one and a meddling, with Keycloak; two logins, or one and a rebuilt realm, or three
  pages that write. One organization suffices, since provisioning and
  seed treat each by itself.
* `requests`: two requests, four sources (plain, the same with CRLF, with a service task, with calls),
  two process models, one decision table under three names. Seven scenarios: up
  to three imports, two starts, two retries, two edits of secrets, one fault and
  one crash; each has two requests that meet at the rows or files it is about.
  The called processes have a cycle, a file with two processes and a broken one.

### Fairness

* `ProcessInstance`: time passes, and the application polls, so that a timer job
  that stays due is run (weak fairness). A service task that is retried for ever
  does not fail for ever (strong fairness of `RunRetryJob` succeeding). Users and
  operators owe nothing.
* `SchedulerPass`: a pass that has begun goes on, and passes are begun. Falling
  back to the outer session is assumed only where the instance is missing, as it
  needs a broken connection otherwise.
* `TimerStart`: time passes and due jobs are run; `FailToFire` is bounded.
* `Authorization`: while some statement need not wait, one is executed. Nothing
  is assumed about rollbacks, so that `AllProvisioned` shows that no deadlock
  needs one.
* `SampleApp`: whoever runs the application starts it again, and a command or a
  start that has begun goes on. Faults are bounded.
* `HostRequests`: a request runs on while it can; the database grants a lock that
  is free, and the proxy answers or its timeout passes.
* The other specifications have no fairness and no liveness properties.

`CHECK_DEADLOCK FALSE` is set where the system may come to rest: an ended
instance, calls that have all committed, a clock at its bound.

## Proofs

All proofs are for any values of the constants that satisfy the named
assumptions, so for any number of users, tenants, sessions, requests, tasks and
files, and for the bounds of the runs too: they are constants, or natural
numbers in the scenarios.

Most assumptions say that sets are disjoint and numbers natural. These say more:

* `GraphAssumption`: no task comes before itself. The tasks are those of one
  run, where a loop makes new tasks.
* `BoundaryAssumption`: a boundary timer is entered with the task it sits on.
* `JobAssumption`: an instance has one retry job and one timer job, as their keys
  are made of its ID.
* `GroupAssumption`: no lane is named like the identifier of a lane group,
  `tenant:lane`. The lookup by the name alone would find that group.
* `ProcessAssumption`: the initiator of an instance is of its tenant, which
  `ensure_user_belongs_to_tenant` checks.
* `CallAssumption`: a principal is a user or a group, never both.
* `KeycloakAssumption`: the seed names every user once.
* `ScenarioAssumption`: a PostgreSQL database is sound before the first start
  (`SoundDatabase`): each history at its base or its head, foreign keys with
  their tables, tables with their indexes, but for a secret table that another
  program made. Of an SQLite database nothing is assumed but its type.

### What is proved, and along which argument

* `ProcessInstanceProofs`: for every diagram, type correctness,
  `EndedMeansClosed`, `FailureIsVisible`, `NoLostWork`, `NoPhantomCompletion`,
  `TimerJobCurrent`, `RetryJobNeedsError`, `AuditMatchesStatus`, and the action
  properties `EndedIsFrozen`, `SettledStaysSettled` and `ReworkMovesNothing`. None
  of the invariants is inductive alone. Their conjunction `IInv` needs three more:
  every item belongs to a task the engine has entered (`ItemIsEntered`), a closed
  instance can be reopened (`Reopenable`), and a waiting status agrees with the
  stored workflow (`WaitsOnStoredWorkflow`). All runs end in `SaveProgress` or
  `CommitFailure`, so two lemmas about these carry most actions. That
  completing a reopened item moves no other task needs that the stored workflow has
  always run as far as it can (`RunToTheEnd`), and that a run of such a workflow is
  unique, which is where the diagram must have no cycle.
* `TransactionProofs`, of tasks: type correctness, `ClaimHolds` and
  `ClaimIsExclusive` for any number of sessions and writers. With one writer
  (`OneWriter`) also `WorkAgrees` and the refinement of `WorkItemContract`. The
  invariant `WInv` says that what the writer has read is still stored, but for claims of free
  items (`ReadsAreCurrent`): this is what a second writer destroys.
* `SchedulerProofs`, of passes: `RollbackKeepsFailures` for every batch; if there
  are no retry jobs, `FailureCanBeRetried` whatever the application does with raised
  passes; `StartIsNotLost`. The invariant `RInv` says that the outer session's
  copies are retryable as long as a commit may write them. For the starts `DInv`
  says the same of both sessions: an unfinished start has its job in the table its
  session sees, each job is there once, and a claimed job is in both.
* `SchedulerProofs`, of timer starts: type correctness, `FiresAsDeclared`,
  `NoDrift`, `NeverEarly`. The invariant relates the count left in a row to the firings
  since the import (`Counted`), and says that a deleted row is spent (`Spent`).
* `LaneAssignmentProofs`: `WorkStaysInTenant`, `LaneGroupIsShared`,
  `OwnersAreKept` and `LaneGroupIsReached`, whatever IDs the hash computes. The
  invariant `LaneInv` says which groups can serve a lane (`Serves`): the one made
  for it, or the one named like it as long as none has been made. Groups are only
  made, and not while one named like the lane exists (`Grows`). The handlers fold
  over sets and sequences; each fold has a lemma, by induction on its length,
  that says what every assignment preserves and what the last one has reached.
* `TransactionProofs`, of permissions: `OneRowPerKey`, `ReloadFinds` and
  `DecisionMatchesGrants` for any sessions, calls and rollbacks. For the first two
  the invariant adds that between the INSERT and the second SELECT the row is
  visible (`RowIsThere`): it is the session's own or committed. For the decisions
  `DecisionInv` adds that every row comes from a call (`RowsAreCalled`,
  `UpdatesAreCalled`), that a session has what its program has passed
  (`Obtained`), and that the calls which a session has seen committed are over
  (`BeforeIsDone`).
* `HostRequestsProofs`: five results about requests that run at once.
  * `VersionsAreKept`: what a session will commit points to a row that is
    committed or its own (`SessionOK`), and the id of a row that is not committed
    is known to one session only (`Private`). Every step of a host is a step of
    the store for one request or leaves the store alone.
  * `LoadedIsClosed`: every called process of what was inspected is inspected,
    pending or still to be seen (`NothingIsForgotten`). `PendingIsInParser` shows
    that the branch which finds a pending process missing is never taken.
  * `SecretsAreFresh`: what a call has read is among what its tenant's secret has
    been since the call began.
  * `CatalogIsWhole`: a publication that is still alone has in place what it no
    longer has to write (`Written`), and what was published undisturbed stays
    written, up to its line ends, until another publication begins.
  * `AdvanceMeansEffect`: a session that will pass a service task has an instance
    of the same source whose command was run (`AdvanceOK`).
* `SharedLoginProofs`, `SchemaMigrationsProofs` and `SampleAppProofs`: five results
  about the life of the sample application. The first module has what does not
  need the schema and ends in the first two; the second has what a plan makes of
  a database, statement by statement; the third joins them and has the others.
  * `ProvisionedWhole`: what the realm lacks, the requests still to be sent will
    bring (`OnTheWay`). A lookup that finds something does without a request only
    if its effect is there, and no request takes anything away (`Grows`).
  * `OneRowPerUser`: before the application goes back to standalone mode, a row
    has the service ID of its own user (`UsersOK`), so that a seed finds it.
  * `RefusalIsForeign`, on PostgreSQL: a running command is at a position of its
    plan, and the position says which tables and indexes are there (`Underway`
    with `LibraryUp`, `AppUp`, `LibraryDown`, `AppDown`), and that the named type
    is there with its table (`Typed`) but for the end of the library's downgrade,
    which drops it by itself; after a commit or a rollback the database is sound
    again.
  * `ServedTenantsAreWhole`, on PostgreSQL: rows and users carry the present ID of
    their tenant (`RowsFollow`, `RealmsFollow`), there is one secret
    (`OneSecret`), and while the application serves everybody has a role
    (`Granted`). It rests on the two before: which row a seed finds for a user,
    and which tables can be gone after a commit.
  * `ServesWhoSignedIn`, on both databases: a session that a page may serve, now
    or after a later start (`Live`), names the account whose row it refers to
    (`Named`). Rows are found by position, and a dropped user table starts again
    from its first position, so the proof needs whose the first rows are
    (`Blocks`), and that a table which is younger than the session's realm has no
    other rows (`Young`). Users are dropped before tenants, though no foreign key
    says so: on SQLite because of the order of the statements (`Loose`), on
    PostgreSQL as part of `SoundDatabase`.

### What is only model-checked

* All liveness properties (`TimerProgress`, `ScheduledRetryRecovers`,
  `SoundJobRuns`, `PassEnds`, `AllFire`, `AllProvisioned`, `StartsAgain`,
  `RequestEnds`): the prover has neither fairness nor ENABLED.
* The type correctness of the other specifications. The inductive invariants
  type what their arguments use.

Every other property of the passing runs is the statement of a theorem.

## What is not modelled

* Settings, engine and session factories, the search for a local backend with
  Docker and file mounts: set-up without state that changes.
* The dispatch of commands to services, and queries: a lookup, and reads.
* Parsing, validation and digests of BPMN and DMN sources, the conversion of
  parameters and results of service tasks, tokens and URLs: text processing.
* Imports without properties or with a digest of the caller's own, which keep or
  rewrite more of a definition: the sample application gives properties and no
  digest.
* Task data, metadata rows and task-category events: written, never read back by
  an operation.
* Several pollers: `docs/reference/limitations.md` asks for one.
* Concurrency in `LaneAssignment`, and PostgreSQL's deadlock detection as such: an
  abort at any point covers its effect.
* Loops and multiple instances of a task in `ProcessInstance`.
* The pages that claim and complete tasks and the scheduler loop of the sample
  application: they call commands that are modelled and add no state.
* The example programs, which are a straight line of commands each with output
  in between, and the maintenance scripts of the repository.
