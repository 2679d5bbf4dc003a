# A TLA+ model of the BI reporting system

This directory specifies and verifies the BI reporting system: what its stateful
core does when workers crash, leases expire, requests overlap and commands run at
a bad moment, and what its answers mean: which rows an import accepts, and what a
query, a filter, a metric or a chart returns. The modules are translated from the Python code
under `backend/src/bi_system` (paths below are relative to it unless they start
with a directory of the repository), read with its tests and documents.

* [The system](#the-system): its parts, their state, what is hard about them
* [Modules](#modules): how state and actions correspond to the code
* [Runs](#runs): what TLC checks, with which bounds and which fairness
* [Proofs](#proofs): what TLAPS proves, and along which argument
* [Findings](#findings): where the code does something else than it says
* [Observations](#observations): what a reader of the models should know
* [Not modelled](#not-modelled) and [Plan](#plan)

## The system

A FastAPI server (several threads, possibly several processes), import workers
(separate processes), a clean-up and a purge command, and a React client share
one relational database (SQLite for development and a single user, PostgreSQL
for production) and one directory of content-addressed files. All coordination
goes through the database: no component calls another one, except through a
row, a lock or a file.

| Component | State it keeps | Operations | What is hard |
| --- | --- | --- | --- |
| Import batches and worker (`ingestion/batches.py`, `worker.py`, `target_tables.py`) | rows of `import_batches`, issue samples, the dynamic target table | create, cancel, retry, confirm warnings; claim, stage a chunk, finalize, discard, report a failure | lease expiry, crash and resume, cancellation races, counters over several runs, requests without a row lock, two publications on one target |
| Quality evaluation and reports (`validation.py`, `duplicate_tracking.py`, `reports.py`) | the duplicate tracker of a run, the report's file | convert and evaluate a row, write a report, attach it | conversions by type, rules that share a tracker, resumed runs must see earlier rows, one report file for all workers of a batch |
| Blob storage (`storage.py`, `files.py`, `cleanup.py`, `dashboards/assets.py`) | temporary files, `sha256/..` files, `file_blobs`, `source_files`, `dashboard_assets` | store, register, clean up | file system and database share no transaction |
| Import targets, templates, data sources, readers, previews | `data_targets` and columns, `import_templates` | resolve a target, save a template version, read a file | versions without a lock |
| Semantic models, datasets, metrics, row policies (`modeling/`) | versions with a status, fields, bindings | create, new version, activate, bind | locks of several rows, snapshots of statements, statuses loaded before a lock |
| Dataset queries (`modeling/query_service.py`, `compiler.py`, `query_timeout.py`) | none | validate, compile, execute, time out | joins, three-valued policies, grouping and limits; policies and batches read at different moments |
| Dashboards (`dashboards/service.py`) | dashboards, their versions, permissions and templates | create, save, activate, delete, restore, purge, template, publish, instantiate | revisions, references against deletion, `SKIP LOCKED` |
| Filters and chart queries (`dashboards/filters.py`, `chart_query.py`) | none | resolve filters, run a chart | days of the workspace across a change of clocks, columns and ties, counts and rows read by different statements |
| Identity (`identity/`) | users, failure counters, sessions | install an administrator, log in, resolve a session, log out | counters without a lock, sessions looked up in several statements |
| Client (`frontend/src`) | caches, an editor's draft | poll, edit, save | answers out of order |

Where the components meet:

* API and worker share the row of a batch. The worker's transactions take its
  lock; the API's operations and the worker's failure report do not.
* A batch's worker writes the target table that queries read. `_active` is the
  border: rows are staged inactive and switched on in the last transaction.
* Uploads, reports and dashboard images end in one store; the clean-up command
  walks it with what it read from the database before.
* A dataset is built on a semantic model, a row policy on a dataset, a dashboard
  on datasets: activation locks rows on both sides.

What makes them correct, in short: no row of a file is imported twice or lost,
nothing half done is visible, every batch comes to an end; no registered file
disappears; at most one version of a series is active, on active ground, and
requests on several rows do not wait for each other forever.

## Modules

| Module | Models | Used by |
| --- | --- | --- |
| `ImportPublication` | the promise of the import pipeline: batches wait, run and end, and whole files that passed become visible at a commit, in place of what was visible at an earlier moment | `ImportBatches` (refinement) |
| `ImportBatches` | the pipeline: API operations, claims, chunks, checkpoints, leases, verdicts, publications, faults | `MCImportBatches`, `ImportReports`, the proofs |
| `ImportReports` | the pipeline with the report file that the workers of a batch share | `MCImportReports`, the proofs |
| `ImportBatchCalls` | the same pipeline when the operations without a row lock are slow | `MCImportBatchCalls`, the proofs |
| `BlobStorage` | store, registration, crash, clean-up | `MCBlobStorage`, the proofs |
| `ModelingLifecycle` | versions of semantic models, datasets, row policies, metrics and import templates under row locks | `MCModelingLifecycle`, the proofs |
| `Dashboards` | dashboards, their versions, grants, templates and the purge under row locks | `MCDashboards`, the proofs |
| `Accounts` | installation, logins, sessions and the requests that use them | `MCAccounts`, the proofs |
| `QualityRules` | the contract of an import template, and which rows of a file it accepts | `QueryAnswers` |
| `JoinTopology` | which semantic models are accepted, and the FROM clause of their joins | `QueryAnswers` |
| `CalculatedFields` | calculated fields through the versions of a dataset: types, storage, rewriting | `QueryAnswers` |
| `ExpressionTrees` | the parts of a formula or an expression, level by level | `CalculatedFields`, `MetricFormulas` |
| `RowPredicates` | filter expressions and row policies in three-valued logic | `DashboardFilters` |
| `Calendar`, `DashboardFilters` | days, months and grains; date filters and scopes of a dashboard | `DatasetQueries`, `ChartQueries` |
| `MetricFormulas` | formulas of metrics: contract, type and value | `DatasetQueries` |
| `DatasetQueries` | a dataset query: validation, refusals, statement and answers | `ChartQueries` |
| `ChartQueries` | the query of a dashboard's component, its series preflight and its refusals | `QueryAnswers` |
| `QueryAnswers` | questions to all of these and their answers, with what the answers should be | `MCQueries`, the proofs |
| `*_proofs` | theorems about `ImportBatches` (two modules, the second with `ImportReports`), `ImportBatchCalls`, `BlobStorage`, `ModelingLifecycle`, `Dashboards`, `Accounts` and `QueryAnswers` | |
| `MC*` | the instances' files and symmetries | the runs |

In every module, an operator that carries the name of the next definition and a
suffix (`HoldsBatchAnyOwner` before `HoldsBatch`) is that definition with a
plausible bug. It is used by nothing: each one documents, for the property that
names it in `PROJECT.json`, a defect the property notices.

### ImportBatches

| Variable | In the code |
| --- | --- |
| `batch[b]` | the row of `import_batches` with the columns that decide something; `samples` counts its `import_issue_samples`; `unseen` is history: the batches published between the DELETE and the commit of this one |
| `queue` | the order of `available_at`: a retry or a confirmation sets it to now |
| `staged[b][i]`, `active[b][i]` | how many copies of row `i` the target table holds with `_active` false and true |
| `worker[w]` | the locals of `process_import_batch`: where it stands, its batch, the last chunk boundary, what it loaded; `seen` are the active rows that its DELETE has seen |
| `faults` | a bound, no part of the program |

One action is one transaction of the code: `CreateImportBatch`,
`CancelImportBatch`, `RetryImportBatch`, `ConfirmImportBatchWarnings`,
`ClaimNextImportBatch` (`batches.py`); `LoadBatchWork`, `CommitChunk`,
`CancelProcessingBatch`, `RejectBatch`, `FailAndDiscardBatch`,
`MarkWorkerFailure`, `LoseLease` (`worker.py`); `FinishRows` is the end of the loop
over the rows. Between two of them everything interleaves. `WorkerRaises`, `WorkerCrashes` and
`LeaseExpires` are the environment. A lease has no clock: that of a worker which
is gone expires at some time, that of a slow one may expire as a fault.

A file is a sequence of rows; a row is what the rules find in it (an error, a
warning) and its business key. A duplicated key is an error of the later row:
the duplicate tracker is rebuilt by every run from the first row. It compares keys
as they are written, the database as values of a column: `ColumnValue` gives each
key its value, and two keys may have the same one (`2` and `2.0` in a
`Numeric(38, 10)`). All batches load one target, since batches of different targets
share nothing.

The publication is two steps, since nothing keeps two batches of a target from being
published at once. `BeginPublication` is the transaction up to its DELETE, which at
READ COMMITTED sees the rows that are active then (`seen`); `PublishBatch` is its
commit, by which the rows it saw and displaces have gone and its own are active,
next to whatever others have published since. In between the row of the batch is
locked (`Locked`): a cancellation waits, a claim skips it, its worker can only fail.
A DELETE that waits for a row which another publication deletes goes on without it,
and two that wait for each other are ended by the database, which is a
`WorkerRaises`.

Every other transaction is one step here. That is what PostgreSQL gives where the row
of the batch is locked. `ImportBatchCalls` splits the operations that read the
row without a lock (cancel, retry, confirm, `_mark_worker_failure`) into a read
and a write, with everything else in between. SQLAlchemy writes the columns that
changed, by the row's id: `Flushed` is that merge.

### ImportReports

`QualityReportWriter` opens `.reports/{batch}.csv.part`, one file for all workers of
a batch, and nothing it does looks at the lease. `part[b]` is the file at that path,
as the set of the rows whose issues it holds: every run writes the same text from
the first row on, so that what two runs write for one row is in the same place.
`attached[b]` is the report the user can download and `writer[w]` the writer of a
worker: what it has passed to the file (`flushed`), whether the file it has open is
still the one at the path (`linked`), and the copy it has stored (`stored`).

`OpenReport` truncates what is there, whoever writes it. A writer passes rows to the
file when its buffer is full (`FlushReport`), when it closes (`CloseReport`) and when
its run ends in an exception (`CloseOnError`); a crash loses the buffer. `StoreReport`
reads the path into the store, `MissReport` finds nothing there and raises,
`AttachReport` is the transaction that writes `error_report_blob_id`, and `Discard`
unlinks the path. The steps of `ImportBatches` go on around them: a chunk is
committed with the report open, the verdict comes after it was attached.
`contested[b]` is history: two workers had the file of `b` open at the same time.

The cuts of the buffer are taken to fall between rows, and unlinking an open file to
succeed, as on POSIX.

### BlobStorage

`temp[u]` and `disk[c]` are the files below `.tmp` and `sha256`, with an age
relative to the cutoff (`young`, `old`); `blobs` and `references` are the
registered rows; `upload[u]` is a request and `cleaner` the command. Each system
call of `store` that another process can notice is an action; the registration
is a read and a commit, whose unique keys may refuse it
(`ConflictingRegistration`). `ServerCrashes` and `RegistrationFails` are faults.
The command lists the temporary files, visits them one by one, reads the
registered keys once, and removes the old files that are not among them.

Assumed: one command at a time, and no request as old as the retention period
(24 hours unless told otherwise; `TimePasses` asks that nothing is in flight).
Left out: the `StoredBlobIntegrityError` of a damaged file, and the worker's
`.reports` directory, whose files the command ages in the same way.

### ModelingLifecycle

One series of each kind: `semantic_models[v]`, `datasets[v]`, `row_policies[v]`,
`metrics[v]` and `import_templates[v]` hold the status of version `v`, with the
model a dataset is built on, whether a policy has bindings and the dataset a
metric is on; the policies are those of the first version of the dataset. `lock` is the row lock of each row and `request[s]` the
transaction of a session: the statement it executes (`stage`), the rows this has
still to lock (`wanted`), the status it loaded earlier (`seen`), and the number
it is about to insert.

This is PostgreSQL at READ COMMITTED. A `SELECT .. FOR UPDATE` finds its rows in
a snapshot and then locks them one by one (`LockRow`), in the order of its
`ORDER BY`; a row inserted meanwhile is not among them. The session keeps the
attributes of an object that it has loaded before, since `autoflush` and
`populate_existing` are off (`db/session.py`). An insertion waits for the locked
row that its foreign key names. `RollBack` is a refusal, a lost connection, or
the victim of a deadlock.

A metric's new version locks the row it starts from and no series, a template's
new version locks what it archives and no series: their numbers are only kept
apart by unique keys, which refuse the second insertion (`InsertMetric`,
`CreateTemplate` are not enabled; the request ends by `RollBack`).

Left out here: the validation of joins, fields and expressions (any request that
reaches the commit passed it; see `JoinTopology`, `CalculatedFields` and
`MetricFormulas`), deletion (no operation sets the status
`deleted`), and names (`_ensure_name_version_available` refuses, as `RollBack`
does).

### Dashboards

`dashboards[d]` is the row of a dashboard together with what is granted on it (to
everybody but its owner), `dashboard_versions[d]` the statuses of its versions;
`templates[t]` is the row of a template and `template_versions[t][n]` the
dashboard version that its version `n` shows. `lock` has the row locks,
`request[s]` the transaction of a session: what its client had read before
(`opened`, `opened_template`: the revision it sends), the row as it was when it
was locked (`row`, `template_row`), and where it stands. `origin` is a history
variable: the template version a dashboard is a copy of.

A request of `service.py` locks (`LockDashboard`, `LockTemplate`), checks
(`CheckChange`, `CheckSource`, `CheckTemplateVersion`, `CheckPublish`) and
commits (`SaveDashboardVersion`, `ActivateDashboard`, `DeleteDashboard`,
`RestoreDashboard`, `ReplaceDashboardPermissions`, `CreateDashboardTemplate`,
`CreateDashboardTemplateVersion`, `PublishDashboardTemplate`); what it writes is
computed from the row it locked and seen by others at the commit.
`InstantiateDashboardTemplate` takes no lock at all: the template, the source and
the new dashboard are three steps. The purge of
`scripts/purge_expired_dashboards.py` reads the time, locks what has expired and
is not locked (`SKIP LOCKED`), looks for references and deletes; `DeleteDashboard`
and `PurgeExpiredDashboards` are the two ends of a template's source.

This is PostgreSQL at READ COMMITTED, where a lock waits and the row is read
after the wait. SQLite ignores `FOR UPDATE`;
`docs/plans/2026-07-18-m3-dashboard-architecture.md:35` restricts it to one user.
A clock counts in units of `Retention`, which stands for the 30 days. Any user
may be refused at any time (`RollBack`: coarse permissions, visibility of a
template, a lost connection). Pages, components, layouts and filters belong to a
version and never change, so the version's number stands for them; a client's
reading of a dashboard is one step. `_copy_aggregate` and the listings are left
out, and so is `dry_run`, which writes nothing.

### Accounts

`account[u]`, `role` and `sessions[t]` are the rows of `users`, `roles` and
`user_sessions`, a token named by the login that made it; `install[i]`,
`login[l]` and `reader[r]` are what a run of `create_initial_admin.py`, a login
and a request know so far. A login reads the account, verifies the password for
as long as that takes, and writes what it counted (`CountFailure`, `OpenSession`);
a request finds the session, the user and the roles in three statements.
`failed[u]`, `closed` and `reader[r].late` are history: the failures there really
were, the tokens a request could no longer use, and whether its token was one of
them when the request came. The hashing of passwords is external: a password is
valid or not.

### The query side

These modules have no concurrency of their own: a question has an answer.
`QueryAnswers` asks one question in each behaviour; `Answer` evaluates what the
code computes, step by step as the code does, and the properties say what it
should have been, in other terms.

* *A file under a template* (`QualityRules`): cells are texts or what a workbook
  holds; `Convert` is `_convert_value` type by type (padding, leading zeros,
  `7.0` for an integer, `NaN`, dates in cells and in texts); `Fails` are the
  rules, `AskedKeys` and `Tracked` the duplicate tracker with its name spaces.
  The answer is the verdict on each row, or that the definition is refused, or
  that the batch fails.
* *A semantic model* (`JoinTopology`): what the contract and the service accept,
  and the order in which `_resolve_joined_source` attaches sources.
* *A row and its policies* (`RowPredicates`): the truth of the predicate in SQL.
* *A date filter* (`DashboardFilters`, `Calendar`): the half-open window it
  resolves to, as days or as moments of UTC, across a change of the clocks.
* *A metric* (`MetricFormulas`): the exact value of a formula over a group, as
  fractions.
* *A dataset query* (`DatasetQueries`): validation and refusals in the code's
  order, visible rows (`_active`), joins, policies, filters, groups, order, the
  row beyond the limit, and the batches the rows come from. Where the order
  leaves ties open, the answers the database may give are a set.
* *A chart* (`ChartQueries`): which version of the dashboard is read, which
  filters reach the component, the compiled request, the counts of a series
  before the rows, and the refusals; a count that ends in an error refuses the
  chart. Each statement may see the tables after another import (`Schedules`).
* *A dataset's versions* (`CalculatedFields`, the one part with steps): each adds
  a field, copies the others under new ids, and stores expressions as JSON.

## Runs

| Run | Instance | Question |
| --- | --- | --- |
| `ImportSingle` | `ImportReports`: one batch, two workers, six files around the chunk (2) and the row limit (3), three faults, append; 380,408 states | Do crashes, expired leases, resumed checkpoints, retries, confirmations and cancellations keep every row once, the checkpoint and the counters exact, half-done data invisible, and an uncontested report complete? |
| `ImportPair` | two batches, every mode, overlapping keys, one value written in two ways, one fault; 911,491 states | Does the pipeline, with publications that overlap, implement `ImportPublication`, and are upserted keys unique up to the two gaps it has? |
| `ImportLive` | two batches, two workers, a file that has to be confirmed and one over the row limit, one fault, under `FairSpec`; 211,729 states | Does every run end, and does a worker without its lease keep its hands off? |
| `SlowCalls` | one batch, one user, two faults; slow cancellations and failure reports | Do they at least not harm the data? |
| `CancelRace` | the same instance, slow cancellations only | Counterexample, see [Findings](#findings) |
| `Blobs` | three uploads, two contents (one an image), two faults, any number of clean-ups | Does the grace period protect new contents and temporary files? |
| `CleanupRace` | two uploads of one content | Counterexample |
| `Versions` | two sessions; two model, three dataset, policy, metric and template versions | Is one version of a dataset, of a policy and of a template active, on an active model and with bindings; are numbers free; who can deadlock? |
| `Dashboards` | two sessions, two dashboards with two versions, a template with two versions, revisions to 5, clock to 2 | Do locks and revisions keep edits, grants, templates' sources and the retention? |
| `Accounts` | one user, four logins, two installations, one request, a limit of two failures | Are accounts locked for real failures only, and do closed sessions stay out? |
| `Queries` | some 56,000 questions, see below | Is every answer what it should be? |
| `DecimalLiterals` | fields with a decimal literal | Counterexample |

**Why the bounds are enough.** Two workers are an owner and a successor; a third
one would repeat either. Three faults are a crash, the expiry of the next
lease, and one more in the third run of the batch. A chunk of two rows in files
of none to four puts ends on, before and behind the chunk boundary and the row
limit. Two batches are what a mode needs: an earlier import to displace and a
later one, or two at once, of which one commits between the DELETE and the commit of
the other. Three uploads are two that race for a content and one that left an
orphan; the ages `young` and `old` are all the command tells apart. Three
versions of a dataset or a policy let two be activated or copied while a third
is active; two sessions are two such requests. `Versions` has a state constraint,
`FewOfTheOthers`: while there are policies, the model and the dataset have one
version each, as a policy's requests share nothing with theirs but the lock of
the dataset; metrics are examined over two versions of a dataset, templates, which
share nothing at all, by themselves. `Dashboards` has one as well, `Focus`: long
histories (save, activate, save, delete, restore) are examined of one dashboard
without templates, short ones of two dashboards with templates, as grants and
editing share nothing with templates but the lock and the deletion, which are in
both. A clock of two is a deletion, and a purge one retention later, that a
restoration can meet. In `Accounts` four logins with a limit of two failures are
two that overlap on either side of the limit and two that open sessions; one
request is enough as requests write nothing. In `Queries` the files are all
sequences of up to three rows from twelve for each of three templates (a first
row, its duplicate, and one behind a rejected one), and further templates that
differ in one point or are refused; models have up to four sources with every set
of joins; policies come in pairs over two fields with missing values; dates and
moments lie on both sides of every boundary of a day, week, month and of the
change of the clocks; formulas have up to five nodes over groups of no, one and
two rows; queries join two sources with retired and missing rows; charts are read
between three imports, the last of which takes back what the first brought.
What is bounded in number
only (`MaxFaults`, sessions, logins, file lengths) is left arbitrary by the proofs of
the modules that have them.

**Fairness.** `ImportLive` assumes weak fairness of every worker's steps and of
its claims, since the loop of `scripts/run_import_worker.py` polls without end
and each step is a finite transaction; and of the expiry of a lease whose worker
is gone, since time passes. It assumes nothing of the API, and faults never have
to happen. A slow worker's lease need not expire. All other runs check safety,
without fairness.

**Deadlock.** The import and blob instances may stop (every batch has ended,
every upload has been made and nobody asks for anything), the clock of `Accounts`
and the questions of `Queries` come to an end, so their configurations say
`CHECK_DEADLOCK FALSE`. `Versions` and `Dashboards` check for deadlock; a circle of waiting sessions is a
property of its own (`OnlyDatasetsDeadlock`), as `RollBack` could always break it.

**Symmetry** is over workers, batches, uploads, sessions or logins, and used in
safety runs only.

### Properties

The properties, by what they guard:

* *No row twice, none lost:* `ExactlyOnce`, `StagedBehindCheckpoint`,
  `PublishesWholeFile`, `KeysAreUnique`, `PublishedAtMostOnce`,
  `SucceededIsThere`.
* *The verdict rests on the right numbers:* `CountersMatchCheckpoint`,
  `UncontestedReportIsComplete`.
* *Nothing half done is seen:* `OnlySucceededVisible`, `ImplementsPublication`,
  `CancelledIsInvisible`.
* *Leases and cancellations:* `WorkerViewIsCurrent`, `CancellationWins`,
  `EveryRunEnds`.
* *Files:* `NewContentIsKept`, `TemporaryFileIsKept`, `OnlyCrashesLitter`,
  `RegisteredIsStored`.
* *Versions:* `OneVersionIsActive`, `ActivatedOnActiveModel`,
  `ActivePolicyIsBound`, `NumbersAreFree`, `OnlyDatasetsDeadlock`.
* *Dashboards:* `ChangesWhatWasRead` (no edit is lost), `ChangesAreGranted`,
  `TemplateSourcesAvailable`, `InstancesArePublished`, `ActiveIsCurrent`,
  `PurgedAfterRetention`.
* *Accounts:* `LocksOnlyAfterFailures`, `ClosedSessionsStayOut`.
* *Answers:* `KeptRowsAreValid` (a row of a file is accepted for what it is and for
  what came before it, and for nothing else), `JoinsResolve`, `PoliciesFilterRows`,
  `WindowsAreLocalDays`, `MetricsAreDefined`, `AnswersAreExact`,
  `ChartsAreStable`, `ChartsAreComplete`, `SeriesAreWhole`.
* *Calculated fields:* `StoredFieldsCompile` (what is stored of a field is accepted
  by the next query; without decimal literals in `Queries`, with them in
  `DecimalLiterals`), `VersionsKeepMeaning`.

The type invariants of `ImportBatches`, `Dashboards` and `Accounts`, the inductive
invariants (`IInv`, `ReportsInv`, `CallsInv`, `BlobInv`, `LifecycleInv`, `DashboardsInv`, `TemplatesInv`,
`AccountsInv`), and the property `PendingIsNotCancelled` are proved for every
instance and need no run.

## Proofs

TLAPS checks these for every value of the constants, from the assumptions that
the modules name (`FilesAssumption`, `SettingsAssumption`, `NamesAssumption`,
`BlobAssumption`, `LifecycleAssumption`, `DashboardsAssumption`, `AccountsAssumption`,
`PredicatesAssumption`, `CalendarAssumption`, `FiltersAssumption`: files are finite
sequences of rows, chunk and row limits are positive, sentinels are no members, there
is a version of a model and of a dataset, sessions are finite in number, months follow
one another, and offsets of clocks are whole hours).

The answers are proved for every set of questions `Questions` is made of. What
`QueryAnswers` assumes of them is what the code has before it checks anything: a
request body, a stored template or a specification has the shape its pydantic model
gives it (`ModelsAssumption`, `FilesAssumption`, `RequestsAssumption`,
`ChartsAssumption`, `MetricsAssumption`: lists are lists, a field measure has an
aggregate, a type is one of six, the operators of a formula are the contract's and a
number column holds numbers), the settings are numbers (`JoinAssumption`, `FieldsAssumption`,
`FormulaAssumption`, `QueriesAssumption`), a dataset has at least one field
(`dataset_contracts.py:44`), and every join reads a table that is there (`IsData`). The values of
a field are numbers in the order that the database has for its type, or NULL, and the
calendar has the periods of its days (`ValuesAssumption`). Of filters (`ScopesAssumption`,
`ScopesAreKnown`) the contracts give the type of a date filter and of its ends; the
column holds what its type says, and the calendar reaches far enough. Two sets hold
only what has been through the checks before: the scopes of a dataset query are ones
that `resolve_scoped_filters` accepted (`Refusal`, the caller's check), and the
specifications of charts are of components that were found (`ChartsAsked`).
All other refused requests are among the questions. TLC evaluates these assumptions in
the run `Queries`.

* `ImportBatches_proofs`: `TypeCorrect`, with one lemma per shape of a row and one
  per action; the inductive invariant `IInv` (`Invariant`), and from it
  `NoDuplicates`, `CheckpointIsExact`, `CountersAreExact`,
  `NothingHalfDoneIsVisible`, `RequestsStartClean`, `LeaseProtectsView` and
  `CancellationIsFinal`.
* `ImportPublication_proofs`: `BusinessKeysAreUnique`, `SuccessIsWholeFile`, the
  refinement `PipelineImplementsPublication`, and the inductive invariant `ReportsInv`
  of `ImportReports` with `ReportsAreComplete`. These and the theorems above are about
  `Spec` and `ReportsSpec`, whose API operations are one step each; what late writes
  change is the matter of `ImportBatchCalls`.
* `ImportBatchCalls_proofs`: the inductive invariant `CallsInv` (`CallsInvariant`),
  and from it `LateWritesDuplicateNothing` and `LateWritesLoseNothing`. All three
  assume that cancellations and failure reports are the slow calls, the last one
  that batches append, as in the run `SlowCalls`: a slow confirmation does publish
  rows twice (see [Findings](#findings)), and a replacement displaces what an
  earlier batch has loaded.
* `BlobStorage_proofs`: the inductive invariant `BlobInv` (`StorageInvariant`),
  `GracePeriodSuffices`, `UploadsKeepTheirFiles`, `NoLitter`.
* `ModelingLifecycle_proofs`: the inductive invariant `LifecycleInv` (`Lifecycle`),
  and from it `OneActiveVersion`, `ActivePoliciesAreBound`, `InsertedNumbersAreFree`,
  `DatasetsActivateOnActiveModels` and `DeadlocksAreOfDatasets`.
* `Dashboards_proofs`: the inductive invariant `DashboardsInv`
  (`DashboardsInvHolds`), and from it `DashboardTypeCorrect`,
  `SourcesStayAvailable`, `GrantsAreCurrent`, `ActiveStaysCurrent` and
  `PurgeWaitsForRetention`; the inductive invariant `TemplatesInv`
  (`TemplatesInvHolds`), and from it `InstancesStayPublished` and
  `RevisionsIdentifyRows`.
* `Accounts_proofs`: the inductive invariant `AccountsInv`, and from it
  `AccountTypes`, `AccountsLockAfterFailures` and `EndedTokensAdmitNobody`.
* `QueryAnswers_proofs`: what the answers should be (`AnswersAreOfQuestions` is the
  invariant: an answer is what the program computes for its question).
  * `AcceptedRowsAreValid`: a row of a file is accepted exactly for what it is and for
    the keys of the rows before it.
  * `TheLoopFindsTrees` and `ModelsResolveWhenTheyAreTrees`: joins resolve exactly when
    they point away from the fact, whatever their order.
  * `PoliciesLetThroughWhatMayBeRead`, `MissingValuesAreDenied` and
    `PoliciesLetThrough`: the predicate built from the policies is true exactly of the
    rows the reader may read.
  * `GrainsAgree`: SQLite and PostgreSQL put every day into the same week, month,
    quarter and year.
  * `FiltersMeanLocalDays` and `FiltersAnswerForLocalDays`: accepted filters let
    through exactly the rows whose local days are in the periods, whatever the moment
    of the query. These ask that the calendar has the months around a day
    (`InCalendar`, `CalendarSurrounds`), and that no midnight is strictly inside the
    hours that a change of the clocks skips or repeats (`ClocksKeepMidnight`), as for
    every change by one hour on the hour, at midnight too.
  * `AnswersCountWhatMayBeRead`: a dataset query returns the first lines of the groups
    of exactly the rows that may be read, and says when it leaves some out.
  * `AcceptedMetricsAreDefined`: an accepted metric never divides by zero, and one
    whose type is integer is whole.
  * `ColumnsNameTheirOutputs`, `SeriesAreDrawnWhole` and `StableChartsHaveOneAnswer`: a
    chart's columns name the outputs they are about, a chart with a series has all its
    pairs, and one with a series or by value leaves the database no choice of the order.
  * `FieldsAreReadAgain` and `VersionsMeanTheSame`: the calculated fields of every
    version are accepted again and compile, and each field of a new version has the
    kind, the type and the meaning of the field it copies. Both ask that no request
    holds a decimal (`"decimal" \notin Values`): with decimals the first is false, as
    the run `DecimalLiterals` shows.

**Why `IInv`.** None of the safety properties is inductive. That a chunk stages
no row twice needs the worker's position to be the checkpoint, which holds only
while the worker has its lease; that it has its lease needs a batch in progress
to have an owner; that the counters stay exact needs the worker's confirmation
to be the batch's. `IInv` is a conjunction of a fact about each batch row with
its rows in the target table (`RowInv`: staged rows behind the checkpoint,
counters, visibility, cancellation) and a fact about each worker with the batch
it holds (`ViewIsCurrent`). Steps of the API touch the first part for batches no
worker holds; steps of a worker touch both for one batch. The lemmas about
counts (`CountSplit`, `CommittedCounters`) say that the counts of `1 .. lo` and
`lo + 1 .. hi` add up, which is what a chunk adds.

**Why the pipeline implements `ImportPublication`.** `Steps` sorts the steps of the
pipeline by what they do to rows and target table: nothing; one batch's row changes
along the life of a batch, and no active row and no publication under way does; or a
publication begins, is given up or commits. The abstract state is a row's request and
status, the rows that are active, and for each batch the set of what its publication
has seen, which has at most one member since the row is locked (`OnePublisher`). The
first two kinds map to a stutter, a submission (`RefinesSubmit`), a move
(`RefinesMove`) or a confirmation (`RefinesConfirm`). For a commit (`RefinesPublish`),
`IInv` says that the worker still has what it has found (`MayPublish`) and stands at
the end of the file with counters that are those of the whole file, so no row has an
error and warnings are confirmed (`CleanFile`): the file is what `ImportPublication`
calls publishable, all of it becomes active, and what goes is what it saw and its mode
replaces. What `ImportPublication` does not promise is that publications come one after
the other.

**Why keys are unique, up to two gaps.** Two rows of one file that are both accepted
have keys that are written differently (`UniqueInFile`), though their values may be
equal. A row of another batch with an equal value was seen by the DELETE, and then it
went (`UpsertDisplaces`), or it became active later, and then its batch is in `unseen`
(`KeysAfterPublication`).

**Why `ReportsInv`.** The file holds what its only writer has passed to it
(`SoleWriter`), and that is not undone as long as nobody else opens it; a writer that
has closed has passed all rows that are evaluated. What it attaches is then the whole
report, and stays when other workers attach the same (`ReportsKept`). A batch ends with
findings only in the hands of a worker that finalizes it (`NextEnds`), whose counters
say that there is something to report (`CountedFindings`), so that it has attached it
before (`VerdictsHaveReports`). The steps of a second worker on one file are dealt with
once, by `OthersStay`: they contest it.

**Why `CallsInv`.** A late write can turn the status of a published batch into
"cancelled" or "failed", and a retry starts it again, so `IInv` does not hold: its
staged rows are no longer those behind the checkpoint. `CallsRowInv` does not rely on
the status. Either the accepted rows up to the checkpoint are staged and none is
active (`IsStaged`), or the batch has been published, its checkpoint is the end of
the file and each row is active at most once (`WasPublished`), so that a new run
finds no chunk to stage. A call in flight has read a row that makes it change the
status, the request, the error code or the lease (`Decides`, `EditedColumns`), and
`FlushedRow` is what its merge leaves of any other row: the checkpoint, the counters
and the samples stay. The steps of the pipeline keep `PipelineInv`, which says
nothing of the calls (`PipelineNext`), so that a step and a call meet in one lemma.

**Why `BlobInv`.** A content that a request put in place is young until the
request has ended; when it is old it is registered, and a clean-up that started
to remove files has read that. `BlobInv` says so for each request, with the
place where a temporary file can be at each step.

**Why `LifecycleInv`.** One version of a dataset is active because an activation
knows the others: they were active when it took the lock of the semantic model, it
has locked them or still waits for them, and no other session activates one
without that lock. `RequestInv` says for each request what it has locked and what
it read there; a step respects the locks of every other session, so all of that
stays. It says of policies that the dataset's lock does the same, of a number that
it is free or that its insertion is going to be refused, and of templates, whose
activation takes no common lock, that the row inserted first makes the other's
insertion fail. `MayHold` is the order of locks: rows of one table in their order,
a request on a dataset first that dataset, then the model, then the siblings. Once a
circle of waiting sessions has entered a set that is closed under waiting it stays
there, and comes back to its start in it (`AroundTheCircle`); every other kind of
request waits into such a set that does not contain the request itself, for instance
those that wait for a higher row of the same table. So only requests on datasets
are left, which take the siblings out of their order (`DeadlocksAreOfDatasets`). The
library's induction takes an operator as a parameter; `LeastNatural`, `Reaches` and
`GreatestNatural` state over sets what is needed of it, from the well-foundedness of
the natural numbers.

**Why `DashboardsInv`.** That a template's source stays available is a race
between a deletion, which has found no template, and a new template, which has
found its source live. `LockedIsAsRead` says that a session which has checked a
dashboard holds its lock and that what it found is still so: the row, the grant,
the absence of references. Then two such sessions cannot exist for one
dashboard, and every step of one keeps what another has found out. The purge's
own part is `PurgingIsExpired`, a revision that only grows is `OpenedIsPast`.
The proof has one lemma per action, and its core is what the steps of one session
leave alone of what another session has locked.

**Why `TemplatesInv`.** An instance shows a version that has been published, although
the copying locks nothing: `HasBeenPublished` is a fact that no step takes back,
since the number of a template's current version only grows and a published version
goes back to a draft only under a new number. For `RevisionsIdentifyRows` a session
knows that the revision its client sent is not beyond the row's, and that a row with
that revision is the row the client has read.

**Why `AccountsInv`.** That an account is locked for real failures needs that a
login in the middle of its verification has not read more failures than there
were (`CountersInv`). That a closed token admits nobody needs to know how far a
request that came too late can have got: its token has ended for good if it has
only found the session, its user is locked if it has found the user, and it never
gets to the roles (`LateInv`).

**Why the predicate is right.** SQL's AND and OR over three truth values reduce a
set of policies to "some allowing one is true and no denying one is true or
unknown" (`OrOfTruths`, `AndOfTruths`, `PoliciesOfOneEffect`); `FilterTruthIsSql`
says the same of one expression's atoms.

**Why a window is local days.** The months that have begun on a day are those up to
its own (`MonthsBegun`), so that the ranges of `_relative_date_boundaries`, which
start and end on first days and Mondays, hold the days of the period
(`PeriodsAreDays`). For a column of moments, what `_as_utc_datetime` makes of a
midnight is the moment from which on the local day is that day or a later one
(`DaysBeginAtMidnight`): of an hour that the clocks skip or repeat it takes the offset
before the change, and both agree as long as midnight is not inside.
`FilterOfAtoms` carries this through the conjunction that the compiler gets.

**Why joins resolve.** After each pass of the loop in `_resolve_joined_source` the
attached joins form a tree away from the fact over the attached sources, and no pending
join ends in an attached one (`IsDirectedTree` says what it means in terms of sets
closed under joins, without a loop). A pass that finds no join to attach leaves a set
that is closed, so the pending joins are not reachable from the fact; a join found the
wrong way round makes a second way into its source.

**Why accepted rows are valid.** The tracker holds, for each name space, the keys that
the earlier rows have put into it, accepted or not: the keys before row `i` are the
union over the rows before it, and `EvaluatedFile` is unfolded row by row. A row asks
for one key per rule that counts and per business key, each in the name space of its
own columns, so no rule sees the values of another.

**Why answers are exact.** The WHERE clause lets through the rows that may be read
(`WhatIsVisibleIsReadable`, from the theorems on policies and filters). The GROUP BY has
the last plain selection of each field and not all of them; a query that the database
executes selects nothing plain that it does not group (`GroupsWhatItSelects`), so these
are all the same (`GroupedIsPlain`), and the groups are the combinations of plain
values. Whatever order of the ties the database chooses, the first `limit` lines of it
hold no line too often and none behind one that is missing (`FirstLines`).

**Why columns name their outputs.** The request lists field measures and metrics apart,
the columns list them as they are drawn. Each measure is once in the list of its kind
under the alias with its own number (`MeasuresAre`), and the column takes the same alias
(`ColumnsHaveOutputs`).

**Why a series is whole.** A chart that is drawn is not truncated, so it has a line for
each group (`WholeAnswers`); its plain selections are the dimension and the series
(`SeriesRequest`), so that groups are pairs (`LinesArePairs`). Nothing of this needs the
counts, which may be of other data. That there are no more series than may be needs
the count of the series to be of the same data (`SeriesAnswers`, `LinesAreSeries`).

**Why charts are stable.** Where the order puts one of any two lines before the other
(`IsTotal`), the database has one order to choose (`OneOrder`). A chart with a series,
or by value, with one dimension groups by the dimension and the series
(`ChartRequestGroups`) and has both among its sorts, whatever `_stable_sorts` retains of
the others (`DimensionsBreakTies`). Two groups differ in the value of one of them, so that
the first sort to tell their lines apart decides (`GroupsAreOrdered`, `FirstDecides`).

**Why metrics are defined.** The value of a formula is a function of its parts that is
defined by itself, and TLA+ says nothing of such a function until there is one.
`RecursionByRank` gives it: a definition that looks at elements of lower rank only has
a solution, the one its iterates agree on; `InductionByRank` then says of every
solution what its definition keeps. The parts of a formula are ranked by their levels
(`PartsHaveRank`), the sets of rows a sum is taken of by their size. What is kept is
that a value is NULL or a fraction in which only zero has the numerator zero
(`FractionIsOne`), so that a denominator which is not `Zero` does divide.

**Why fields keep their meaning.** `AreValid` is inductive: the fields of a version
are numbered without gaps, their expressions are trees of the five operators no deeper
than `MaxDepth`, and their graph is valid. An expression is copied, typed and compiled
part by part (`TurnedByPart`, from `RecursionByRank`), and the parts of a copy are the
copies of its parts (`PartsOfCopy`); so a copy under new identifiers has the types of
the original (`TypeOfCopy`), its fields are ordered as before with the new one last
(`CopiesAreOrdered`), and what is typed compiles (`TypedCompiles`). Stored and read
again it is the same, unless a literal is a decimal (`StoredAsItIs`). The meaning of a
field goes through other fields' expressions, so no rank of one expression bounds it:
the parts of all fields are put in stages, each of which needs only earlier ones, and
the order of the fields shows that every part is in some stage (`AllAreStaged`). The
two versions' meanings are then compared field by field in that order
(`VersionMeansTheSame`).

**Only model-checked:** liveness (`EveryRunEnds`), which is outside what the prover does
under fairness.

## Findings

Three runs end in a counterexample to something the repository says.

* `CancelRace` (`ingestion/batches.py:154`): a cancellation that read the batch
  while it was pending commits after a worker has published it. A cancelled
  batch has visible rows, against
  `docs/plans/2026-07-15-m1-data-ingestion.md:105`.
* `CleanupRace` (`ingestion/cleanup.py:45`): the clean-up removes an old orphan
  that was uploaded again and registered after it had read the registered keys,
  against `README.md:117` of the repository.
* `DecimalLiterals` (`modeling/datasets.py:374`): a calculated field with a
  decimal literal is accepted, but JSON stores the decimal as a text, and the
  next query or version reads it as a string and refuses the field, against
  `docs/plans/2026-07-15-m2-data-modeling.md:126`. The editor of the client sends
  such literals.

More disagreements are in the modules, without a run of their own:

* A second confirmation resets the counters but not the checkpoint of the run in
  progress (`ingestion/batches.py:205`): add `"confirm"` to `SlowCalls` in
  `SlowCalls.cfg`, and `PublishedAtMostOnce` is violated.
* Two versions of a semantic model can be active (`modeling/semantic_models.py:332`),
  as one was inserted while the other's activation waited for its locks, against
  `backend/tests/unit/test_semantic_models_service.py:360`: check
  `OneActiveModel` in `Versions`, with three versions of the model.
* Activating the active version of a policy again while another version is being
  activated leaves none active (`modeling/row_policies.py:315`), against
  `backend/tests/integration/test_row_policy_portability.py:31`: check the
  property `SomePolicyStaysActive` in `Versions`.
* When a lease expires under a worker that is only slow, its successor and it write one
  report file (`ingestion/reports.py:20`), and a batch that failed for its quality can
  end with a part of its report, or with none, against `README.md:101` of the
  repository (the report has all issues). In `MCImportReports`, leave
  `~contested[b]` out of `UncontestedReportIsComplete`: a worker that has
  loaded its batch and then lost the lease opens the file only now, and truncates what
  its successor has closed and is about to store. The unlinking of the file by one
  worker also makes the other one fail (`MissReport`).

## Observations

What the code does that no document contradicts, and that surprised us:

* A row that is rejected leaves its keys in the duplicate tracker: a later row
  with the same business key is rejected as well, and the key is not imported at
  all. Decimals are compared as written, so that `2` and `2.0` are two business
  keys of one number: both rows of an upserted file become active. `NaN` is a valid decimal until a range rule compares it:
  that raises, and the whole batch fails. No rule of type enum accepts a date.
* Two batches of one target can be published at once. Each removes what it saw active
  when its DELETE began, so that two upserts of one key both stay active, and a
  replacement leaves what the other one has published meanwhile.
* Metrics of one series may have several active versions, and may become active
  on a dataset that was archived a moment ago; queries check the dataset's status.
* Failures that overlap count once, which only delays the lock of an account.
* Two grains of one field are accepted, but the grouping keeps the last one
  (`compiler.py:163`). Top N of a detail table with two or more dimensions leaves
  ties to the database. A chart may have ten sorts, and ties add two.
* The counts of a series, its rows and the batches an answer names are read by
  statements that may see different data; a series that fits when it is counted
  may have more values when it is read.
* Time grains are days of UTC here, filter windows are days of the workspace.
* Trees of joins that do not point away from the fact are accepted when a model is
  created and refused by every query.
* Statuses and bindings of row policies are read by two statements.

## Not modelled

* Pure input and output: readers and previews, report formatting, response
  models, migrations, benchmarks, evidence scripts, spikes.
* Import targets: their resolution is one transaction before the first chunk.
* Statement timeouts (`modeling/query_timeout.py`) and the two statements that read
  row policies: the data of a question does not change while it is answered,
  except between the statements of a chart.
* SQL text: a statement is modelled by what it means. `Grained` takes the UTC day of a
  datetime; `date_trunc` of PostgreSQL takes that of the session's time zone. The data
  of `Queries` have dates only.
* The refusal `invalid_filter_value`, and the limit of 50 metrics or measures.
* The patterns of names, the checks of roles and users when policies are bound, and
  the listings.
* The client: it keeps no state the server relies on.

`PROJECT.json` lists every component with its status, every definition with the
lines it stands for, and the hazards with the properties that cover them.

## Plan

What is left, in this order:

1. The resolution of import targets, two batches that create one at the same time
   included.
2. Reading policies, batches and rows of one dataset query by separate statements,
   as charts do, and statement timeouts.
3. An abstract specification of `Dashboards`, in which a save is one
   compare-and-swap of the revision, and the editor's saving against it.
4. Bounded reading of files (`preview.py`, `readers.py`).
