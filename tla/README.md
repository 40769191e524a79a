# A formal model of the SQL Server monitoring platform

TLA+ modules, TLC configurations and TLAPS proofs about the program in `src/`:
collectors that read SQL Server instances, a PostgreSQL database that stores
what they read, Airflow DAGs that schedule the collectors and evaluate alerts,
an API and a portal. Every definition is translated from the source;
`PROJECT.json` ("map") names the lines of each.

    tlc -workers 2 -config alert_faults.cfg MCAlertEngine     # a run
    tlapm AlertEngine_proofs.tla                              # the proofs

## 1. Inventory

**Alert evaluation** — `db/procedures/sp_process_alerts.sql`,
`airflow/dags/alert_processing.py`. State: the rows of
`monitoring.alert_event`, `alerts_processed_at` of each run, and the list the
`evaluate_alerts` task works through. Every two minutes the DAG fetches up to 20
finished runs not evaluated yet, by `finished_at`, and for each calls the
procedure and marks the run in one transaction. The procedure opens events,
updates active ones and resolves those found clear: three statements, each
reading what the one before wrote. Hard: evaluations rolled back and put off, a
retried task that repeats its list, acknowledgements in between, and uniqueness
with no unique index. Correct: one active event per condition, the cooldown, an
unchangeable history, alerts that show the newest observation, every run
evaluated once and marked with its evaluation.

**Acknowledgement** — `POST /alerts/{alert_event_key}/acknowledge`
(`app/repositories/alert_repository.py`): one UPDATE of an open event.

**Collection pipeline** — `MonitoringService.execute_pipeline` and
`PostgresRepository`. State: the run's row, the error log, staging tables, fact
tables. A run synchronizes the catalog, goes through eight collectors, loads
staging into facts and finalizes its status. Each repository call has a
connection and a transaction of its own, so a run is a sequence of commits that
may stop anywhere. Hard: which of these commits happened when a call raises; an
error whose recording fails; crashes; mapped tasks sharing staging tables.
Correct: the status says what was stored, runs do not touch each other, staging
is emptied.

**Repeated polls** — `sync_databases`, `collect_deadlocks`,
`collect_agent_metrics`, `collect_backup_metrics`, the UNIQUE constraints of
`dim_database`, `fact_deadlock` and `fact_sqlagent_job`, and the calendar
`fact_backup` refers to. Each run reads mostly what is stored
already, from a target that changes between any two steps. Correct: what was
read is stored, once, and the numbers alerts are judged by come from what was
stored.

**Query statistics** — `collector/sqlserver/query_metrics.py`,
`db/facts/fact_query_stat.sql`, `grafana/queries/13_top_queries_by_delta.sql`.
Each run stores the cumulative counters of the top entries of the plan cache; a
panel takes the differences over a range of time. Hard: entries are evicted and
start again at zero, come and go in the top 20, and share hashes. Correct: no
work is shown that was not done, and of an entry that stays none is missed.

**Collection scheduler** — `airflow/dags/sqlserver_collection.py`. Once a
minute it computes the due targets (interval or cron schedule against the last
finished run) and maps a task over them, one DAG run at a time. Hard: a due list
that is stale when a task starts, retries, and a task that never returns.
Correct: the cadence is kept and no due target is forgotten.

**Data quality DAG** — purges staging rows older than three days; its two other
tasks only read and raise.

**Health probe** — `airflow/dags/sqlserver_monitoring.py`: every two minutes a
mapped task per active target probes it and upserts its row of
`monitoring.system_health`, whose times and failure count are computed from the
row before. Hard: a retry probes again and upserts again, after an attempt that
may have committed. Correct: the row shows what the task returned, the count is
the failure streak, and a check always ends.

**Portal** — `frontend/app.js`. State: the list of the last answer, the
document (table, buttons, filter), and the calls of `refresh` and
`acknowledgeAlert` that are in flight. `refresh` awaits two requests and
renders; the page load, an interval, the button and every accepted
acknowledgement start one. Hard: refreshes overlap and are answered out of
order, late or never; rows are replaced while one of their buttons waits for its
POST; what an operator acknowledges may be over. Correct: the page shows what the
API lists in the end, goes back only by an overlap, and the events live as promised
whatever a page sends.

**From rows to an alert** — the pipeline and the alert DAG share the row of a
run and its facts. `finalize_collection_run` is the handover: from then on the
alert DAG may evaluate the run, once. Hard: what fails, is lost, or dies before
it. Correct: what reached the facts reaches the alerts, an evaluated success judged
its summaries, and no facts are added behind an evaluation.

**API shell, configuration, dashboards, bootstrap** — stateless routing and an
API key comparison; validation of environment variables; read-only SQL;
sequential DDL and shell scripts.

How they interact: the scheduler reads `finished_at` of the runs the pipeline
finalizes and the targets the API edits; the pipeline writes the facts and run
statuses the alert DAG reads; the alert DAG writes the events the API lists and
acknowledges; the purge shares staging with the pipeline. All of it goes
through PostgreSQL tables; no component calls another, except that a DAG task
calls `execute_pipeline` and the portal calls the API.

## 2. Modules

| module | models | uses |
|---|---|---|
| `AlertLifecycle` | what the platform promises of alerts: numbered episodes, one live at a time, acknowledged at most once, closed for good | |
| `AlertEngine` | procedure, DAG, event table, acknowledgement | `AlertLifecycle` (refinement) |
| `CollectionPipeline` | runs, repository calls, staging, load procedures, purge | |
| `TargetPolls` | catalog, deadlocks, Agent history and backups over repeated runs | |
| `TargetScheduling` | due list, mapped tasks, configuration changes | |
| `HealthProbe` | mapped probes, their retries, the upsert of the health row | |
| `Portal` | one tab of the portal, the alert API, the events as evaluation leaves them | `AlertLifecycle` (refinement) |
| `Platform` | successive runs of one target, from the collectors to the alert | `CollectionPipeline`, `AlertEngine` (composition) |
| `QueryDeltas` | plan cache, query snapshots, the panel of their increases | |
| `MCRegistry` | the whole registry: two runs of it, or several runs of its query collector | `CollectionPipeline`, `QueryDeltas` |
| `MC...` | the other instances TLC checks | the module named |
| `AlertEngine_proofs`, `CollectionPipeline_proofs`, `HealthProbe_proofs`, `TargetPolls_proofs`, `TargetScheduling_proofs`, `Portal_proofs`, `QueryDeltas_proofs` | theorems and their proofs | the module named, `TLAPS` |
| `Platform_proofs` | theorems and their proofs | `Platform`, and the proofs of its two components |

### AlertEngine

A *condition* is what the procedure compares events by: alert code, instance,
database. `alertEvent[c]` is the sequence of the rows of `c`. What
`tmp_alert_eval` holds for a run and a condition is the run's *verdict*:
`"triggered"`, `"clear"`, or `"absent"` when no fact and enabled rule meet.
`Inserted`, `Updated` and `Resolved` are the three statements;
`ProcessAlerts` composes them. `EvaluateRun` is the try branch of the loop
(call, mark, commit), `RollBackRun` the except branch — taken when a row breaks
`ck_alert_event_times` or by a transient fault — `FinishBatch` the end of the
loop with its raise, `LoseTask` a dead worker, a broken connection or a lost
answer to a commit. `task.batch` is the list the task got through XCom and
`task.left` what the attempt has still to visit: `RetryOrStop` starts the same
list over, as Airflow does.

Time is a clock of a few units; `finished_at` stands for the run's
`collected_at` too. Runs of an instance come one after the other, as
`max_active_runs = 1` of the collection DAG makes them. `"absent"` verdicts
stand for disabled rules as well; `consecutive_occurrences` and
`evaluation_window_seconds` are configured and never read by the procedure, and
so have no counterpart here.

### CollectionPipeline

`worker[r].pc` is the place of run `r` in `execute_pipeline`; a step is one call
of the repository. A *batch* is what one collector hands to one call; it is
written as a whole or not at all. `staging[r][t]` follows the batch of type `t`
through its staging table (`staged`, then `loaded` into facts, `dropped`
by a load whose metric is not active, or `purged`), `fact[r]` the batches
written to specialized tables. Each call can succeed, fail without effect, or
take effect and still raise (its answer was lost). `worker[r].swallowed` counts
the failures that `log_collection_error` caught of its own; it is a history
variable that lets the properties say exactly when a status can be trusted.
`Crash` is a worker that dies or hangs.

### TargetPolls

`catalog` and `dimDatabase` map names to ids (`NoId`: none). `Orders` are the
orders in which the catalog query may return the databases: the upsert is by
name and one statement per row, so whether it meets the second UNIQUE
constraint depends on the order (`Rejected`). `today` and `yesterday` are the
job history by `run_date`, which is what the 24-hour window of the query
compares. The target's own actions are external: databases are created, dropped
and renamed and backed up, jobs finish, midnight passes, deadlocks are reported
and overwritten, at any moment. `backups[n]` is the last full backup msdb has
under the name `n` — by name, so a recreated database inherits it —, and
`"undated"` one of a day `dimension.dim_date` does not have, before 2020: its row
breaks a foreign key and the batch is rejected, with the ages derived from it
(`StageAges`). `AgesReported` assumes that runs reach their end again and again,
as CollectionPipeline's do unless a worker dies or a query hangs. No property is
about the deadlock facts: one ON CONFLICT clause keeps them, and would be restated.

### TargetScheduling

`schedule[t]` is what the LATERAL subquery returns for `t`; `"none"` stands for
no active row and for an unreadable cron expression, which the code treats
alike. A cron expression is a grid of the clock. `task[t]` is the mapped task;
`readBy` remembers the schedule the due list was computed from. `HangTask` is a
query that never returns: the login has a timeout, queries have none.

### HealthProbe

`health[i]` is the row of `i`, `task[i]` its mapped task in the current DAG run,
and `returned[i]` what its tasks returned, which Airflow keeps: `"lost"` stands
for a task that used up its attempts. `NOW()` is the number of the DAG run, since
times are only compared between DAG runs. `LoseAttempt` loses an attempt before
or after its upsert committed; `AfterLoss` is the retry, which starts with a new
probe and may find the other status. `Probe` has no counterpart of `HangTask`:
`pymssql.connect` gets a timeout for the login and one for the query.

### Portal

`opened`, `live` and `acked` are the table of events, changed by evaluations
(`OpenEvent`, `ResolveEvent`), by other clients and by this page;
`ImplementsLifecycle` instantiates `AlertLifecycle` with these same variables, so
that a page adds nothing to what `AlertEngine` was shown to implement. `refresh[i]`
and `post[i]` are the calls in flight, each cut at its `await`: what comes before
is part of the action that starts it, the answer is a step of the API, and the
rest is `Render` or `ReceivePost`. `page.activeAlerts` is the variable of that
name; `page.table` is what is shown, rows or an error; `page.saving` the buttons
that read "Saving…". Since every rendering makes new buttons, `saving` is emptied
by it, and a POST whose button is gone changes nothing when it fails.
`"hung"` is a request without an answer, which may still fail at any later time.
`met` is a history component: the other refreshes one overlapped.

### Platform

Both modules are instantiated, over the same runs. `collectionRun[r]` is the row
as the pipeline writes it, `evaluation[r]` as the alert DAG reads and marks it;
`FinalizeRun` is a step of both, and `Observed` ties the verdicts of a run to the
facts it has: a condition whose metric was not loaded has none, and one on a loaded
summary (failed jobs, blocking sessions) has one. Of other batches it does not say so
much: `collect_server_metrics` swallows the failure of a query (`server_metrics.py:71`)
and loads what it has, so a success may leave a CPU condition unjudged; `MetricOf`
admits rules on every staged metric, as the seeded ones are. The action is
`Collect`, `Crash` or `CleanupStaging` for the steps only the pipeline takes and
`EvaluateAlerts`, `LoseTask`, `Acknowledge` for those of the alert engine.

### QueryDeltas

`cached[e]` is the counter `total_worker_time` of an entry, which the query
orders by and the panel sorts by; `done[e]` is what the entry really used, which
nothing in the platform sees. `IsResult` says what `TOP ... ORDER BY` may return.
`KeyOf[e]` is what the constraint and the panel go by, database and hashes, which
several entries may have. `InRange`, `Previous` and `Samples` are the common table
expressions of query 13, as sets of places in `queryStat`, which is in the order
of `query_stat_key`; `Delta` is the LAG and the filter on counters that went back,
`Reported` the sum for one key and a range that starts at any snapshot. The other counters are not ordered by: that the panel
does not overstate CPU time rests on the order of TOP, and does not hold of them
when entries with the same hashes take turns.

## 3. What the runs check

| run | shows |
|---|---|
| `alert_faults` | `UniqueActive`, `CooldownKept`, `HistoryKept`, `EvaluationOutcome`, `EventsTraced` (no evaluation without its mark) and the refinement of `AlertLifecycle`, under faults and retries; and `LatestVerdictWins` |
| `alert_stuck` | violation: one transient fault leaves a run unevaluated for ever |
| `alert_count` | violation: without any fault, an event that one run observed has two occurrences |
| `pipeline_full` | the whole registry: `SuccessMeansLoaded`, `FailureExplained`, `LoadedTogether`, and for two runs `RunsIsolated`, `StagingDrains`, `RunsEnd`; its query collector over several runs: `NeverOverstated`, `SteadyIsExact` |
| `pipeline_silent` | violation: a failed load reported as success, without an error |
| `polls_all` | `SyncOutcome`, `DatabasesRecorded`, `SummarizedAreStored`, `AgesReported` |
| `polls_agent` | violation: a new job run is lost when a known one is in the window |
| `polls_databases` | violation: a renamed database stops the synchronization of all |
| `scheduling` | `CadenceKept`, `DueIsCollected` |
| `health` | `FailuresCounted`, `ReturnedIsShown`, `LastTimesKept`, `CheckEnds` |
| `portal` | `OnlyOverlapsGoBack`, the refinement of `AlertLifecycle`, `AlertsCatchUp`; and in `TypeOK` that the refresh button is disabled only while a refresh is in flight and that a button that says Saving is shown |
| `platform` | `SuccessJudgesSummaries`, `AlertsShowLastObservation`, `NoLateFacts`, `ObservationsReachAlerts`; and that a run is evaluated in the end unless there was a fault and it is *outdated* (`ProcessedUnlessOutdated`) |

The five violations are disagreements of the code with the repository's own
documents; "findings" in `PROJECT.json` quotes both sides.

**What is said of the order of observations.** Until the first fault the newest
evaluated observation of a condition decides. A *fault* is a lost task or one
evaluation that was rolled back; the latter fails no task, since
`evaluate_alerts` raises only when every run of its list failed
(`alert_processing.py:118`), and the run is evaluated after newer ones of its batch:
an older observation is then applied last, and may open an event that is over.
`LatestVerdictWins` does not deny this. It says of the states after a fault that a
newest observation does decide when no older one was evaluated after it, so what
was shown wrongly is set right by the next newer run with a verdict.
`AlertsShowLastObservation` says the same of the runs with rows for the condition.

**What the controls of the portal may do.** A button that says Saving need not have a
POST in flight: after an accepted one it waits for the rows to be replaced, and a
request without an answer keeps it, as a hung refresh keeps the refresh button disabled.
That the page goes on all the same is `AlertsCatchUp`.

**Seen while modelling**, and not a run: two plan cache entries with the same hashes
reject a run's query statistics; a database that was never backed up has no backup
age, and so no alert; one backup started before 2020 keeps the ages of all databases
of its target from being stored, though docs/collector/sqlserver-metrics.md says
"backup age is also emitted as a database metric when a finish time is present"
(`StageAges` has it, and `AgesReported` is about targets without one); backup times
are local times of the target taken as UTC; every run inserts the last backup again;
a failed query of one server metric leaves a success without it; the filter of the
portal says "your alert inbox is clear" before the first answer and shows old rows
after a failed one.

**Bounds.** `alert_faults`: two conditions, one with a cooldown and one without;
three runs when they observe only the one with the cooldown, so that one is late,
one current and one newer, and two runs in a shorter time when they observe both,
so that one condition's row rolls the other back (`OnePart`, a constraint that
leaves out three runs about both); batches of two, so that a batch is cut by the
limit; one retry as configured; a clock of four units against a cooldown of two,
so that an event can be opened, resolved, held back and opened again; one fault,
which is enough for each disorder (late evaluation, repeated list). `Runs` is a
symmetry set there, as no property is about liveness; `alert_stuck` needs two
runs and has none. `alert_count`: no fault, and two runs. `pipeline_full`: the registry
as it is, and one fault on top of the failures that need none (a target that does not
answer, a query or an INSERT that fails). One run goes every way with up to three
errors, but for two collectors that do what two others do: `wait` (a fact, as of
`agent`) and `deadlock` (a fact or nothing, as `query`) find no rows and do not fail. A
second run starts when the first is through its loop, so that its load and its end
meet rows the first has staged, is loading, or left behind by a crash or a failed
load; then only `agent`, which writes a fact and stages a summary, finds rows, and each
run has one error at most (`OneOrAgent`; what it excludes are outcomes and faults that
need not happen, so nothing fair is cut). For the statistics three
entries, two of them with one key, of which a snapshot takes two, three
snapshots (before the range, and two in it) and four units of work. The two share
no variable, so a behaviour has one of them. `polls_all`: three names and ids, so that a chain of renames, a swap
and a reuse exist beside a database that stays; two job runs, one known and one
new; two deadlock reports. Databases and histories share no variable, and a
behaviour has one of them (`OnePart`): the target is never obliged to change, and
no step of a run leaves its part, so nothing fair is cut. `polls_agent` and
`polls_databases` are smaller.
`scheduling`: two targets, every assignment of an interval, a cron and no
schedule, one of them able to hang, five clock units against periods of two, two
lost tasks (more than the retries of one task) and one change. `health`: two
instances, three DAG runs — a failure, a success and a failure, or a streak with
a lost task in it —, two lost attempts of one instance, which is all of one task
or a retry in each of two, and none of the other, whose row must stay exact.
`portal`: one condition with two events, so that a row can be about an event that
was replaced; two refreshes and two acknowledgements in flight, the least that
overlap or repeat; one lost request; a filter that shows the rows or hides them.
`platform`: two runs of two collectors, one with a summary and one whose batch may
lack the row of its rule, and a condition on each; a behaviour is about one of the
two (`OneCondition`: the other collector does not fail, and finds nothing new); two
clock units, one fault of the pipeline or of an evaluation.

**Fairness.** `AlertEngine`: Airflow keeps starting the DAG, and a started task
goes on (`FetchPendingRuns`, `FinishBatch`, and the step for the next run of the
list, which is its evaluation or its rollback); no fairness makes a fault, an
operator or a collector act. `CollectionPipeline`: a started run goes on unless
it crashes, and the daily purge runs. `TargetPolls`: runs are started and go on;
the target is under no obligation. `TargetScheduling`: the DAG is started each
minute and a task that is not hung takes its next step. `Portal`: the interval fires,
requests are answered or fail but for those that hang, and settled promises are
handled; with all places for a refresh taken, an interval that fires waits for
one, and no operator has to do anything. `Platform`: what its two components
assume. `HealthProbe`: a probe
and its upsert go on and the DAG run is closed; that DAG runs come is not assumed.
All of it is weak
fairness of actions that stay enabled until taken. Deadlock is not checked
where a bounded clock or a bounded set of runs lets the system come to rest; the
`polls_*` runs and `portal`, which can go on for ever, check it.

## 4. What is proved

For every value of the constants, with TLAPS:

| theorem | states |
|---|---|
| `TypeCorrect`, `PipelineTypeCorrect` | the type invariants |
| `OneActivePerCondition` | `UniqueActive` |
| `CooldownAlwaysKept` | `CooldownKept` |
| `HistoryAlwaysKept` | `HistoryKept` |
| `OutcomeAlways` | `EvaluationOutcome` |
| `LatestAlwaysWins` | `LatestVerdictWins` |
| `EventsAlwaysTraced` | `EventsTraced` |
| `EngineImplementsLifecycle` | `AlertEngine` implements `AlertLifecycle` |
| `SuccessAlwaysLoaded` | `SuccessMeansLoaded` |
| `FailureAlwaysExplained` | `FailureExplained` |
| `LoadedAlwaysTogether` | `LoadedTogether` |
| `RunsAlwaysIsolated` | `RunsIsolated` |
| `HealthTypeCorrect` | `TypeOK` of `HealthProbe`: types, and what the times of a row mean |
| `ReturnedAlwaysShown` | `ReturnedIsShown` |
| `FailuresAlwaysCounted` | `FailuresCounted` |
| `TimesAlwaysKept` | `LastTimesKept` |
| `PollsTypeCorrect` | `TypeOK` of `TargetPolls`: types, and no two rows of `dim_database` with one id |
| `SyncOutcomeAlways` | `SyncOutcome` |
| `SummariesAlwaysStored` | `SummarizedAreStored` |
| `SchedulingTypeCorrect` | `TypeOK` of `TargetScheduling` |
| `CadenceAlwaysKept` | `CadenceKept` |
| `PortalTypeCorrect` | `TypeOK` of `Portal`: types, and which controls may be busy |
| `OnlyOverlapsEverGoBack` | `OnlyOverlapsGoBack` |
| `PortalImplementsLifecycle` | `Portal` implements `AlertLifecycle` |
| `SuccessAlwaysJudges` | `SuccessJudgesSummaries` |
| `FactsNeverLate` | `NoLateFacts` |
| `LastObservationAlwaysShown` | `AlertsShowLastObservation` |
| `ComponentsKept` | `Platform` implements `CollectionPipeline` and `AlertEngine` |
| `NeverOverstates` | `NeverOverstated` of `QueryDeltas` |
| `SteadyAlwaysExact` | `SteadyIsExact` |

With these every invariant and every action property of the passing runs, and
both refinements, have a theorem. The only assumptions are `ConstantsAssumption`
of the modules, and TLC evaluates them: the types of the constants; in
`TargetPolls` also that the names are finitely many and `NoId` is no id; in
`Platform` also that the rules are about metrics that are staged; and
`PlanCacheAssumption`, that the entries of the plan cache are finitely many,
without which the work of the entries with one key would be a sum over an
infinite set.

*AlertEngine.* Uniqueness is not inductive on its own: an INSERT tests every row
of the condition, but the UPDATE and the resolution touch any active row. The
invariant says of each history that every row but the last is resolved, dated,
and separated from the next by the cooldown, and of the task that the runs it
visits have finished. `ProcessedHistory` shows that `ProcessAlerts` keeps a
history well-formed, from the shapes of the three statements
(`InsertedShape`, `UpdatedShape`, `ResolvedShape`); every action but
`EvaluateRun` and `Acknowledge` leaves histories alone. The action properties
and the refinement follow step by step from the same invariant: an evaluation
moves each condition by one lifecycle step or none.

That alerts show the newest observation rests on the order of evaluation, which no
variable holds: it follows from the list being the oldest pending runs, from their
being visited oldest first, and from no run finishing in the past. `OrderInv` says
what this order leaves behind until the first fault: the runs of the batch are older
than the other pending ones (`TaskInOrder`), every processed run is older than every
waiting one (`DoneBeforeWaiting`), no row has been seen later than a waiting run
(`RowsInOrder`), and the newest evaluated run decides (`LatestShown`). It also shows
why the run that is evaluated is never rejected by `ck_alert_event_times` then
(`AcceptedInOrder`), so nothing is rolled back and visited again later. What holds
through faults is that the run evaluated last decides (`LastShown`): an evaluation
makes the history what its run's verdict says (`EvaluationShowsLast`). It makes the
part of `LatestVerdictWins` about the states after a fault; the order is gone then, and
`alert_stuck` shows what may follow. With them goes what `EventsTraced` needs: a step
that writes a row marks the run it was written for (`EvaluationTraces`), and no step
takes a mark away.

*CollectionPipeline.* `SuccessMeansLoaded` needs to know, in every control
state, what the counters stand for: `IInv` relates the number of errors recorded
or swallowed to the position in the registry and the collectors counted, says
that every summarized collector that was counted has its batch staged until the
load, and that nothing is staged once a run stands at its end without an error.
With it, `error_count = 0` and all collectors counted leave only the path on
which the load committed.

*HealthProbe.* That an upsert moves no time back rests on every time of a row
being no later than the current DAG run, so the invariant adds to the types that
a row's heartbeat is no later than `run` and that a task exists only in a DAG run
(`TasksHaveRun`). `UpsertedRowOK` and `UpsertKeepsRows` say what one upsert does;
`TaskStep` covers the three actions of a task with them. `CountOK` relates the
count to the outcomes also while a task runs, when the row may be one check ahead
of what was returned; a lost attempt accounts for the difference
(`StreakAppended` says what one more outcome does to the failing checks).

*TargetPolls.* That two rows of `dim_database` never claim one id rests on
the target's catalog doing the same, and on the order of the statements: a row
another name holds would have rejected one of them (`UpsertedUnique`). The
outcome of a synchronization follows for every order the catalog may be returned
in; a rejected batch has met an id that another name's row holds
(`RejectedMeansTaken`).

*TargetScheduling.* A task that waits for its first attempt was due when the list
was read (`FirstAttemptsDue`), and that does not wear off: until the task starts
no run of its target ends, and time only goes on. `FiringDivides` says that a
firing between two times puts them in different periods of a cron expression,
`DivMonotone` that later times are in no earlier ones.

*Portal.* Every list, rendered or on its way, is one the table of events once was
(`Past`), so a row that goes back must come from an older answer; and an answer
that came while no other refresh was in flight is not older than the page
(`AloneIsNewer`). The events move by lifecycle steps only (`EventsMove`), whatever
the page sends.

*Platform.* A step of the platform is a step of each component or leaves it alone
(`PipelineStep`, `AlertsStep`), so both inductive invariants hold here, cited from
the components' proofs (`ComponentInvariants`). What relates the two is `Joined`:
a run whose row the alert DAG sees as finished has ended, and with `EndedStays` of
the pipeline (nothing but the purge touches a run that ended) its facts stay what
its evaluation saw: it has a verdict on a condition exactly when it has a row for it
(`Observes`), which for a loaded summary is always. `AlertsShowLastObservation` is then `LatestVerdictWins` of the alert engine,
whose `OrderInv` holds here too, read for the runs that `Observes` names.

*QueryDeltas.* Between two rows the panel takes for one key, the counter must have
grown by no more than the entries of the key did, though the two rows may be of
different entries. That is not inductive; the invariant says of each row that no
entry with its key is further ahead of the row's total than by what it did
since (`RowsBound`). A new row has it because the query takes the entries with
most work first and the constraint admits one row of a key, so the row is of the
entry with the largest counter (`ResultIsLargest`). The rest is arithmetic of sums:
`Telescope` adds the differences up, `WorkGrows` compares what the entries did at two
rows. The sums are the fold `MapThenSumSet`, a recursion over finite sets; the
induction each of these facts needs is written as an argument about a least
counterexample, from the well-foundedness of `<` (`Least`), because the library's
induction theorems cannot be instantiated.

*Only model-checked.* Liveness (`ProcessedUnlessOutdated`, `StagingDrains`,
`RunsEnd`, `DatabasesRecorded`, `AgesReported`, `DueIsCollected`, `CheckEnds`,
`AlertsCatchUp`, `ObservationsReachAlerts`), which TLAPS does not handle under
fairness; and of the runs that end in a violation, that they do.

## 5. What is not modelled

- The list's LIMIT of 100 rows, and the badges `/readyz` sets, which nothing
  reads.
- Of dashboards and views all but query 13: they read and keep nothing.
- Metric values, thresholds and their comparison: a verdict stands for them. The
  text of alerts, dashboards, formatting and logging.
- `records_collected` counts rows handed over rather than rows written
  (`postgres.py:304`); the model counts batches, and no property is about the number.
- A collector that swallows the failure of its own query (`deadlocks.py:62`,
  `server_metrics.py:71`) looks like one that found nothing, in the code and in
  the model; of a batch of server metrics some rows may be missing (`Observed`).
- The calendar after 2035, and backup sizes and times: of a backup the model
  knows whether there is one and whether the calendar has its day.
- The data-quality checks for orphans and future dates, which read and raise.
- Two evaluators at once: `max_active_runs = 1` is taken as given, and no other
  code calls the procedure.
- The API shell, configuration, bootstrap and deployment scripts keep no state
  of their own.

## 6. Plan

1. *(done)* `AlertLifecycle`, `AlertEngine`: the behaviour users see, with
   refinement and proofs.
2. *(done)* `CollectionPipeline`: runs and staging, with proofs.
3. *(done)* `TargetPolls`, `TargetScheduling`, with proofs.
4. *(done)* `HealthProbe`, with proofs.
5. *(done)* `Portal`: overlapping refreshes and acknowledgements, with refinement
   and proofs.
6. *(done)* `Platform`, with proofs from those of its components.
7. *(done)* Backups in `TargetPolls`; `QueryDeltas`, with proofs.
8. *(done)* The order of evaluations: `LatestVerdictWins`, `EventsTraced`, and
   `AlertsShowLastObservation`.
9. Worth proving next: the safety part of what liveness rests on, such as that a
   run of the list that no fault met is processed by the end of its batch.
