------------------------- MODULE CollectionPipeline -------------------------
(***************************************************************************)
(* Collection runs: MonitoringService.execute_pipeline                     *)
(* (collector/services/monitoring.py), the calls it makes to               *)
(* PostgresRepository (collector/repository/postgres.py), the load         *)
(* procedures these call, and the staging purge of the DAG data_quality.   *)
(*                                                                         *)
(* Runs of several targets are mapped tasks that run at the same time; an  *)
(* Airflow retry is one more run.  Every repository call has a connection  *)
(* and a transaction of its own, so a step of this module is one call.     *)
(* The rows one collector hands to one call are a batch, named by the      *)
(* collector's metric type: it is written as a whole or not at all.        *)
(***************************************************************************)
EXTENDS Naturals, Sequences, FiniteSets

CONSTANTS
    Runs,           \* collection runs that may be started
    Collectors,     \* the registry, in the order of the loop: COLLECTORS or a part
    ActiveMetrics,  \* types whose metric codes dimension.dim_metric holds as active
    MaxFaults       \* bound: crashes and broken PostgreSQL connections, together

MetricTypes == {"server", "wait", "blocking", "deadlock", "query", "agent",
                "database", "backup"}

COLLECTORS == <<"server", "wait", "blocking", "deadlock", "query", "agent",
                "database", "backup">>

Specialized == MetricTypes \ {"server", "database"}     \* insert_specialized
Summarized  == {"blocking", "agent"}                    \* always staged in summary
ServerStaging   == {"server", "blocking", "agent"}      \* staging.server_metric
DatabaseStaging == {"database", "backup"}               \* staging.database_metric
Staging == ServerStaging \cup DatabaseStaging

\* Batches PostgreSQL may accept without writing a row of them: they join
\* dimension.dim_database by name, or skip deadlock graphs already stored.
MayMatchNothing == {"blocking", "deadlock", "query", "database", "backup"}

ASSUME ConstantsAssumption ==
    /\ Collectors \in Seq(MetricTypes)
    /\ ActiveMetrics \subseteq MetricTypes
    /\ MaxFaults \in Nat

VARIABLES
    collectionRun,  \* monitoring.collection_run, with the errors logged for a run
    worker,         \* worker[r]: where execute_pipeline stands for run r, and its counters
    staging,        \* staging[r][t]: what became of the batch of t in its staging table
    fact,           \* fact[r]: the specialized batches of r in their fact tables
    faults          \* faults that have happened (to bound them)

vars == <<collectionRun, worker, staging, fact, faults>>

CollectionRun == [status : {"none", "running", "success", "partial", "failed"},
                  errorCount : Nat, metricsCollected : Nat, recordsCollected : Nat]

\* swallowed counts the errors log_collection_error could not be sure to record.
Worker == [pc : {"idle", "connect", "sync", "syncError", "collect", "summary",
                 "collectorError", "fatal", "finalize", "done", "dead"},
           next : Nat \ {0}, ingested : Nat, collected : Nat, records : Nat,
           swallowed : Nat]

BatchStates == {"none", "staged", "loaded", "dropped", "purged"}

Init ==
    /\ collectionRun = [r \in Runs |-> [status |-> "none", errorCount |-> 0,
                                        metricsCollected |-> 0, recordsCollected |-> 0]]
    /\ worker = [r \in Runs |-> [pc |-> "idle", next |-> 1, ingested |-> 0,
                                 collected |-> 0, records |-> 0, swallowed |-> 0]]
    /\ staging = [r \in Runs |-> [t \in Staging |-> "none"]]
    /\ fact = [r \in Runs |-> {}]
    /\ faults = 0

-----------------------------------------------------------------------------
At(r, p)   == worker[r].pc = p
Goto(r, p) == worker' = [worker EXCEPT ![r].pc = p]
Fault      == faults < MaxFaults /\ faults' = faults + 1
NoFault    == UNCHANGED faults

\* create_collection_run, outside the try: an exception fails the task, with
\* the row written when only the answer to the commit was lost.
CreateRun(r) ==
    /\ At(r, "idle")
    /\ \/ Goto(r, "connect") /\ NoFault
       \/ Goto(r, "dead") /\ Fault
    /\ \/ collectionRun' = [collectionRun EXCEPT ![r].status = "running"]
       \/ worker'[r].pc = "dead" /\ UNCHANGED collectionRun
    /\ UNCHANGED <<staging, fact>>

\* get_sql_connection: the target cannot be reached, or can.
Connect(r) ==
    /\ At(r, "connect")
    /\ Goto(r, "sync") \/ Goto(r, "fatal")
    /\ UNCHANGED <<collectionRun, staging, fact, faults>>

\* sync_databases of the target's catalog, a failure of its own.
SyncDatabases(r) ==
    /\ At(r, "sync")
    /\ Goto(r, "collect") \/ Goto(r, "syncError")
    /\ UNCHANGED <<collectionRun, staging, fact, faults>>

-----------------------------------------------------------------------------
(***************************************************************************)
(* The loop over the registry.                                             *)
(***************************************************************************)
Current(r) == Collectors[worker[r].next]

NothingWritten == UNCHANGED <<staging, fact>>

StageRows(r, t) == staging' = [staging EXCEPT ![r][t] = "staged"] /\ UNCHANGED fact

\* The INSERT of a batch commits: its rows are in, or it matched nothing.
Stage(r, t) == \/ StageRows(r, t)
               \/ t \in MayMatchNothing /\ t \notin Summarized /\ NothingWritten

Persist(r, t) == \/ t \notin Specialized /\ Stage(r, t)
                 \/ t \in Specialized /\ fact' = [fact EXCEPT ![r] = @ \cup {t}] /\ UNCHANGED staging
                 \/ t \in Specialized \cap MayMatchNothing /\ NothingWritten

\* The end of the try: the collector counts, with the rows it ingested.
Collected(r, ingested) ==
    worker' = [worker EXCEPT ![r].pc = "collect", ![r].next = @ + 1,
                             ![r].ingested = 0, ![r].collected = @ + 1,
                             ![r].records = @ + ingested]

\* The derived metric is the second call of these collectors.
Summarize(r, ingested) ==
    worker' = [worker EXCEPT ![r].pc = "summary", ![r].ingested = ingested]

\* The first call for a collector: query the target, write the rows.  It may
\* find no rows; the query or the INSERT may fail; the answer may be lost.
Collect(r) ==
    /\ At(r, "collect") /\ worker[r].next <= Len(Collectors)
    /\ LET t == Current(r) IN
       \/ /\ NothingWritten /\ NoFault
          /\ IF t \in Summarized THEN Summarize(r, 0) ELSE Collected(r, 0)
       \/ /\ Persist(r, t) /\ NoFault
          /\ \/ t \notin Summarized /\ Collected(r, 1)
             \/ t \in Summarized \cup {"backup"} /\ Summarize(r, 1)
       \/ NothingWritten /\ NoFault /\ Goto(r, "collectorError")
       \/ Persist(r, t) /\ Fault /\ Goto(r, "collectorError")
    /\ UNCHANGED collectionRun

\* insert_staging_*_metrics of the derived summary.
CollectSummary(r) ==
    /\ At(r, "summary")
    /\ LET t == Current(r) IN
       \/ Stage(r, t) /\ NoFault /\ Collected(r, worker[r].ingested + 1)
       \/ NothingWritten /\ NoFault /\ Goto(r, "collectorError")
       \/ Stage(r, t) /\ Fault /\ Goto(r, "collectorError")
    /\ UNCHANGED collectionRun

\* Mutant: a fatal error returns without finalizing the run.
AfterErrorReturning(r) ==
    [worker[r] EXCEPT !.pc = IF At(r, "fatal") THEN "done" ELSE "collect",
                      !.next = IF At(r, "collectorError") THEN @ + 1 ELSE @,
                      !.ingested = 0]

\* Whatever the logging of an error does, the run goes on.
AfterError(r) ==
    [worker[r] EXCEPT !.pc = IF At(r, "fatal") THEN "finalize" ELSE "collect",
                      !.next = IF At(r, "collectorError") THEN @ + 1 ELSE @,
                      !.ingested = 0]

\* log_collection_error swallows its own failure.  The error row and error_count
\* are one transaction.
LogCollectionError(r) ==
    /\ worker[r].pc \in {"syncError", "collectorError", "fatal"}
    /\ \/ worker' = [worker EXCEPT ![r] = AfterError(r)] /\ NoFault
       \/ /\ worker' = [worker EXCEPT ![r] = [AfterError(r) EXCEPT !.swallowed = @ + 1]]
          /\ Fault
    /\ \/ collectionRun' = [collectionRun EXCEPT ![r].errorCount = @ + 1]
       \/ worker'[r].swallowed # worker[r].swallowed /\ UNCHANGED collectionRun
    /\ UNCHANGED <<staging, fact>>

-----------------------------------------------------------------------------
(***************************************************************************)
(* sp_load_server_metrics and sp_load_database_metrics, in one transaction *)
(* of execute_staging_load_procedures: staged rows with an active metric   *)
(* become facts, and all staged rows of the run are deleted.               *)
(***************************************************************************)
\* Mutant: a commit after the first procedure, and the second one fails.
LoadedServerOnly(r) ==
    [t \in Staging |-> IF staging[r][t] # "staged" \/ t \notin ServerStaging
                       THEN staging[r][t]
                       ELSE IF t \in ActiveMetrics THEN "loaded" ELSE "dropped"]

Loaded(r) ==
    [t \in Staging |-> IF staging[r][t] # "staged" THEN staging[r][t]
                       ELSE IF t \in ActiveMetrics THEN "loaded" ELSE "dropped"]

\* Mutant: the DELETE of the procedures without its collection_run_key.
LoadClearingAll(r) == staging' = [q \in Runs |-> Loaded(q)]

Load(r) == staging' = [staging EXCEPT ![r] = Loaded(r)]

ExecuteLoad(r) ==
    /\ At(r, "collect") /\ worker[r].next > Len(Collectors)
    /\ \/ Load(r) /\ Goto(r, "finalize") /\ NoFault
       \/ UNCHANGED staging /\ Goto(r, "fatal") /\ NoFault
       \/ Load(r) /\ Goto(r, "fatal") /\ Fault
    /\ UNCHANGED <<collectionRun, fact>>

\* Mutant: the status looks at the counters of the loop only.
FinalStatusOfLoop(r) ==
    IF worker[r].collected = Len(Collectors) THEN "success"
    ELSE IF worker[r].collected > 0 THEN "partial" ELSE "failed"

\* Mutants: the synchronization counts as requested but not as collected; a
\* status ck_collection_run_status does not know.
FinalStatusWithSync(r) ==
    IF collectionRun[r].errorCount = 0 /\ worker[r].collected = Len(Collectors) + 1
    THEN "success"
    ELSE IF worker[r].collected > 0 THEN "partial" ELSE "failed"
FinalStatusWarning(r) ==
    IF collectionRun[r].errorCount = 0 /\ worker[r].collected = Len(Collectors)
    THEN "success"
    ELSE IF worker[r].collected > 0 THEN "warning" ELSE "failed"

\* finalize_collection_run.
FinalStatus(r) ==
    IF collectionRun[r].errorCount = 0 /\ worker[r].collected = Len(Collectors)
    THEN "success"
    ELSE IF worker[r].collected > 0 THEN "partial" ELSE "failed"

FinalizeRun(r) ==
    /\ At(r, "finalize")
    /\ \/ Goto(r, "done") /\ NoFault
       \/ Goto(r, "dead") /\ Fault
    /\ \/ collectionRun' = [collectionRun EXCEPT ![r] =
              [@ EXCEPT !.status = FinalStatus(r),
                        !.metricsCollected = worker[r].collected,
                        !.recordsCollected = worker[r].records]]
       \/ worker'[r].pc = "dead" /\ UNCHANGED collectionRun
    /\ UNCHANGED <<staging, fact>>

-----------------------------------------------------------------------------
Ended(r) == worker[r].pc \in {"done", "dead"}

\* The worker dies, or a call of it never returns (queries have no timeout);
\* nothing takes the run up again.
Crash(r) ==
    /\ worker[r].pc \notin {"idle", "done", "dead"}
    /\ Fault /\ Goto(r, "dead")
    /\ UNCHANGED <<collectionRun, staging, fact>>

\* Mutant: the purge spares the runs that never finished.
PurgeableIfFinished ==
    {r \in Runs : /\ collectionRun[r].status # "running"
                  /\ Ended(r) /\ \E t \in Staging : staging[r][t] = "staged"}

\* cleanup_staging_tables deletes rows older than STAGING_RETENTION_DAYS.  No
\* run is assumed to last that long, so these are rows of runs that ended.
Purgeable == {r \in Runs : Ended(r) /\ \E t \in Staging : staging[r][t] = "staged"}

CleanupStaging ==
    /\ \E R \in SUBSET Purgeable : R # {} /\
          staging' = [r \in Runs |->
              [t \in Staging |-> IF r \in R /\ staging[r][t] = "staged"
                                 THEN "purged" ELSE staging[r][t]]]
    /\ UNCHANGED <<collectionRun, worker, fact, faults>>

Step(r) == \/ Connect(r) \/ SyncDatabases(r) \/ Collect(r) \/ CollectSummary(r)
           \/ LogCollectionError(r) \/ ExecuteLoad(r) \/ FinalizeRun(r)

Next == \/ \E r \in Runs : CreateRun(r) \/ Step(r) \/ Crash(r)
        \/ CleanupStaging

Spec == Init /\ [][Next]_vars

\* A started run keeps going unless its worker dies or hangs, and data_quality,
\* which runs daily, purges rows as long as there are old ones.  No run has to start, and no
\* fault has to happen.
Fairness == /\ \A r \in Runs : WF_vars(Step(r))
            /\ WF_vars(CleanupStaging)

FairSpec == Spec /\ Fairness

-----------------------------------------------------------------------------
(***************************************************************************)
(* Properties.                                                             *)
(***************************************************************************)
Finished(r) == collectionRun[r].status \in {"success", "partial", "failed"}

TypeOK ==
    /\ collectionRun \in [Runs -> CollectionRun]
    /\ worker \in [Runs -> Worker]
    /\ staging \in [Runs -> [Staging -> BatchStates]]
    /\ fact \in [Runs -> SUBSET Specialized]
    /\ faults \in Nat

\* A run whose status is success, and none of whose error logging was
\* swallowed, left nothing in staging, and its summaries (which alerts read)
\* are facts: no failed collector, failed load or lost answer hides in it.
SuccessMeansLoaded ==
    \A r \in Runs : collectionRun[r].status = "success" /\ worker[r].swallowed = 0 =>
        \A t \in Staging :
            /\ staging[r][t] \in {"none", "loaded", "dropped"}
            /\ (\E i \in 1..Len(Collectors) : Collectors[i] = t) /\ t \in Summarized =>
                   staging[r][t] = IF t \in ActiveMetrics THEN "loaded" ELSE "dropped"

\* A finished run that is not a success has a recorded error to explain it,
\* unless recording one failed.
FailureExplained ==
    \A r \in Runs : collectionRun[r].status \in {"partial", "failed"} =>
        collectionRun[r].errorCount + worker[r].swallowed > 0

\* The two load procedures are one transaction: a run's server metrics are
\* never facts while its database metrics still wait, or the reverse.
LoadedTogether ==
    \A r \in Runs : \A t, u \in Staging :
        staging[r][t] \in {"loaded", "dropped"} => staging[r][u] # "staged"

\* A run loads its own rows only, and a finished run's facts and counters
\* stay as they are, whatever other runs, their loads and the purge do.
RunsIsolatedStep ==
    \A r \in Runs :
        /\ \A t \in Staging :
              staging[r][t] = "staged" /\ staging'[r][t] \in {"loaded", "dropped"} =>
                  ~Ended(r) /\ worker'[r] # worker[r]
        /\ Finished(r) => /\ collectionRun'[r] = collectionRun[r]
                          /\ fact'[r] = fact[r]
RunsIsolated == [][RunsIsolatedStep]_vars

\* "orphaned work, which is eventually removed by the three-day staging purge"
\* (docs/collector/collector-design.md): no staged batch stays, whether its run
\* succeeded, failed to load, or died.
Orphaned(r) == \E t \in Staging : staging[r][t] = "staged"

StagingDrains ==
    \A r \in Runs : Orphaned(r) ~> ~Orphaned(r)

\* A run that was created ends as finished unless its worker died or hangs.
RunsEnd == \A r \in Runs : (collectionRun[r].status = "running") ~> (Finished(r) \/ At(r, "dead"))

\* "Errors are recorded in monitoring.collection_error" (docs/architecture/
\* data-flow.md): a finished run that left its rows in staging has an error.
LoadFailureRecorded ==
    \A r \in Runs : Finished(r) /\ (\E t \in Staging : staging[r][t] = "staged") =>
        collectionRun[r].errorCount > 0
=============================================================================
