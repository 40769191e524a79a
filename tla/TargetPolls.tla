---------------------------- MODULE TargetPolls ----------------------------
(***************************************************************************)
(* What repeated collection runs of one target make of four things that    *)
(* outlive a run: the database catalog (sync_databases, upserted into      *)
(* dimension.dim_database), the deadlock reports of the system_health ring *)
(* buffer (fact.fact_deadlock), the SQL Server Agent job history           *)
(* (fact.fact_sqlagent_job, with its summary SQL_AGENT_FAILURES) and the   *)
(* backup history (fact.fact_backup, with the metric BACKUP_AGE_HOURS).    *)
(* Each run reads them again, so most of what it reads is stored already;  *)
(* the tables' constraints decide what happens then.  CollectionPipeline   *)
(* has the rest of a run, and its failures.                                *)
(*                                                                         *)
(* The target goes on living between any two steps of a run: databases are *)
(* created, dropped and renamed, jobs finish, days pass.                   *)
(***************************************************************************)
EXTENDS Naturals, Sequences, FiniteSets

CONSTANTS
    Names,          \* database names
    Ids,            \* database_id values of the target
    NoId,           \* no database, or no row
    JobRuns,        \* executions of SQL Server Agent jobs (sysjobhistory.instance_id)
    Deadlocks       \* deadlock graphs

ASSUME ConstantsAssumption == NoId \notin Ids /\ IsFiniteSet(Names)

VARIABLES
    catalog,        \* sys.databases: catalog[n] is the database_id of n
    dimDatabase,    \* dimension.dim_database: dimDatabase[n] is the row's database_id
    today,          \* job runs in sysjobhistory with the current run_date
    yesterday,      \* those with the run_date before
    agentFacts,     \* job runs in fact.fact_sqlagent_job
    summarized,     \* job runs counted in the SQL_AGENT_FAILURES this run staged
    backups,        \* msdb.dbo.backupset: the last full backup under each name
    aged,           \* databases whose backup age this run staged
    ring,           \* deadlock reports in the ring buffer
    deadlockFacts,  \* deadlock reports in fact.fact_deadlock
    pc              \* where the run stands

source == <<catalog, today, yesterday, ring, backups>>
tables == <<dimDatabase, agentFacts, summarized, deadlockFacts, aged>>
vars == <<source, tables, pc>>

Steps == {"sync", "deadlocks", "agent", "backups", "done"}

\* "undated": a backup of a day dimension.dim_date does not have (before 2020).
BackupStates == {"none", "undated", "dated"}

Init ==
    /\ catalog = [n \in Names |-> NoId] /\ dimDatabase = [n \in Names |-> NoId]
    /\ today = {} /\ yesterday = {} /\ ring = {}
    /\ agentFacts = {} /\ summarized = {} /\ deadlockFacts = {}
    /\ backups \in [Names -> {"none", "undated"}] /\ aged = {}
    /\ pc = "sync"

-----------------------------------------------------------------------------
(***************************************************************************)
(* The target.  Names and ids are unique in its catalog; an id becomes     *)
(* free when its database is dropped.  The history query goes by run_date, *)
(* so job runs leave its window together, at midnight.                     *)
(***************************************************************************)
Present == {n \in Names : catalog[n] # NoId}
FreeIds == Ids \ {catalog[n] : n \in Names}

CreateDatabase(n) == /\ catalog[n] = NoId
                     /\ \E id \in FreeIds : catalog' = [catalog EXCEPT ![n] = id]
                     /\ UNCHANGED <<today, yesterday, ring, backups>>

DropDatabase(n) == /\ n \in Present
                   /\ catalog' = [catalog EXCEPT ![n] = NoId]
                   /\ UNCHANGED <<today, yesterday, ring, backups>>

RenameDatabase(n, m) == /\ n \in Present /\ m \notin Present
                        /\ catalog' = [catalog EXCEPT ![n] = NoId, ![m] = catalog[n]]
                        /\ UNCHANGED <<today, yesterday, ring, backups>>

\* An instance_id is used once: never one a table or the history still has.
FinishJob(j) == /\ j \notin today \cup yesterday \cup agentFacts
                /\ today' = today \cup {j}
                /\ UNCHANGED <<catalog, yesterday, ring, backups>>

Midnight == /\ yesterday' = today /\ today' = {}
            /\ UNCHANGED <<catalog, ring, backups>>

ReportDeadlock(d) == /\ d \notin ring \cup deadlockFacts
                     /\ ring' = ring \cup {d}
                     /\ UNCHANGED <<catalog, today, yesterday, backups>>

EvictReport(d) == /\ d \in ring
                  /\ ring' = ring \ {d}
                  /\ UNCHANGED <<catalog, today, yesterday, backups>>

\* The history goes by name: it outlives its database, and a rename leaves it behind.
BackUp(n) == /\ n \in Present
             /\ backups' = [backups EXCEPT ![n] = "dated"]
             /\ UNCHANGED <<catalog, today, yesterday, ring>>

Target == /\ \/ \E n \in Names : CreateDatabase(n) \/ DropDatabase(n) \/ BackUp(n)
             \/ \E n, m \in Names : RenameDatabase(n, m)
             \/ \E j \in JobRuns : FinishJob(j)
             \/ Midnight
             \/ \E d \in Deadlocks : ReportDeadlock(d) \/ EvictReport(d)
          /\ UNCHANGED <<tables, pc>>

-----------------------------------------------------------------------------
(***************************************************************************)
(* sync_databases: one upsert by name per database, in the order the       *)
(* catalog query happens to return, in one transaction.  A row meets       *)
(* uq_dim_database_instance_id when another name holds its id, whether its *)
(* database is gone or its own row comes later in the batch.               *)
(***************************************************************************)
Orders == {o \in [1..Cardinality(Present) -> Present] :
              \A n \in Present : \E i \in DOMAIN o : o[i] = n}

\* Mutant: the id of a dropped database may be taken over.
RejectedByPresent(o) == \E i \in DOMAIN o : \E m \in Present \ {o[j] : j \in 1..i} :
                            dimDatabase[m] = catalog[o[i]]

Rejected(o) == \E i \in DOMAIN o : \E m \in Names \ {o[j] : j \in 1..i} :
                   dimDatabase[m] = catalog[o[i]]

\* Mutant: ON CONFLICT DO NOTHING.
UpsertedIfNew == [n \in Names |-> IF n \in Present /\ dimDatabase[n] = NoId
                                  THEN catalog[n] ELSE dimDatabase[n]]

Upserted == [n \in Names |-> IF n \in Present THEN catalog[n] ELSE dimDatabase[n]]

\* Mutant: the rows are committed one by one, up to the one rejected.
SyncRowByRow ==
    \E o \in Orders :
        dimDatabase' = [n \in Names |->
            IF \E i \in DOMAIN o : o[i] = n /\ \A m \in Names \ {o[j] : j \in 1..i} :
                                                  dimDatabase[m] # catalog[n]
            THEN catalog[n] ELSE dimDatabase[n]]

Sync == \E o \in Orders : dimDatabase' = IF Rejected(o) THEN dimDatabase ELSE Upserted

\* Nothing ever deletes or deactivates a row.  A failure is logged, the run goes on.
SyncDatabases == /\ pc = "sync" /\ pc' = "deadlocks"
                 /\ Sync
                 /\ UNCHANGED <<source, agentFacts, summarized, deadlockFacts, aged>>

\* collect_deadlocks; ON CONFLICT (instance_key, deadlock_hash) DO NOTHING: reports
\* whose hash is stored are skipped, and the others inserted.
CollectDeadlocks == /\ pc = "deadlocks" /\ pc' = "agent"
                    /\ deadlockFacts' = deadlockFacts \cup ring
                    /\ UNCHANGED <<source, dimDatabase, agentFacts, summarized, aged>>

Window == today \cup yesterday

\* Job runs that meet uq_fact_sqlagent_job_history: their run_id is stored.
KnownJobRuns == Window \cap agentFacts

\* Mutant: the summary is derived and staged before the rows are stored.
SummarizeFirst == summarized' = Window

\* The INSERT has no ON CONFLICT: one known job run rejects the batch, and the
\* summary is not derived.
Summarize == summarized' = IF KnownJobRuns = {} THEN Window ELSE {}

CollectAgent == /\ pc = "agent" /\ pc' = "backups"
                /\ agentFacts' = IF KnownJobRuns = {} THEN agentFacts \cup Window
                                 ELSE agentFacts
                /\ Summarize
                /\ UNCHANGED <<source, dimDatabase, deadlockFacts, aged>>

\* Databases with a full backup; the rows written are those of known databases.
BackedUp == {n \in Present : backups[n] # "none" /\ dimDatabase[n] # NoId}

\* Mutant: a database never backed up is not left out, and backup_start_at is NOT NULL.
StageUnlessNull == aged' = IF \E n \in Present : backups[n] # "dated" /\ dimDatabase[n] # NoId
                           THEN {} ELSE BackedUp

\* The rows of fact_backup refer to dim_date, so an undated one rejects the batch;
\* the ages are derived from what was written, for databases known by name.
StageAges == aged' = IF \E n \in BackedUp : backups[n] = "undated" THEN {} ELSE BackedUp

CollectBackups == /\ pc = "backups" /\ pc' = "done"
                  /\ StageAges
                  /\ UNCHANGED <<source, dimDatabase, agentFacts, summarized, deadlockFacts>>

\* The next run, after one that ended or one that died on the way.
StartRun == /\ pc # "sync" /\ pc' = "sync"
            /\ summarized' = {} /\ aged' = {}
            /\ UNCHANGED <<source, dimDatabase, agentFacts, deadlockFacts>>

Run == SyncDatabases \/ CollectDeadlocks \/ CollectAgent \/ CollectBackups

Next == Target \/ Run \/ StartRun

Spec == Init /\ [][Next]_vars

\* Runs keep coming (sqlserver_collection polls each minute) and a run goes on;
\* nothing obliges the target to do anything.
FairSpec == Spec /\ WF_vars(Run) /\ WF_vars(StartRun)

-----------------------------------------------------------------------------
(***************************************************************************)
(* Properties.                                                             *)
(***************************************************************************)
\* Types, and the keys of dim_database: two rows never claim one database_id.
TypeOK ==
    /\ catalog \in [Names -> Ids \cup {NoId}]
    /\ dimDatabase \in [Names -> Ids \cup {NoId}]
    /\ \A n, m \in Names : dimDatabase[n] = dimDatabase[m] /\ dimDatabase[n] # NoId => n = m
    /\ today \in SUBSET JobRuns /\ yesterday \in SUBSET JobRuns
    /\ agentFacts \in SUBSET JobRuns /\ summarized \in SUBSET JobRuns
    /\ ring \in SUBSET Deadlocks /\ deadlockFacts \in SUBSET Deadlocks
    /\ backups \in [Names -> BackupStates] /\ aged \in SUBSET Names
    /\ pc \in Steps

IdTaken == \E n \in Present, m \in Names : m # n /\ dimDatabase[m] = catalog[n]

\* A synchronization is all or nothing, and it fails only when an id of the
\* catalog is still held by the row of another name.
SyncOutcomeStep ==
    pc = "sync" /\ pc' = "deadlocks" =>
        \/ \A n \in Present : dimDatabase'[n] = catalog[n]
        \/ dimDatabase' = dimDatabase /\ IdTaken
SyncOutcome == [][SyncOutcomeStep]_vars

\* A database that stays is recorded with its id, unless ids are reused.
DatabasesRecorded ==
    \A n \in Names : (n \in Present) ~>
        (n \notin Present \/ dimDatabase[n] = catalog[n] \/ IdTaken)

\* The failures an alert is raised from are stored: SQL_AGENT_FAILURES counts job
\* runs that are in fact_sqlagent_job.
SummarizedAreStored == summarized \subseteq agentFacts

\* BACKUP_AGE_HIGH is judged by ages: a database that stays, and whose full backup
\* the calendar knows, gets one again and again while runs reach their end, unless an
\* id is held by another row or a last backup is from before the calendar begins
\* (one such rejects the ages of all).
Judgeable(n) == /\ n \in Present /\ backups[n] = "dated" /\ ~IdTaken
                /\ \A m \in Present : backups[m] # "undated"
AgesReported == \A n \in Names : <>[]Judgeable(n) /\ []<>(pc = "done") => []<>(n \in aged)

\* "Reads job outcome history for the preceding 24 hours ... fact_sqlagent_job"
\* (docs/collector/sqlserver-metrics.md): a job run that is read is stored.
JobRunsStored ==
    [][pc = "agent" /\ pc' = "backups" => Window \subseteq agentFacts']_vars

\* "It synchronizes discovered databases into dimension.dim_database before
\* writing database-level observations" (docs/architecture/data-flow.md).
DatabasesSynchronized ==
    [][pc = "sync" /\ pc' = "deadlocks" =>
           \A n \in Present : dimDatabase'[n] = catalog[n]]_vars
=============================================================================
