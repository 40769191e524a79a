---------------------------- MODULE HealthProbe ----------------------------
(***************************************************************************)
(* The health DAG (airflow/dags/sqlserver_monitoring.py): every two        *)
(* minutes it maps one probe over the active targets, and each probe       *)
(* upserts the one row of its target in monitoring.system_health.          *)
(*                                                                         *)
(* The row is a running summary: its times and its failure count are       *)
(* computed from the row before.  Airflow, for its part, keeps what every  *)
(* mapped task returned.  A task that is lost may have written its row or  *)
(* not, and is retried with a new probe, so the two need not agree; the    *)
(* properties say how far apart they may be.                               *)
(***************************************************************************)
EXTENDS Naturals, Sequences, FiniteSets

CONSTANTS
    Instances,      \* monitored instances
    Retries,        \* "retries" of the DAG's default_args
    MaxRuns,        \* bound: DAG runs
    MaxLost         \* bound: MaxLost[i] attempts of i are lost

ASSUME ConstantsAssumption ==
    Retries \in Nat /\ MaxRuns \in Nat /\ MaxLost \in [Instances -> Nat]

VARIABLES
    run,            \* DAG runs started; NOW() is the number of the current one
    active,         \* active[i]: the target, its instance and its server are
    health,         \* health[i]: the row of monitoring.system_health, or NoRow
    task,           \* task[i]: the mapped task of i in the current DAG run
    returned,       \* returned[i]: what the tasks of i returned, "lost" for none
    lost            \* lost[i]: attempts of i that were lost (to bound them)

vars == <<run, active, health, task, returned, lost>>

Result == {"healthy", "unhealthy"}
Never == 0          \* NULL in a timestamp

SystemHealth == [status : Result, heartbeat : Nat \ {0}, success : Nat, error : Nat,
                 failures : Nat]
NoRow == [status |-> "none", heartbeat |-> Never, success |-> Never, error |-> Never,
          failures |-> 0]

Task == [state : {"none", "queued", "probed", "done", "failed"},
         result : Result, retriesLeft : Nat]
NoTask == [state |-> "none", result |-> "healthy", retriesLeft |-> 0]
Mapped == [state |-> "queued", result |-> "healthy", retriesLeft |-> Retries]

Init ==
    /\ run = 0
    /\ active = [i \in Instances |-> TRUE]
    /\ health = [i \in Instances |-> NoRow]
    /\ task = [i \in Instances |-> NoTask]
    /\ returned = [i \in Instances |-> <<>>]
    /\ lost = [i \in Instances |-> 0]

-----------------------------------------------------------------------------
\* PATCH /targets/{target_id}, at any moment.
UpdateTarget(i) == /\ active' = [active EXCEPT ![i] = ~@]
                   /\ UNCHANGED <<run, health, task, returned, lost>>

\* max_active_runs = 1.  A DAG run whose list cannot be read maps no task and
\* changes nothing: it is one that does not come.
FetchActiveInstances ==
    /\ \A i \in Instances : task[i].state = "none"
    /\ \E i \in Instances : active[i]
    /\ run < MaxRuns /\ run' = run + 1
    /\ task' = [i \in Instances |-> IF active[i] THEN Mapped ELSE NoTask]
    /\ UNCHANGED <<active, health, returned, lost>>

\* SELECT 1, with a timeout for the login and one for the query: it ends.
Probe(i) == /\ task[i].state = "queued"
            /\ \E res \in Result :
                  task' = [task EXCEPT ![i] = [@ EXCEPT !.state = "probed", !.result = res]]
            /\ UNCHANGED <<run, active, health, returned, lost>>

\* Mutant: the count of the row is not reset by a success.
NextFailuresKept(row, res) == IF res = "healthy" THEN row.failures ELSE row.failures + 1

\* Mutant: EXCLUDED.consecutive_failures, which is 0 or 1.
NextFailuresExcluded(row, res) == IF res = "healthy" THEN 0 ELSE 1

NextFailures(row, res) == IF res = "healthy" THEN 0 ELSE row.failures + 1

\* Mutant: both times are taken from EXCLUDED, which has NULL for one of them.
UpsertedExcluded(row, res) ==
    [status |-> res, heartbeat |-> run,
     success |-> IF res = "healthy" THEN run ELSE Never,
     error |-> IF res = "unhealthy" THEN run ELSE Never,
     failures |-> NextFailures(row, res)]

\* Mutant: only a failing probe touches a row that is there.
UpsertedIfUnhealthy(row, res) ==
    IF res = "healthy" /\ row # NoRow THEN row
    ELSE [status |-> res, heartbeat |-> run,
          success |-> IF res = "healthy" THEN run ELSE row.success,
          error |-> IF res = "unhealthy" THEN run ELSE row.error,
          failures |-> NextFailures(row, res)]

\* INSERT ... ON CONFLICT (component_name) DO UPDATE; NoRow gives what the INSERT does.
Upserted(row, res) ==
    [status |-> res, heartbeat |-> run,
     success |-> IF res = "healthy" THEN run ELSE row.success,
     error |-> IF res = "unhealthy" THEN run ELSE row.error,
     failures |-> NextFailures(row, res)]

UpsertHealth(i) == health' = [health EXCEPT ![i] = Upserted(@, task[i].result)]

\* The upsert commits and the task returns its status.
FinishProbe(i) == /\ task[i].state = "probed"
                  /\ UpsertHealth(i)
                  /\ task' = [task EXCEPT ![i].state = "done"]
                  /\ UNCHANGED <<run, active, returned, lost>>

AfterLoss(i) == IF task[i].retriesLeft > 0
                THEN [task[i] EXCEPT !.state = "queued", !.retriesLeft = @ - 1]
                ELSE [task[i] EXCEPT !.state = "failed"]

\* The worker dies, PostgreSQL is not reached, or its answer to the commit is lost.
LoseAttempt(i) ==
    /\ task[i].state \in {"queued", "probed"}
    /\ lost[i] < MaxLost[i] /\ lost' = [lost EXCEPT ![i] = @ + 1]
    /\ \/ UNCHANGED health
       \/ task[i].state = "probed" /\ UpsertHealth(i)
    /\ task' = [task EXCEPT ![i] = AfterLoss(i)]
    /\ UNCHANGED <<run, active, returned>>

Outcome(t) == IF t.state = "done" THEN t.result ELSE "lost"

\* Mutant: a DAG run ends when all its tasks succeeded.
EndedAllDone == /\ \E i \in Instances : task[i].state # "none"
                /\ \A i \in Instances : task[i].state \in {"none", "done"}

Ended == /\ \E i \in Instances : task[i].state # "none"
         /\ \A i \in Instances : task[i].state \in {"none", "done", "failed"}

EndDagRun ==
    /\ Ended
    /\ returned' = [i \in Instances |-> IF task[i].state = "none" THEN returned[i]
                                        ELSE Append(returned[i], Outcome(task[i]))]
    /\ task' = [i \in Instances |-> NoTask]
    /\ UNCHANGED <<run, active, health, lost>>

Advance(i) == Probe(i) \/ FinishProbe(i)

Next == \/ \E i \in Instances : UpdateTarget(i) \/ Advance(i) \/ LoseAttempt(i)
        \/ FetchActiveInstances
        \/ EndDagRun

Spec == Init /\ [][Next]_vars

\* Tasks run, and every call they make has a timeout; Airflow closes the DAG run.
FairSpec == Spec /\ WF_vars(EndDagRun) /\ \A i \in Instances : WF_vars(Advance(i))

-----------------------------------------------------------------------------
(***************************************************************************)
(* Properties.                                                             *)
(***************************************************************************)
\* Types, and what the times of a row say: the last heartbeat was of its
\* status, and nothing happened after it.
RowOK(row) ==
    /\ row \in SystemHealth
    /\ row.heartbeat <= run
    /\ IF row.status = "healthy"
       THEN row.success = row.heartbeat /\ row.error <= row.heartbeat /\ row.failures = 0
       ELSE row.error = row.heartbeat /\ row.success <= row.heartbeat /\ row.failures > 0

TypeOK ==
    /\ run \in Nat
    /\ active \in [Instances -> BOOLEAN]
    /\ DOMAIN health = Instances
    /\ \A i \in Instances : health[i] = NoRow \/ RowOK(health[i])
    /\ task \in [Instances -> Task]
    /\ returned \in [Instances -> Seq(Result \cup {"lost"})]
    /\ lost \in [Instances -> Nat]

\* The failing checks of i since its last good one, as Airflow has them.
FailedChecks(i) ==
    {k \in DOMAIN returned[i] :
        /\ returned[i][k] = "unhealthy"
        /\ \A j \in k..Len(returned[i]) : returned[i][j] # "healthy"}

\* "consecutive_failures tracks the failure streak" (docs/database/
\* data-dictionary.md): between two DAG runs it is the number of failing checks
\* since the last good one, and each lost attempt (whose upsert a retry repeats, or
\* whose task nobody hears of) may have raised it by one more, never by two.
FailuresCounted ==
    \A i \in Instances : task[i].state = "none" =>
        /\ health[i].failures <= Cardinality(FailedChecks(i)) + lost[i]
        /\ lost[i] = 0 => health[i].failures = Cardinality(FailedChecks(i))

\* "upserts current state" (docs/airflow/dag-design.md): whatever lost attempts
\* wrote before, once a task has returned a status the row shows that one, with
\* a heartbeat of this DAG run; only a lost task leaves them apart.
ReturnedIsShown ==
    \A i \in Instances :
        /\ task[i].state = "done" =>
              health[i].status = task[i].result /\ health[i].heartbeat = run
        /\ task[i].state = "none" /\ returned[i] # <<>> =>
              health[i].status = returned[i][Len(returned[i])] \/ returned[i][Len(returned[i])] = "lost"

\* No DAG run, good or bad, makes the row forget when the target last answered
\* and when it last failed.
LastTimesKept ==
    [][\A i \in Instances : /\ health'[i].success >= health[i].success
                            /\ health'[i].error >= health[i].error]_vars

\* Unlike a collection, a health check always ends, and makes room for the next
\* one: its task returns or has used up its attempts.
CheckEnds == \A i \in Instances : (task[i].state # "none") ~> (task[i].state = "none")
=============================================================================
