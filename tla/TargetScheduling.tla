-------------------------- MODULE TargetScheduling --------------------------
(***************************************************************************)
(* Which targets are collected when: the DAG sqlserver_collection          *)
(* (airflow/dags/sqlserver_collection.py) over config.monitoring_target,   *)
(* config.collection_schedule and the finished runs of each target.        *)
(*                                                                         *)
(* A DAG run reads the due targets once, then has one mapped task per      *)
(* target; what the task does is CollectionPipeline, here it finishes a    *)
(* run, is lost, or never returns.  Meanwhile targets are disabled and     *)
(* rescheduled, and time passes.                                           *)
(***************************************************************************)
EXTENDS Naturals

CONSTANTS
    Targets,        \* monitoring targets, one per instance
    Schedules,      \* schedules a target may be given, of type Schedule
    MayHang,        \* targets whose queries may never return
    Retries,        \* "retries" of the DAG's default_args
    MaxTime,        \* bound: the clock stops here
    MaxFaults,      \* bound: lost tasks
    MaxChanges      \* bound: changes of the configuration

\* "none": no schedule row is active, or its cron expression or timezone is unreadable.
Schedule == [type : {"interval", "cron", "none"}, every : Nat \ {0}]

ASSUME ConstantsAssumption ==
    /\ Schedules \subseteq Schedule /\ MayHang \subseteq Targets
    /\ Retries \in Nat /\ MaxTime \in Nat /\ MaxFaults \in Nat /\ MaxChanges \in Nat

VARIABLES
    now,            \* NOW(), in clock units, from 1 on
    enabled,        \* enabled[t]: the target, its instance and its server are
    schedule,       \* schedule[t]: the first active schedule of t
    lastFinished,   \* lastFinished[t]: MAX(finished_at) of the runs of t
    task,           \* task[t]: the mapped task of t in the current DAG run
    faults,         \* lost tasks (to bound them)
    changes         \* changes of the configuration (to bound them)

config == <<enabled, schedule, changes>>
vars == <<now, config, lastFinished, task, faults>>

Never == 0          \* MAX over no rows

\* readBy is the schedule the due list was computed from (a history component).
Task == [state : {"none", "queued", "running", "hung", "done"},
         retriesLeft : Nat, readBy : Schedules]

NoTask(t) == [state |-> "none", retriesLeft |-> 0, readBy |-> schedule[t]]

Init ==
    /\ now = 1
    /\ enabled = [t \in Targets |-> TRUE]
    /\ schedule \in [Targets -> Schedules]
    /\ lastFinished = [t \in Targets |-> Never]
    /\ task = [t \in Targets |-> NoTask(t)]
    /\ faults = 0 /\ changes = 0

-----------------------------------------------------------------------------
Tick == /\ now < MaxTime /\ now' = now + 1
        /\ UNCHANGED <<config, lastFinished, task, faults>>

\* PATCH /targets/{target_id}, which commits "enabled" whatever a DAG run is doing.
UpdateTarget(t) ==
    /\ changes < MaxChanges /\ changes' = changes + 1
    /\ enabled' = [enabled EXCEPT ![t] = ~@]
    /\ UNCHANGED <<now, schedule, lastFinished, task, faults>>

\* A schedule row is edited, or its start_at .. end_at window opens or closes.
Reschedule(t) ==
    /\ changes < MaxChanges /\ changes' = changes + 1
    /\ \E s \in Schedules \ {schedule[t]} : schedule' = [schedule EXCEPT ![t] = s]
    /\ UNCHANGED <<now, enabled, lastFinished, task, faults>>

-----------------------------------------------------------------------------
\* Mutant: cron targets are due only in the unit their expression fires in.
IsDueOnFire(t) ==
    \/ lastFinished[t] = Never
    \/ schedule[t].type = "interval" /\ now >= lastFinished[t] + schedule[t].every
    \/ schedule[t].type = "cron" /\ lastFinished[t] < now /\ now % schedule[t].every = 0

\* Mutant: the unit a run finished in is searched for a firing again.
IsDueAgain(t) ==
    \/ lastFinished[t] = Never
    \/ schedule[t].type = "interval" /\ now >= lastFinished[t] + schedule[t].every
    \/ schedule[t].type = "cron" /\ \E u \in lastFinished[t]..now : u % schedule[t].every = 0

\* The loop of fetch_due_targets.  croniter's next firing after the last finish
\* is in the past when there is one.
IsDue(t) ==
    \/ lastFinished[t] = Never
    \/ schedule[t].type = "interval" /\ now >= lastFinished[t] + schedule[t].every
    \/ schedule[t].type = "cron" /\ \E u \in (lastFinished[t] + 1)..now : u % schedule[t].every = 0

\* max_active_runs = 1: no DAG run starts before every task of the last one ended.
FetchDueTargets ==
    /\ \A t \in Targets : task[t].state = "none"
    /\ \E t \in Targets : enabled[t] /\ IsDue(t)
    /\ task' = [t \in Targets |->
           IF enabled[t] /\ IsDue(t)
           THEN [state |-> "queued", retriesLeft |-> Retries, readBy |-> schedule[t]]
           ELSE NoTask(t)]
    /\ UNCHANGED <<now, config, lastFinished, faults>>

StartTask(t) == /\ task[t].state = "queued"
                /\ task' = [task EXCEPT ![t].state = "running"]
                /\ UNCHANGED <<now, config, lastFinished, faults>>

\* execute_pipeline returns: the run is finalized, as failed or partial too.
FinishTask(t) == /\ task[t].state = "running"
                 /\ task' = [task EXCEPT ![t].state = "done"]
                 /\ lastFinished' = [lastFinished EXCEPT ![t] = now]
                 /\ UNCHANGED <<now, config, faults>>

\* Mutant: one more retry than there are.
AfterLossAgain(t) == [task[t] EXCEPT !.state = "queued", !.retriesLeft = @ - 1]

AfterLoss(t) == IF task[t].retriesLeft > 0
                THEN [task[t] EXCEPT !.state = "queued", !.retriesLeft = @ - 1]
                ELSE [task[t] EXCEPT !.state = "done"]

\* The worker dies, or the row of the run cannot be created or finalized; its
\* finished_at may be committed all the same.
LoseTask(t) ==
    /\ task[t].state = "running"
    /\ faults < MaxFaults /\ faults' = faults + 1
    /\ task' = [task EXCEPT ![t] = AfterLoss(t)]
    /\ lastFinished' \in {lastFinished, [lastFinished EXCEPT ![t] = now]}
    /\ UNCHANGED <<now, config>>

\* A query hangs: command_timeout_seconds is read with the target and never used.
HangTask(t) == /\ task[t].state = "running" /\ t \in MayHang
               /\ task' = [task EXCEPT ![t].state = "hung"]
               /\ UNCHANGED <<now, config, lastFinished, faults>>

EndDagRun == /\ \A t \in Targets : task[t].state \in {"none", "done"}
             /\ \E t \in Targets : task[t].state = "done"
             /\ task' = [t \in Targets |-> NoTask(t)]
             /\ UNCHANGED <<now, config, lastFinished, faults>>

Advance(t) == StartTask(t) \/ FinishTask(t) \/ LoseTask(t) \/ HangTask(t)

Next == \/ Tick
        \/ \E t \in Targets : UpdateTarget(t) \/ Reschedule(t) \/ Advance(t)
        \/ FetchDueTargets
        \/ EndDagRun

Spec == Init /\ [][Next]_vars

\* Airflow starts a DAG run each minute, and its tasks run unless they hang.
FairSpec == /\ Spec
            /\ WF_vars(FetchDueTargets) /\ WF_vars(EndDagRun)
            /\ \A t \in Targets : WF_vars(Advance(t))

-----------------------------------------------------------------------------
(***************************************************************************)
(* Properties.                                                             *)
(***************************************************************************)
TypeOK ==
    /\ now \in Nat \ {0}
    /\ enabled \in [Targets -> BOOLEAN] /\ schedule \in [Targets -> Schedules]
    /\ lastFinished \in [Targets -> Nat]
    /\ \A t \in Targets : lastFinished[t] <= now
    /\ task \in [Targets -> Task]
    /\ faults \in Nat /\ changes \in Nat

\* The cadence s asks for: "interval schedules compare the configured number of
\* seconds with the last finished run", cron schedules fire on their grid, and a
\* target without a schedule is not collected "after its initial run"
\* (docs/airflow/dag-design.md).
Elapsed(t, s) ==
    \/ lastFinished[t] = Never
    \/ s.type = "interval" /\ now - lastFinished[t] >= s.every
    \/ s.type = "cron" /\ now \div s.every > lastFinished[t] \div s.every

\* Between the due list and the start of a task no other run of the target
\* finishes: a first attempt keeps the cadence it was scheduled by, however late
\* it starts.  (A retry does not look at it.)
CadenceKept ==
    [][\A t \in Targets :
           /\ task[t].state = "queued" /\ task'[t].state = "running"
           /\ task[t].retriesLeft = Retries
           => Elapsed(t, task[t].readBy)]_vars

\* An enabled target whose time has come is collected, through lost tasks and
\* slow targets, unless a task hangs: the one DAG run that may be active then
\* never ends, and no target at all is collected any more.
DueIsCollected ==
    \A t \in Targets : (enabled[t] /\ Elapsed(t, schedule[t])) ~>
        \/ ~enabled[t] \/ ~Elapsed(t, schedule[t])
        \/ \E u \in Targets : task[u].state = "hung"
=============================================================================
