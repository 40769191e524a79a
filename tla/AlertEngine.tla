---------------------------- MODULE AlertEngine ----------------------------
(***************************************************************************)
(* Alert evaluation: the DAG alert_processing                              *)
(* (airflow/dags/alert_processing.py), the stored procedure                *)
(* monitoring.sp_process_alerts it calls once per collection run, the      *)
(* tables monitoring.alert_event and monitoring.collection_run they share, *)
(* and the acknowledge endpoint of the API.                                *)
(*                                                                         *)
(* A condition is what the procedure compares events by: an alert code, an *)
(* instance and a database (or none).  All conditions here are of one      *)
(* instance, whose runs finish one after the other; what a run's facts say *)
(* about a condition, under the enabled rules, is its verdict.             *)
(***************************************************************************)
EXTENDS Naturals, Sequences, FiniteSets

CONSTANTS
    Conds,          \* alert conditions
    Runs,           \* collection runs that may finish
    Cooldown,       \* Cooldown[c]: cooldown_seconds of c's rule, in clock units
    BatchSize,      \* MAX_BATCH_SIZE
    Retries,        \* "retries" of the DAG's default_args
    MaxTime,        \* bound: the clock stops here
    MaxFaults       \* bound: transient faults and lost tasks, together

ASSUME ConstantsAssumption ==
    /\ Cooldown \in [Conds -> Nat]
    /\ BatchSize \in Nat \ {0}
    /\ Retries \in Nat
    /\ MaxTime \in Nat
    /\ MaxFaults \in Nat

VARIABLES
    now,            \* CURRENT_TIMESTAMP, from 1 on
    collectionRun,  \* [Runs -> CollectionRun]
    alertEvent,     \* [Conds -> Seq(AlertEvent)]: the events of c by age
    task,           \* the evaluate_alerts task instance
    faults          \* faults that have happened (to bound them)

vars == <<now, collectionRun, alertEvent, task, faults>>

Never == 0          \* a NULL timestamp
Time == Nat \ {Never}

Verdicts == {"absent", "clear", "triggered"}

CollectionRun == [status : {"running", "success", "partial", "failed"},
                  finishedAt : Nat, alertsProcessedAt : Nat,
                  verdict : [Conds -> Verdicts]]

AlertEvent == [status : {"open", "acknowledged", "resolved"},
               firstSeenAt : Time, lastSeenAt : Time, createdAt : Time,
               acknowledgedAt : Nat, resolvedAt : Nat,
               occurrenceCount : Nat \ {0}]

Task == [state : {"idle", "evaluating"}, batch : SUBSET Runs, left : SUBSET Runs,
         succeeded : BOOLEAN, retriesLeft : Nat]

IdleTask == [state |-> "idle", batch |-> {}, left |-> {},
             succeeded |-> FALSE, retriesLeft |-> 0]

Init ==
    /\ now = 1
    /\ collectionRun = [r \in Runs |->
           [status |-> "running", finishedAt |-> Never, alertsProcessedAt |-> Never,
            verdict |-> [c \in Conds |-> "absent"]]]
    /\ alertEvent = [c \in Conds |-> <<>>]
    /\ task = IdleTask
    /\ faults = 0

-----------------------------------------------------------------------------
(***************************************************************************)
(* The collector's side: a run of the instance finishes.  Its observations *)
(* are dated by the clock unit it finishes in, and two runs of an instance *)
(* never share one.  A failed run collected nothing.                       *)
(***************************************************************************)
FinishRun(r) ==
    /\ collectionRun[r].status = "running"
    /\ \A q \in Runs : collectionRun[q].finishedAt # now
    /\ \E s \in {"success", "partial", "failed"}, v \in [Conds -> Verdicts] :
          /\ s = "failed" => v = [c \in Conds |-> "absent"]
          /\ collectionRun' = [collectionRun EXCEPT ![r] =
                 [status |-> s, finishedAt |-> now, alertsProcessedAt |-> Never,
                  verdict |-> v]]
    /\ UNCHANGED <<now, alertEvent, task, faults>>

Tick ==
    /\ now < MaxTime
    /\ now' = now + 1
    /\ UNCHANGED <<collectionRun, alertEvent, task, faults>>

-----------------------------------------------------------------------------
(***************************************************************************)
(* sp_process_alerts: three statements over the events of each condition,  *)
(* each reading what the one before it wrote.                              *)
(***************************************************************************)
Active(e) == e.status \in {"open", "acknowledged"}

\* Mutant: the cooldown runs from the last observation, not from the resolution.
InCooldownSinceSeen(c, e) == e.resolvedAt # Never /\ e.lastSeenAt + Cooldown[c] > now

InCooldown(c, e) == e.resolvedAt # Never /\ e.resolvedAt + Cooldown[c] > now

Triggered(c, r) == collectionRun[r].verdict[c] = "triggered"

\* Mutant: the resolving UPDATE forgets its EXISTS, so a condition the run did
\* not evaluate is clear too.
ClearOrAbsent(c, r) == collectionRun[r].verdict[c] # "triggered"

Clear(c, r)     == collectionRun[r].verdict[c] = "clear"

NewEvent(r) ==
    [status |-> "open",
     firstSeenAt |-> collectionRun[r].finishedAt, lastSeenAt |-> collectionRun[r].finishedAt,
     createdAt |-> now, acknowledgedAt |-> Never, resolvedAt |-> Never,
     occurrenceCount |-> 1]

\* Mutant: the INSERT without its first NOT EXISTS.
OpensBesideActive(c, r, h) ==
    /\ Triggered(c, r)
    /\ \A i \in 1..Len(h) : ~InCooldown(c, h[i])

Opens(c, r, h) ==
    /\ Triggered(c, r)
    /\ \A i \in 1..Len(h) : ~Active(h[i]) /\ ~InCooldown(c, h[i])

Inserted(c, r, h) == IF Opens(c, r, h) THEN Append(h, NewEvent(r)) ELSE h

Seen(r, e) == [e EXCEPT !.lastSeenAt = collectionRun[r].finishedAt,
                        !.occurrenceCount = @ + 1]

Updated(c, r, h) ==
    [i \in 1..Len(h) |-> IF Triggered(c, r) /\ Active(h[i]) THEN Seen(r, h[i]) ELSE h[i]]

\* Mutant: resolving starts the count of the event over.
ResolveAndReset(e) == [e EXCEPT !.status = "resolved", !.resolvedAt = now,
                                !.occurrenceCount = 0]

Resolve(e) == [e EXCEPT !.status = "resolved", !.resolvedAt = now]

\* Mutant: the resolving UPDATE without its status filter.
ResolvedAll(c, r, h) ==
    [i \in 1..Len(h) |-> IF Clear(c, r) THEN Resolve(h[i]) ELSE h[i]]

Resolved(c, r, h) ==
    [i \in 1..Len(h) |-> IF Clear(c, r) /\ Active(h[i]) THEN Resolve(h[i]) ELSE h[i]]

ProcessAlerts(c, r) == Resolved(c, r, Updated(c, r, Inserted(c, r, alertEvent[c])))

\* The constraint ck_alert_event_times of monitoring.alert_event.
TimesOrdered(e) == /\ e.lastSeenAt >= e.firstSeenAt
                   /\ e.resolvedAt # Never => e.resolvedAt >= e.firstSeenAt

Accepted(r) == \A c \in Conds : \A i \in 1..Len(ProcessAlerts(c, r)) :
                   TimesOrdered(ProcessAlerts(c, r)[i])

-----------------------------------------------------------------------------
(***************************************************************************)
(* The DAG.  fetch_pending_runs hands evaluate_alerts the oldest finished  *)
(* runs not evaluated yet; evaluate_alerts takes them in that order, one   *)
(* transaction each.  task.batch is the list the task received (kept over  *)
(* a retry), task.left what the current attempt has still to visit.        *)
(***************************************************************************)
\* Mutant: the query without 'partial'.
PendingSuccess == {r \in Runs : /\ collectionRun[r].status = "success"
                                /\ collectionRun[r].alertsProcessedAt = Never}

Pending == {r \in Runs : /\ collectionRun[r].status \in {"success", "partial"}
                         /\ collectionRun[r].alertsProcessedAt = Never}

NoLaterThan(r, q) == collectionRun[r].finishedAt <= collectionRun[q].finishedAt

Batches == {B \in SUBSET Pending :
               /\ B # {} /\ Cardinality(B) <= BatchSize
               /\ Cardinality(B) = BatchSize \/ B = Pending
               /\ \A r \in B, q \in Pending \ B : NoLaterThan(r, q)}

\* max_active_runs = 1: no DAG run starts while one is evaluating.
FetchPendingRuns ==
    /\ task.state = "idle"
    /\ \E B \in Batches :
          task' = [state |-> "evaluating", batch |-> B, left |-> B,
                   succeeded |-> FALSE, retriesLeft |-> Retries]
    /\ UNCHANGED <<now, collectionRun, alertEvent, faults>>

\* Mutant: the newest run of the list first.
NextInBatchNewest(r) == /\ task.state = "evaluating"
                        /\ r \in task.left
                        /\ \A q \in task.left : NoLaterThan(q, r)

NextInBatch(r) == /\ task.state = "evaluating"
                  /\ r \in task.left
                  /\ \A q \in task.left : NoLaterThan(r, q)

\* Mutant: a commit between the CALL and the mark, which may then be lost.
EvaluateRunUnmarked(r) ==
    /\ NextInBatch(r)
    /\ Accepted(r)
    /\ alertEvent' = [c \in Conds |-> ProcessAlerts(c, r)]
    /\ \/ collectionRun' = [collectionRun EXCEPT ![r].alertsProcessedAt = now]
       \/ UNCHANGED collectionRun
    /\ task' = [task EXCEPT !.left = @ \ {r}, !.succeeded = TRUE]
    /\ UNCHANGED <<now, faults>>

\* CALL sp_process_alerts, mark the run, commit.
EvaluateRun(r) ==
    /\ NextInBatch(r)
    /\ Accepted(r)
    /\ alertEvent' = [c \in Conds |-> ProcessAlerts(c, r)]
    /\ collectionRun' = [collectionRun EXCEPT ![r].alertsProcessedAt = now]
    /\ task' = [task EXCEPT !.left = @ \ {r}, !.succeeded = TRUE]
    /\ UNCHANGED <<now, faults>>

\* The except branch: rollback, count the failure, go on with the next run.
\* A row broke a constraint, or the transaction met a fault of the moment (a
\* deadlock, a lock timeout, a full disk).
RollBackRun(r) ==
    /\ NextInBatch(r)
    /\ \/ ~Accepted(r) /\ UNCHANGED faults
       \/ faults < MaxFaults /\ faults' = faults + 1
    /\ task' = [task EXCEPT !.left = @ \ {r}]
    /\ UNCHANGED <<now, collectionRun, alertEvent>>

\* Airflow's retry of the task: the same list from its head, or the end.
RetryOrStop ==
    task' = IF task.retriesLeft > 0
            THEN [task EXCEPT !.left = task.batch, !.succeeded = FALSE,
                              !.retriesLeft = @ - 1]
            ELSE IdleTask

\* The loop is done: raise when every run of the list failed.
FinishBatch ==
    /\ task.state = "evaluating" /\ task.left = {}
    /\ IF task.succeeded THEN task' = IdleTask ELSE RetryOrStop
    /\ UNCHANGED <<now, collectionRun, alertEvent, faults>>

\* The worker dies or its connection breaks between two transactions (the
\* rollback in the except branch then raises too), or the answer to a commit
\* is lost: the attempt fails, whatever it committed stays.
LoseTask ==
    /\ task.state = "evaluating"
    /\ faults < MaxFaults /\ faults' = faults + 1
    /\ RetryOrStop
    /\ UNCHANGED <<now, collectionRun, alertEvent>>

-----------------------------------------------------------------------------
Acknowledged(e) == [e EXCEPT !.status = "acknowledged",
                             !.acknowledgedAt = IF @ = Never THEN now ELSE @]

\* Mutant: the UPDATE without its status = 'open'.
AcknowledgeAny(c, i) ==
    /\ i \in 1..Len(alertEvent[c])
    /\ alertEvent' = [alertEvent EXCEPT ![c][i] = Acknowledged(@)]
    /\ UNCHANGED <<now, collectionRun, task, faults>>

\* POST /alerts/{alert_event_key}/acknowledge: only an open event, and its first time is kept.
Acknowledge(c, i) ==
    /\ i \in 1..Len(alertEvent[c])
    /\ alertEvent[c][i].status = "open"
    /\ alertEvent' = [alertEvent EXCEPT ![c][i] = Acknowledged(@)]
    /\ UNCHANGED <<now, collectionRun, task, faults>>

-----------------------------------------------------------------------------
Next ==
    \/ Tick
    \/ \E r \in Runs : FinishRun(r) \/ EvaluateRun(r) \/ RollBackRun(r)
    \/ FetchPendingRuns
    \/ FinishBatch
    \/ LoseTask
    \/ \E c \in Conds : \E i \in 1..Len(alertEvent[c]) : Acknowledge(c, i)

Spec == Init /\ [][Next]_vars

\* The scheduler keeps starting DAG runs and a started task keeps running.
\* Nothing obliges a run to finish, an operator to act, or a fault to happen.
Fairness ==
    /\ WF_vars(FetchPendingRuns)
    /\ WF_vars(FinishBatch)
    /\ WF_vars(\E r \in Runs : EvaluateRun(r) \/ RollBackRun(r))

FairSpec == Spec /\ Fairness

-----------------------------------------------------------------------------
(***************************************************************************)
(* Properties.                                                             *)
(***************************************************************************)

\* The state keeps the types of the tables and of the task.
TypeOK ==
    /\ now \in Time
    /\ collectionRun \in [Runs -> CollectionRun]
    /\ alertEvent \in [Conds -> Seq(AlertEvent)]
    /\ task \in Task
    /\ faults \in Nat

\* "One active condition per alert code and target" (the grain of
\* monitoring.alert_event): no unique index backs it, only the NOT EXISTS of
\* the procedure's INSERT, through retries, rollbacks and acknowledgements.
UniqueActive ==
    \A c \in Conds : \A i, j \in 1..Len(alertEvent[c]) :
        Active(alertEvent[c][i]) /\ Active(alertEvent[c][j]) => i = j

\* cooldown_seconds: an event is created only when every earlier event of the
\* condition has been resolved for at least the rule's cooldown, whichever run
\* (a late or retried one too) the evaluation was for.
CooldownKept ==
    \A c \in Conds : \A i, j \in 1..Len(alertEvent[c]) :
        i < j => /\ alertEvent[c][i].status = "resolved"
                 /\ alertEvent[c][j].createdAt >= alertEvent[c][i].resolvedAt + Cooldown[c]

\* Resolution is final and an acknowledgement is never lost: evaluations of any
\* run, in any order, leave resolved rows alone and never reopen or
\* re-acknowledge a row an operator has acknowledged.
HistoryKeptStep ==
    \A c \in Conds :
        /\ Len(alertEvent'[c]) >= Len(alertEvent[c])
        /\ \A i \in 1..Len(alertEvent[c]) :
              LET e == alertEvent[c][i]
                  f == alertEvent'[c][i]
              IN  /\ e.status = "resolved" => f = e
                  /\ e.status = "acknowledged" =>
                        /\ f.status # "open"
                        /\ f.acknowledgedAt = e.acknowledgedAt
                  /\ f.occurrenceCount >= e.occurrenceCount
                  /\ f.firstSeenAt = e.firstSeenAt
HistoryKept == [][HistoryKeptStep]_vars

\* The three statements of the procedure add up: the transaction that marks a
\* run processed leaves each condition the run triggered active or in cooldown,
\* each condition it found clear without an active event, and each condition it
\* did not evaluate (no fact, or a disabled rule) exactly as it was.
OutcomeStep ==
    \A r \in Runs :
        (collectionRun[r].alertsProcessedAt = Never /\ collectionRun'[r].alertsProcessedAt # Never)
        => \A c \in Conds :
             LET h == alertEvent'[c] IN
             CASE collectionRun[r].verdict[c] = "triggered" ->
                      \E i \in 1..Len(h) : \/ Active(h[i])
                                           \/ h[i].resolvedAt + Cooldown[c] > now
               [] collectionRun[r].verdict[c] = "clear" -> \A i \in 1..Len(h) : ~Active(h[i])
               [] OTHER -> h = alertEvent[c]
EvaluationOutcome == [][OutcomeStep]_vars

\* Every alert history is a run of AlertLifecycle: one live episode at a time,
\* acknowledged at most once, never reopened.
Lifecycle == INSTANCE AlertLifecycle WITH
    opened <- [c \in Conds |-> Len(alertEvent[c])],
    live   <- [c \in Conds |-> {i \in 1..Len(alertEvent[c]) : Active(alertEvent[c][i])}],
    acked  <- [c \in Conds |-> {i \in 1..Len(alertEvent[c]) :
                                   alertEvent[c][i].status = "acknowledged"}]
ImplementsLifecycle == Lifecycle!Spec

-----------------------------------------------------------------------------
Evaluated(c) == {r \in Runs : /\ collectionRun[r].alertsProcessedAt # Never
                              /\ collectionRun[r].verdict[c] # "absent"}

EvaluatedBefore(q, r) == collectionRun[q].alertsProcessedAt < collectionRun[r].alertsProcessedAt

\* The history h of c is as the verdict of r says: no active event, or one, or one
\* so lately resolved that its cooldown held the new one back.
Shown(c, r, h) == IF Clear(c, r) THEN \A i \in 1..Len(h) : ~Active(h[i])
                  ELSE \E i \in 1..Len(h) :
                          \/ Active(h[i])
                          \/ h[i].resolvedAt + Cooldown[c] > collectionRun[r].alertsProcessedAt

\* The alerts show the newest observation: of the evaluated runs with a verdict on
\* a condition, the one that finished last decides ("ORDER BY cr.finished_at ASC").
\* Before the first fault this holds whenever it was evaluated.  A fault (an
\* evaluation rolled back while its batch goes on, or a lost task) may put an older
\* run behind it; a newest run that no older one was evaluated after still decides,
\* so that the next newer run sets right what was shown wrongly.
LatestVerdictWins ==
    \A c \in Conds : \A r \in Evaluated(c) :
        /\ \A q \in Evaluated(c) : NoLaterThan(q, r)
        /\ faults = 0 \/ \A q \in Evaluated(c) \ {r} : EvaluatedBefore(q, r)
        => Shown(c, r, alertEvent[c])

Marked(r, at) == /\ collectionRun[r].alertsProcessedAt # Never
                 /\ collectionRun[r].alertsProcessedAt >= at

Traced(c, e) ==
    /\ \E r \in Runs : /\ Triggered(c, r) /\ Marked(r, e.createdAt)
                       /\ collectionRun[r].finishedAt = e.firstSeenAt
    /\ \E r \in Runs : /\ Triggered(c, r) /\ Marked(r, e.createdAt)
                       /\ collectionRun[r].finishedAt = e.lastSeenAt
    /\ Active(e) \/ \E r \in Runs : Clear(c, r) /\ Marked(r, e.resolvedAt)

\* An evaluation and its mark are one transaction: every event was first and last
\* seen by runs that triggered its condition and are marked, and resolved by one that
\* found it clear, each marked no earlier than what it wrote.  A run whose mark was
\* lost would be evaluated, and counted, again.
EventsTraced == \A c \in Conds : \A i \in 1..Len(alertEvent[c]) : Traced(c, alertEvent[c][i])

Observers(c, e) == {r \in Runs : /\ collectionRun[r].alertsProcessedAt # Never
                                 /\ Triggered(c, r)
                                 /\ collectionRun[r].finishedAt \in e.firstSeenAt..e.lastSeenAt}

\* "occurrence_count tracks repeated observations" (docs/database/
\* data-dictionary.md), which the portal lists as "N occurrences": it counts the runs
\* that observed the event.
OccurrencesCounted ==
    \A c \in Conds : \A i \in 1..Len(alertEvent[c]) :
        alertEvent[c][i].occurrenceCount = Cardinality(Observers(c, alertEvent[c][i]))

\* A run that finished as success or partial does not stay unevaluated: "the
\* alert DAG finds successful or partial runs that have not been evaluated ...
\* then marks each processed run" (docs/architecture/data-flow.md).
Waiting(r) == /\ collectionRun[r].status \in {"success", "partial"}
              /\ collectionRun[r].alertsProcessedAt = Never

EveryRunProcessed == \A r \in Runs : Waiting(r) ~> ~Waiting(r)

\* A run stays unevaluated only after a fault, and while a newer event of a
\* condition it triggers is active: its UPDATE would then move last_seen_at
\* before first_seen_at, and ck_alert_event_times rolls all of it back.
Outdated(r) == \E c \in Conds : \E i \in 1..Len(alertEvent[c]) :
                   /\ Triggered(c, r) /\ Active(alertEvent[c][i])
                   /\ alertEvent[c][i].firstSeenAt > collectionRun[r].finishedAt

ProcessedUnlessOutdated == \A r \in Runs : Waiting(r) ~> (~Waiting(r) \/ (faults > 0 /\ Outdated(r)))
=============================================================================
