------------------------------ MODULE Platform ------------------------------
(***************************************************************************)
(* From a collector's rows to an alert: the runs of one target             *)
(* (CollectionPipeline) and the evaluation of what they observed           *)
(* (AlertEngine), put together.                                            *)
(*                                                                         *)
(* The components share the row of a run in monitoring.collection_run and  *)
(* the facts of its batches.  finalize_collection_run is a step of both:   *)
(* the pipeline's last write, and the moment from which the alert DAG sees *)
(* the run.  Everything else they do on their own, each DAG at its pace.   *)
(* Runs of one target come one after the other, as max_active_runs = 1 of  *)
(* the collection DAG makes them; a task that was lost is retried.         *)
(***************************************************************************)
EXTENDS Naturals, Sequences, FiniteSets

CONSTANTS
    Runs, Collectors, ActiveMetrics, MaxFaults,         \* CollectionPipeline
    Conds, Cooldown, BatchSize, Retries, MaxTime, MaxAlertFaults,   \* AlertEngine
    MetricOf        \* MetricOf[c]: the type of the metric c's rule is about

VARIABLES
    collectionRun, worker, staging, fact, faults,       \* CollectionPipeline
    now, evaluation, alertEvent, task, alertFaults      \* AlertEngine

pipelineVars == <<collectionRun, worker, staging, fact, faults>>
alertVars    == <<now, evaluation, alertEvent, task, alertFaults>>
vars == <<pipelineVars, alertVars>>

Pipeline == INSTANCE CollectionPipeline

\* evaluation[r] is the row of r as the alert DAG reads and marks it.
Alerts == INSTANCE AlertEngine WITH
    collectionRun <- evaluation, faults <- alertFaults, MaxFaults <- MaxAlertFaults

\* What the two components assume.  An enabled rule is about a staged metric, as those
\* of the five seeded rules are: of the server, the summaries and the backup ages.
ASSUME ConstantsAssumption ==
    /\ Collectors \in Seq(Pipeline!MetricTypes) /\ ActiveMetrics \subseteq Pipeline!MetricTypes
    /\ Cooldown \in [Conds -> Nat] /\ BatchSize \in Nat \ {0}
    /\ {Retries, MaxTime, MaxFaults, MaxAlertFaults} \subseteq Nat
    /\ MetricOf \in [Conds -> Pipeline!Staging]

Init == Pipeline!Init /\ Alerts!Init

-----------------------------------------------------------------------------
\* The alert procedure joins the facts a run has, so a condition whose batch was
\* not loaded has no verdict.  A summary is the one row its rule needs; another batch
\* may lack it: collect_server_metrics leaves out a metric whose query fails, and a
\* backup without a finish time has no age.  No step changes a finished run's facts.
Observed(r) ==
    \A c \in Conds :
        /\ evaluation'[r].verdict[c] # "absent" => staging[r][MetricOf[c]] = "loaded"
        /\ staging[r][MetricOf[c]] = "loaded" /\ MetricOf[c] \in Pipeline!Summarized
               => evaluation'[r].verdict[c] # "absent"

\* The next run of the target starts after the one before ended, and ends later.
StartRun(r) ==
    /\ \A q \in Runs \ {r} : /\ Pipeline!At(q, "idle") \/ Pipeline!Ended(q)
                            /\ evaluation[q].finishedAt # now
    /\ Pipeline!CreateRun(r)
    /\ UNCHANGED alertVars

Collect(r) ==
    /\ \/ Pipeline!Connect(r) \/ Pipeline!SyncDatabases(r)
       \/ Pipeline!Collect(r) \/ Pipeline!CollectSummary(r)
       \/ Pipeline!LogCollectionError(r) \/ Pipeline!ExecuteLoad(r)
    /\ UNCHANGED alertVars

Crash(r) == Pipeline!Crash(r) /\ UNCHANGED alertVars

FinalizeRun(r) ==
    /\ Pipeline!FinalizeRun(r)
    /\ IF collectionRun'[r].status = "running" THEN UNCHANGED alertVars
       ELSE /\ Alerts!FinishRun(r)
            /\ evaluation'[r].status = collectionRun'[r].status
            /\ collectionRun'[r].status # "failed" => Observed(r)

CleanupStaging == Pipeline!CleanupStaging /\ UNCHANGED alertVars

Tick == Alerts!Tick /\ UNCHANGED pipelineVars

EvaluateAlerts ==
    /\ \/ Alerts!FetchPendingRuns \/ Alerts!FinishBatch
       \/ \E r \in Runs : Alerts!EvaluateRun(r) \/ Alerts!RollBackRun(r)
    /\ UNCHANGED pipelineVars

LoseTask == Alerts!LoseTask /\ UNCHANGED pipelineVars

Acknowledge ==
    /\ \E c \in Conds : \E i \in 1..Len(alertEvent[c]) : Alerts!Acknowledge(c, i)
    /\ UNCHANGED pipelineVars

Next ==
    /\ \/ \E r \in Runs : StartRun(r) \/ Collect(r) \/ FinalizeRun(r) \/ Crash(r)
       \/ CleanupStaging \/ Tick \/ EvaluateAlerts \/ LoseTask \/ Acknowledge
    /\ faults' + alertFaults' <= MaxFaults

Spec == Init /\ [][Next]_vars

\* What the components assume: a started run goes on unless its worker dies, and
\* Airflow keeps evaluating.
Fairness ==
    /\ \A r \in Runs : WF_vars(Collect(r) \/ FinalizeRun(r))
    /\ WF_vars(EvaluateAlerts)

FairSpec == Spec /\ Fairness

-----------------------------------------------------------------------------
(***************************************************************************)
(* Properties.                                                             *)
(***************************************************************************)
Loaded(r, c) == staging[r][MetricOf[c]] = "loaded"
Processed(r) == evaluation[r].alertsProcessedAt # 0

\* The row that c's rule joins is a fact of the finished run r.
Observes(r, c) ==
    /\ evaluation[r].status \in {"success", "partial"} /\ Loaded(r, c)
    /\ MetricOf[c] \in Pipeline!Summarized \/ evaluation[r].verdict[c] # "absent"

\* A success that was evaluated was evaluated for every condition on a summary it
\* collected (blocking sessions, failed jobs): unless an error was swallowed, none is
\* left as it was because a collector, its summary or the load failed behind a run
\* that looks complete.  Of other metrics a success says less: collect_server_metrics
\* swallows the failure of a query, and a CPU condition is then not judged.
SuccessJudgesSummaries ==
    \A r \in Runs : \A c \in Conds :
        /\ evaluation[r].status = "success" /\ worker[r].swallowed = 0 /\ Processed(r)
        /\ MetricOf[c] \in Pipeline!Summarized \cap ActiveMetrics
        /\ \E i \in 1..Len(Collectors) : Collectors[i] = MetricOf[c]
        => evaluation[r].verdict[c] # "absent"

\* The facts a run was evaluated on are all it will ever have: rows it left in
\* staging (its load failed) are purged, and no later load makes them facts that
\* the alerts, which look at a run once, would never see.
NoLateFacts ==
    [][\A r \in Runs : Processed(r) =>
           /\ fact'[r] = fact[r]
           /\ \A t \in Pipeline!Staging : staging'[r][t] = "loaded" <=> staging[r][t] = "loaded"]_vars

\* With nothing left to evaluate, the alerts show the last observation that reached
\* the facts: of the runs that finished as success or partial with a row for the
\* condition the newest decides, though other runs failed to collect it, left it in
\* staging or died.  Once a fault has rolled an evaluation back or lost a task, it
\* does so if no older one of them was evaluated after it.
AlertsShowLastObservation ==
    (\A r \in Runs : ~Alerts!Waiting(r)) =>
        \A c \in Conds : \A r \in {q \in Runs : Observes(q, c)} :
            (\A q \in Runs \ {r} : Observes(q, c) =>
                 /\ Alerts!NoLaterThan(q, r)
                 /\ alertFaults = 0 \/ Alerts!EvaluatedBefore(q, r))
            => Alerts!Shown(c, r, alertEvent[c])

\* "The alert DAG finds successful or partial runs that have not been evaluated"
\* (docs/architecture/data-flow.md), end to end: a metric that reached the facts is
\* evaluated, unless its worker dies before it finishes the run, the run counts as
\* failed all the same (the answer to the write of its only rows was lost), or it is
\* outdated after a fault.
ObservationsReachAlerts ==
    \A r \in Runs :
        (\E c \in Conds : Loaded(r, c)) ~>
            \/ Processed(r)
            \/ Pipeline!At(r, "dead") /\ ~Pipeline!Finished(r)
            \/ collectionRun[r].status = "failed"
            \/ alertFaults > 0 /\ Alerts!Outdated(r)

\* A run stays unevaluated only after a fault, and while it is outdated.
ProcessedUnlessOutdated == Alerts!ProcessedUnlessOutdated
=============================================================================
