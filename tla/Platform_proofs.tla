--------------------------- MODULE Platform_proofs ---------------------------
(***************************************************************************)
(* Theorems about Platform, for any runs, registry, conditions, cooldowns  *)
(* and bounds.  Each component keeps its own specification in the          *)
(* composition, so the invariants proved of it hold; what relates the two  *)
(* is Joined: the alert DAG sees a run when the pipeline has ended it.     *)
(***************************************************************************)
EXTENDS Platform, TLAPS

\* The components again, with their theorems.
P == INSTANCE CollectionPipeline_proofs
A == INSTANCE AlertEngine_proofs WITH
    collectionRun <- evaluation, faults <- alertFaults, MaxFaults <- MaxAlertFaults

\* The assumptions under which those theorems were proved.
LEMMA AssumptionsMet == P!ConstantsAssumption /\ A!ConstantsAssumption
BY ConstantsAssumption
   DEF P!ConstantsAssumption, A!ConstantsAssumption, P!MetricTypes, Pipeline!MetricTypes

-----------------------------------------------------------------------------
(***************************************************************************)
(* A step of the platform is a step of each component, or leaves it alone. *)
(***************************************************************************)
LEMMA SamePipelineInit == Pipeline!Init => P!Init
BY DEF Pipeline!Init, P!Init, Pipeline!Staging, P!Staging,
         Pipeline!ServerStaging, P!ServerStaging, Pipeline!DatabaseStaging, P!DatabaseStaging

LEMMA SamePipelineActions ==
    ASSUME NEW r \in Runs
    PROVE  /\ Pipeline!CreateRun(r) => P!CreateRun(r)
           /\ Pipeline!Connect(r) \/ Pipeline!SyncDatabases(r) => P!Step(r)
           /\ Pipeline!Collect(r) \/ Pipeline!CollectSummary(r) => P!Step(r)
           /\ Pipeline!LogCollectionError(r) => P!Step(r)
           /\ Pipeline!ExecuteLoad(r) => P!Step(r)
           /\ Pipeline!FinalizeRun(r) => P!Step(r)
           /\ Pipeline!Crash(r) => P!Crash(r)
<1>1. Pipeline!CreateRun(r) => P!CreateRun(r)
  BY DEF Pipeline!CreateRun, P!CreateRun, Pipeline!At, P!At, Pipeline!Goto, P!Goto,
         Pipeline!Fault, P!Fault, Pipeline!NoFault, P!NoFault
<1>2. Pipeline!Connect(r) \/ Pipeline!SyncDatabases(r) => P!Connect(r) \/ P!SyncDatabases(r)
  BY DEF Pipeline!Connect, P!Connect, Pipeline!SyncDatabases, P!SyncDatabases,
         Pipeline!At, P!At, Pipeline!Goto, P!Goto
<1> USE DEF Pipeline!At, P!At, Pipeline!Goto, P!Goto, Pipeline!Fault, P!Fault,
         Pipeline!NoFault, P!NoFault, Pipeline!NothingWritten, P!NothingWritten,
         Pipeline!Summarized, P!Summarized, Pipeline!Stage, P!Stage,
         Pipeline!StageRows, P!StageRows, Pipeline!MayMatchNothing, P!MayMatchNothing,
         Pipeline!Collected, P!Collected
<1>3. Pipeline!Collect(r) => P!Collect(r)
  <2>1. \A t : Pipeline!Persist(r, t) <=> P!Persist(r, t)
    BY DEF Pipeline!Persist, P!Persist, Pipeline!Specialized, P!Specialized,
         Pipeline!MetricTypes, P!MetricTypes
  <2>2. \A n : Pipeline!Summarize(r, n) <=> P!Summarize(r, n)
    BY DEF Pipeline!Summarize, P!Summarize
  <2>3. Pipeline!Current(r) = P!Current(r)
    BY DEF Pipeline!Current, P!Current
  <2>4. \A n : Pipeline!Collected(r, n) <=> P!Collected(r, n)
    OBVIOUS
  <2> QED
    BY <2>1, <2>2, <2>3, <2>4 DEF Pipeline!Collect, P!Collect
<1>4. Pipeline!CollectSummary(r) => P!CollectSummary(r)
  BY DEF Pipeline!CollectSummary, P!CollectSummary, Pipeline!Current, P!Current
<1>5. Pipeline!LogCollectionError(r) => P!LogCollectionError(r)
  BY DEF Pipeline!LogCollectionError, P!LogCollectionError, Pipeline!AfterError, P!AfterError
<1>6. Pipeline!ExecuteLoad(r) => P!ExecuteLoad(r)
  BY DEF Pipeline!ExecuteLoad, P!ExecuteLoad, Pipeline!Load, P!Load,
         Pipeline!Loaded, P!Loaded, Pipeline!Staging, P!Staging,
         Pipeline!ServerStaging, P!ServerStaging, Pipeline!DatabaseStaging, P!DatabaseStaging
<1>7. Pipeline!FinalizeRun(r) => P!FinalizeRun(r)
  BY DEF Pipeline!FinalizeRun, P!FinalizeRun, Pipeline!FinalStatus, P!FinalStatus
<1>8. Pipeline!Crash(r) => P!Crash(r)
  BY DEF Pipeline!Crash, P!Crash
<1> QED
  BY <1>1, <1>2, <1>3, <1>4, <1>5, <1>6, <1>7, <1>8 DEF P!Step

LEMMA SamePurge == Pipeline!CleanupStaging => P!CleanupStaging
BY DEF Pipeline!CleanupStaging, P!CleanupStaging, Pipeline!Purgeable, P!Purgeable,
         Pipeline!Ended, P!Ended, Pipeline!Staging, P!Staging,
         Pipeline!ServerStaging, P!ServerStaging, Pipeline!DatabaseStaging, P!DatabaseStaging

LEMMA PipelineStep == [Next]_vars => [P!Next]_(P!vars)
<1> SUFFICES ASSUME [Next]_vars PROVE [P!Next]_(P!vars)
  OBVIOUS
<1>1. CASE UNCHANGED pipelineVars
  BY <1>1 DEF pipelineVars, P!vars
<1>2. CASE \E r \in Runs : StartRun(r) \/ Collect(r) \/ FinalizeRun(r) \/ Crash(r)
  BY <1>2, SamePipelineActions DEF StartRun, Collect, FinalizeRun, Crash, P!Next
<1>3. CASE CleanupStaging
  BY <1>3, SamePurge DEF CleanupStaging, P!Next
<1>4. Tick \/ EvaluateAlerts \/ LoseTask \/ Acknowledge \/ UNCHANGED vars
        => UNCHANGED pipelineVars
  BY DEF Tick, EvaluateAlerts, LoseTask, Acknowledge, vars
<1> QED
  BY <1>1, <1>2, <1>3, <1>4 DEF Next

-----------------------------------------------------------------------------
LEMMA SameAlertsInit == Alerts!Init => A!Init
BY DEF Alerts!Init, A!Init, Alerts!IdleTask, A!IdleTask, Alerts!Never, A!Never

LEMMA SameRunActions ==
    ASSUME NEW r \in Runs
    PROVE  /\ Alerts!FinishRun(r) => A!FinishRun(r)
           /\ Alerts!EvaluateRun(r) => A!EvaluateRun(r)
           /\ Alerts!RollBackRun(r) => A!RollBackRun(r)
<1>1. \A c \in Conds : Alerts!ProcessAlerts(c, r) = A!ProcessAlerts(c, r)
  BY DEF Alerts!ProcessAlerts, A!ProcessAlerts, Alerts!Resolved, A!Resolved,
         Alerts!Updated, A!Updated, Alerts!Inserted, A!Inserted, Alerts!Opens, A!Opens,
         Alerts!Triggered, A!Triggered, Alerts!Clear, A!Clear, Alerts!Active, A!Active,
         Alerts!Seen, A!Seen, Alerts!Resolve, A!Resolve, Alerts!InCooldown, A!InCooldown,
         Alerts!NewEvent, A!NewEvent, Alerts!Never, A!Never
<1>2. Alerts!Accepted(r) <=> A!Accepted(r)
  BY <1>1 DEF Alerts!Accepted, A!Accepted, Alerts!TimesOrdered, A!TimesOrdered,
         Alerts!Never, A!Never
<1>3. Alerts!NextInBatch(r) <=> A!NextInBatch(r)
  BY DEF Alerts!NextInBatch, A!NextInBatch, Alerts!NoLaterThan, A!NoLaterThan
<1>4. Alerts!FinishRun(r) => A!FinishRun(r)
  BY DEF Alerts!FinishRun, A!FinishRun, Alerts!Never, A!Never, Alerts!Verdicts, A!Verdicts
<1>5. Alerts!EvaluateRun(r) => A!EvaluateRun(r)
  BY <1>1, <1>2, <1>3 DEF Alerts!EvaluateRun, A!EvaluateRun
<1>6. Alerts!RollBackRun(r) => A!RollBackRun(r)
  BY <1>2, <1>3 DEF Alerts!RollBackRun, A!RollBackRun
<1> QED
  BY <1>4, <1>5, <1>6

LEMMA SameTaskActions ==
    /\ Alerts!Tick => A!Tick
    /\ Alerts!FetchPendingRuns => A!FetchPendingRuns
    /\ Alerts!FinishBatch => A!FinishBatch
    /\ Alerts!LoseTask => A!LoseTask
<1>1. Alerts!Tick => A!Tick
  BY DEF Alerts!Tick, A!Tick
<1>2. Alerts!FetchPendingRuns => A!FetchPendingRuns
  BY DEF Alerts!FetchPendingRuns, A!FetchPendingRuns, Alerts!Batches, A!Batches,
         Alerts!Pending, A!Pending, Alerts!NoLaterThan, A!NoLaterThan, Alerts!Never, A!Never,
         Alerts!Cardinality, A!Cardinality
<1>3. Alerts!FinishBatch => A!FinishBatch
  BY DEF Alerts!FinishBatch, A!FinishBatch, Alerts!RetryOrStop, A!RetryOrStop,
         Alerts!IdleTask, A!IdleTask
<1>4. Alerts!LoseTask => A!LoseTask
  BY DEF Alerts!LoseTask, A!LoseTask, Alerts!RetryOrStop, A!RetryOrStop,
         Alerts!IdleTask, A!IdleTask
<1> QED
  BY <1>1, <1>2, <1>3, <1>4

LEMMA SameAcknowledge ==
    ASSUME NEW c \in Conds, NEW i \in 1..Len(alertEvent[c]), Alerts!Acknowledge(c, i)
    PROVE  A!Acknowledge(c, i)
BY DEF Alerts!Acknowledge, A!Acknowledge, Alerts!Acknowledged, A!Acknowledged,
         Alerts!Never, A!Never

LEMMA AlertsStep == [Next]_vars => [A!Next]_(A!vars)
<1> SUFFICES ASSUME [Next]_vars PROVE [A!Next]_(A!vars)
  OBVIOUS
<1>1. CASE UNCHANGED alertVars
  BY <1>1 DEF alertVars, A!vars
<1>2. ASSUME NEW r \in Runs, FinalizeRun(r) PROVE [A!Next]_(A!vars)
  BY <1>1, <1>2, SameRunActions DEF FinalizeRun, A!Next
<1>3. CASE Tick \/ EvaluateAlerts \/ LoseTask
  BY <1>3, SameTaskActions, SameRunActions DEF Tick, EvaluateAlerts, LoseTask, A!Next
<1>4. CASE Acknowledge
  BY <1>4, SameAcknowledge DEF Acknowledge, A!Next
<1>5. ASSUME NEW r \in Runs, StartRun(r) \/ Collect(r) \/ Crash(r) PROVE UNCHANGED alertVars
  BY <1>5 DEF StartRun, Collect, Crash
<1>6. CleanupStaging \/ UNCHANGED vars => UNCHANGED alertVars
  BY DEF CleanupStaging, vars
<1> QED
  BY <1>1, <1>2, <1>3, <1>4, <1>5, <1>6 DEF Next

\* What is proved of the components holds of them here.
LEMMA ComponentInvariants == Spec => [](P!IInv /\ A!IInv /\ A!OrderInv)
<1>1. Init => P!Init /\ A!Init
  BY SamePipelineInit, SameAlertsInit DEF Init
<1>2. P!Init => P!IInv
  BY P!InitIInv, AssumptionsMet
<1>3. A!Init => A!IInv
  BY A!InitIInv, AssumptionsMet
<1>4. P!IInv /\ [P!Next]_(P!vars) => P!IInv'
  BY P!NextIInv, AssumptionsMet
<1>5. A!IInv /\ [A!Next]_(A!vars) => A!IInv'
  BY A!NextIInv, AssumptionsMet
<1>6. A!Init => A!OrderInv
  BY A!InitOrder, AssumptionsMet
<1>7. A!IInv /\ A!OrderInv /\ [A!Next]_(A!vars) => A!OrderInv'
  BY A!StepOrder, AssumptionsMet
<1>8. P!IInv /\ A!IInv /\ A!OrderInv /\ [Next]_vars => P!IInv' /\ A!IInv' /\ A!OrderInv'
  BY <1>4, <1>5, <1>7, PipelineStep, AlertsStep
<1> QED
  BY <1>1, <1>2, <1>3, <1>6, <1>8, PTL DEF Spec

-----------------------------------------------------------------------------
(***************************************************************************)
(* What relates the components.  A run whose row the alert DAG sees as     *)
(* finished has ended, so its facts stay what they were at its evaluation, *)
(* and its verdicts are about the conditions whose facts it has.           *)
(***************************************************************************)
Joined(r) ==
    /\ IF evaluation[r].status = "running"
       THEN evaluation[r].finishedAt = 0 /\ ~Processed(r)
       ELSE Pipeline!Ended(r)
    /\ evaluation[r].status = "success" => collectionRun[r].status = "success"
    /\ \A c \in Conds : evaluation[r].verdict[c] # "absent" <=> Observes(r, c)

Inv == P!IInv /\ A!IInv /\ \A r \in Runs : Joined(r)

LEMMA EndedStays ==
    ASSUME P!IInv, [Next]_vars, NEW r \in Runs, Pipeline!Ended(r)
    PROVE  /\ worker'[r] = worker[r] /\ collectionRun'[r] = collectionRun[r]
           /\ fact'[r] = fact[r]
           /\ \A t \in Pipeline!Staging : staging'[r][t] = "loaded" <=> staging[r][t] = "loaded"
<1>1. P!Ended(r) /\ [P!Next]_(P!vars)
  BY PipelineStep DEF P!Ended, Pipeline!Ended
<1>2. Pipeline!Staging = P!Staging
  BY DEF Pipeline!Staging, P!Staging, Pipeline!ServerStaging, P!ServerStaging,
         Pipeline!DatabaseStaging, P!DatabaseStaging
<1> QED
  BY <1>1, <1>2, P!EndedStays, AssumptionsMet

LEMMA MetricStaged ==
    ASSUME NEW c \in Conds
    PROVE  MetricOf[c] \in Pipeline!Staging
BY ConstantsAssumption

\* The row of a run is written by the end of the run and by its evaluation.
LEMMA RowStep ==
    ASSUME Inv, [Next]_vars, NEW r \in Runs
    PROVE  \/ evaluation'[r] = evaluation[r]
           \/ /\ evaluation[r].status # "running"
              /\ evaluation'[r].status = evaluation[r].status
              /\ evaluation'[r].finishedAt = evaluation[r].finishedAt
              /\ evaluation'[r].verdict = evaluation[r].verdict
           \/ FinalizeRun(r) /\ Alerts!FinishRun(r)
<1>1. evaluation \in [Runs -> A!CollectionRun]
  BY DEF Inv, A!IInv, A!TypeOK
<1>2. ASSUME NEW q \in Runs, FinalizeRun(q), Alerts!FinishRun(q), q # r
      PROVE  evaluation'[r] = evaluation[r]
  BY <1>1, <1>2 DEF Alerts!FinishRun
<1>3. ASSUME NEW q \in Runs, Alerts!EvaluateRun(q), q # r
      PROVE  evaluation'[r] = evaluation[r]
  BY <1>1, <1>3 DEF Alerts!EvaluateRun
<1>4. ASSUME Alerts!EvaluateRun(r)
      PROVE  /\ evaluation[r].status # "running"
             /\ evaluation'[r].status = evaluation[r].status
             /\ evaluation'[r].finishedAt = evaluation[r].finishedAt
             /\ evaluation'[r].verdict = evaluation[r].verdict
  <2>1. r \in task.left
    BY <1>4 DEF Alerts!EvaluateRun, Alerts!NextInBatch
  <2>2. evaluation[r].finishedAt # 0
    BY <2>1 DEF Inv, A!IInv, A!TaskRunsDated, A!Never
  <2>3. evaluation[r].status # "running"
    BY <2>2 DEF Inv, Joined
  <2>4. evaluation' = [evaluation EXCEPT ![r].alertsProcessedAt = now]
    BY <1>4 DEF Alerts!EvaluateRun
  <2> QED
    BY <1>1, <2>3, <2>4 DEF A!CollectionRun
<1>5. ASSUME NEW q \in Runs, Alerts!RollBackRun(q)
      PROVE  evaluation' = evaluation
  BY <1>5 DEF Alerts!RollBackRun
<1>6. Alerts!FetchPendingRuns \/ Alerts!FinishBatch \/ Tick \/ LoseTask \/ CleanupStaging
      \/ UNCHANGED vars
        => evaluation' = evaluation
  BY DEF Alerts!FetchPendingRuns, Alerts!FinishBatch, Tick, Alerts!Tick, LoseTask,
         Alerts!LoseTask, CleanupStaging, vars, alertVars
<1>7. Acknowledge => evaluation' = evaluation
  BY DEF Acknowledge, Alerts!Acknowledge
<1>8. ASSUME NEW q \in Runs, StartRun(q) \/ Collect(q) \/ Crash(q)
      PROVE  evaluation' = evaluation
  BY <1>8 DEF StartRun, Collect, Crash, alertVars
<1>9. ASSUME NEW q \in Runs, FinalizeRun(q), ~Alerts!FinishRun(q)
      PROVE  evaluation' = evaluation
  BY <1>9 DEF FinalizeRun, alertVars
<1>10. EvaluateAlerts =>
         \/ Alerts!FetchPendingRuns \/ Alerts!FinishBatch
         \/ \E q \in Runs : Alerts!EvaluateRun(q) \/ Alerts!RollBackRun(q)
  BY DEF EvaluateAlerts
<1>11. CASE \E q \in Runs : FinalizeRun(q)
  BY <1>2, <1>9, <1>11
<1>12. CASE EvaluateAlerts
  BY <1>3, <1>4, <1>5, <1>6, <1>10, <1>12
<1> QED
  BY <1>6, <1>7, <1>8, <1>11, <1>12 DEF Next

LEMMA FinalizedJoined ==
    ASSUME Inv, [Next]_vars, NEW r \in Runs, FinalizeRun(r), Alerts!FinishRun(r)
    PROVE  Joined(r)'
<1>1. evaluation \in [Runs -> A!CollectionRun] /\ worker \in [Runs -> P!Worker]
  BY DEF Inv, A!IInv, A!TypeOK, P!IInv, P!TypeOK
<1>2. /\ evaluation'[r].status \in {"success", "partial", "failed"}
      /\ evaluation'[r].alertsProcessedAt = 0
  BY <1>1 DEF Alerts!FinishRun, Alerts!Never
<1>3. Pipeline!Ended(r)'
  BY <1>1 DEF FinalizeRun, Pipeline!FinalizeRun, Pipeline!Goto, Pipeline!Ended, P!Worker
<1>4. collectionRun'[r].status # "running"
  BY <1>2 DEF FinalizeRun, Alerts!FinishRun, alertVars
<1>5. /\ evaluation'[r].status = collectionRun'[r].status
      /\ collectionRun'[r].status # "failed" => Observed(r)
      /\ staging' = staging
  <2>1. ~UNCHANGED alertVars
    <3>1. evaluation[r].status = "running"
      BY DEF Alerts!FinishRun
    <3> QED
      BY <1>2, <3>1 DEF alertVars
  <2> QED
    BY <1>4, <2>1 DEF FinalizeRun, Pipeline!FinalizeRun
<1>6. ASSUME NEW c \in Conds
      PROVE  evaluation'[r].verdict[c] # "absent" <=> Observes(r, c)'
  <2>1. CASE evaluation'[r].status = "failed"
    <3>1. evaluation'[r].verdict[c] = "absent"
      BY <1>1, <2>1 DEF Alerts!FinishRun
    <3> QED
      BY <2>1, <3>1 DEF Observes
  <2>2. CASE evaluation'[r].status \in {"success", "partial"}
    <3>1. Observed(r)
      BY <1>5, <2>2
    <3>2. /\ evaluation'[r].verdict[c] # "absent" => Loaded(r, c)'
          /\ Loaded(r, c)' /\ MetricOf[c] \in Pipeline!Summarized
                 => evaluation'[r].verdict[c] # "absent"
      BY <1>5, <3>1 DEF Observed, Loaded
    <3> QED
      BY <2>2, <3>2 DEF Observes
  <2> QED
    BY <1>2, <2>1, <2>2
<1> QED
  BY <1>2, <1>3, <1>5, <1>6 DEF Joined

LEMMA JoinedStep == Inv /\ [Next]_vars => \A r \in Runs : Joined(r)'
<1> SUFFICES ASSUME Inv, [Next]_vars, NEW r \in Runs PROVE Joined(r)'
  OBVIOUS
<1>1. CASE evaluation'[r] = evaluation[r] /\ evaluation[r].status = "running"
  BY <1>1 DEF Inv, Joined, Processed, Observes
<1>2. CASE /\ evaluation[r].status # "running"
           /\ evaluation'[r].status = evaluation[r].status
           /\ evaluation'[r].verdict = evaluation[r].verdict
  <2>1. Joined(r) /\ Pipeline!Ended(r)
    BY <1>2 DEF Inv, Joined
  <2>2. /\ worker'[r] = worker[r] /\ collectionRun'[r] = collectionRun[r]
        /\ \A t \in Pipeline!Staging : staging'[r][t] = "loaded" <=> staging[r][t] = "loaded"
    BY <2>1, EndedStays DEF Inv
  <2>3. \A c \in Conds : Loaded(r, c)' <=> Loaded(r, c)
    BY <2>2, MetricStaged DEF Loaded
  <2> QED
    BY <1>2, <2>1, <2>2, <2>3 DEF Joined, Observes, Pipeline!Ended
<1>3. CASE FinalizeRun(r) /\ Alerts!FinishRun(r)
  BY <1>3, FinalizedJoined
<1> QED
  BY <1>1, <1>2, <1>3, RowStep

LEMMA InvariantHolds == Spec => []Inv
<1>1. Init => \A r \in Runs : Joined(r)
  BY DEF Init, Alerts!Init, Alerts!Never, Joined, Processed, Observes
<1>2. (\A r \in Runs : Joined(r)) /\ P!IInv /\ A!IInv /\ [Next]_vars
        => (\A r \in Runs : Joined(r))'
  BY JoinedStep DEF Inv
<1> DEFINE J == \A r \in Runs : Joined(r)
           C == P!IInv /\ A!IInv
<1>3. Init => J
  BY <1>1
<1>4. J /\ C /\ [Next]_vars => J'
  BY <1>2
<1>5. J /\ C => Inv
  BY DEF Inv
<1>6. Spec => []C
  BY ComponentInvariants, PTL
<1> HIDE DEF J, C
<1> QED
  BY <1>3, <1>4, <1>5, <1>6, PTL DEF Spec

-----------------------------------------------------------------------------
\* Putting the DAGs together adds no step to either: what the collector and the
\* alert DAG do in the platform, each does on its own too, under its own faults.
THEOREM ComponentsKept == Spec => Pipeline!Spec /\ Alerts!Spec
<1>1. [Next]_vars => [Pipeline!Next]_(Pipeline!vars)
  <2> SUFFICES ASSUME [Next]_vars PROVE [Pipeline!Next]_(Pipeline!vars)
    OBVIOUS
  <2>1. CASE \E r \in Runs : StartRun(r) \/ Collect(r) \/ FinalizeRun(r) \/ Crash(r)
    BY <2>1 DEF StartRun, Collect, FinalizeRun, Crash, Pipeline!Next, Pipeline!Step
  <2>2. CASE CleanupStaging
    BY <2>2 DEF CleanupStaging, Pipeline!Next
  <2>3. Tick \/ EvaluateAlerts \/ LoseTask \/ Acknowledge \/ UNCHANGED vars
          => UNCHANGED Pipeline!vars
    BY DEF Tick, EvaluateAlerts, LoseTask, Acknowledge, vars, pipelineVars, Pipeline!vars
  <2> QED
    BY <2>1, <2>2, <2>3 DEF Next
<1>2. [Next]_vars => [Alerts!Next]_(Alerts!vars)
  <2> SUFFICES ASSUME [Next]_vars PROVE [Alerts!Next]_(Alerts!vars)
    OBVIOUS
  <2>1. ASSUME NEW r \in Runs, FinalizeRun(r) PROVE [Alerts!Next]_(Alerts!vars)
    BY <2>1 DEF FinalizeRun, alertVars, Alerts!Next, Alerts!vars
  <2>2. CASE Tick \/ EvaluateAlerts \/ LoseTask \/ Acknowledge
    BY <2>2 DEF Tick, EvaluateAlerts, LoseTask, Acknowledge, Alerts!Next
  <2>3. \A r \in Runs : StartRun(r) \/ Collect(r) \/ Crash(r) => UNCHANGED Alerts!vars
    BY DEF StartRun, Collect, Crash, alertVars, Alerts!vars
  <2>4. CleanupStaging \/ UNCHANGED vars => UNCHANGED Alerts!vars
    BY DEF CleanupStaging, vars, alertVars, Alerts!vars
  <2> QED
    BY <2>1, <2>2, <2>3, <2>4 DEF Next
<1> QED
  BY <1>1, <1>2, PTL DEF Spec, Init, Pipeline!Spec, Alerts!Spec

\* A success whose evaluation is marked (data-flow.md: "marks each processed run")
\* had a verdict for every condition on a summary it collected, unless logging an
\* error failed: its load cannot have left the summary out.
THEOREM SuccessAlwaysJudges == Spec => []SuccessJudgesSummaries
<1>1. Inv => SuccessJudgesSummaries
  <2> SUFFICES ASSUME Inv, NEW r \in Runs, NEW c \in Conds,
                      evaluation[r].status = "success", worker[r].swallowed = 0,
                      MetricOf[c] \in Pipeline!Summarized, MetricOf[c] \in ActiveMetrics,
                      \E i \in 1..Len(Collectors) : Collectors[i] = MetricOf[c]
               PROVE  evaluation[r].verdict[c] # "absent"
    BY DEF SuccessJudgesSummaries
  <2>1. Joined(r) /\ collectionRun[r].status = "success"
    BY DEF Inv, Joined
  <2>2. P!SuccessMeansLoaded
    BY P!SuccessLoaded, AssumptionsMet DEF Inv
  <2>3. MetricOf[c] \in P!Summarized /\ MetricOf[c] \in P!Staging
    BY MetricStaged
       DEF Pipeline!Summarized, P!Summarized, Pipeline!Staging, P!Staging,
         Pipeline!ServerStaging, P!ServerStaging, Pipeline!DatabaseStaging, P!DatabaseStaging
  <2>4. staging[r][MetricOf[c]] = "loaded"
    BY <2>1, <2>2, <2>3 DEF P!SuccessMeansLoaded
  <2> QED
    BY <2>1, <2>4 DEF Joined, Observes, Loaded
<1> QED
  BY <1>1, InvariantHolds, PTL

\* Once sp_process_alerts has looked at a run, no step of the pipeline gives it a
\* fact or a loaded metric the alerts would miss, or takes one away.
THEOREM FactsNeverLate == Spec => NoLateFacts
<1> DEFINE Fixed == \A r \in Runs : Processed(r) =>
               /\ fact'[r] = fact[r]
               /\ \A t \in Pipeline!Staging :
                      staging'[r][t] = "loaded" <=> staging[r][t] = "loaded"
<1>1. Inv /\ [Next]_vars => [Fixed]_vars
  <2> SUFFICES ASSUME Inv, [Next]_vars, NEW r \in Runs, Processed(r)
               PROVE  /\ fact'[r] = fact[r]
                      /\ \A t \in Pipeline!Staging :
                             staging'[r][t] = "loaded" <=> staging[r][t] = "loaded"
    OBVIOUS
  <2>1. Pipeline!Ended(r)
    BY DEF Inv, Joined
  <2> QED
    BY <2>1, EndedStays DEF Inv
<1> QED
  BY <1>1, InvariantHolds, PTL DEF Spec, NoLateFacts

\* With nothing left to evaluate, the alerts show the last observation that reached
\* the facts, whatever faults the collection of the runs met: of any run until the first
\* fault of the alert DAG (a rolled back evaluation or a lost task), of a run that no
\* older one was evaluated after from then on.
THEOREM LastObservationAlwaysShown == Spec => []AlertsShowLastObservation
<1>1. Inv /\ A!OrderInv => AlertsShowLastObservation
  <2> SUFFICES ASSUME Inv, A!OrderInv, \A r \in Runs : ~Alerts!Waiting(r),
                      NEW c \in Conds, NEW r \in Runs, Observes(r, c),
                      \A q \in Runs \ {r} : Observes(q, c) =>
                          /\ Alerts!NoLaterThan(q, r)
                          /\ alertFaults = 0 \/ Alerts!EvaluatedBefore(q, r)
               PROVE  A!Shown(c, r, alertEvent[c])
    BY DEF AlertsShowLastObservation, A!Shown, Alerts!Shown, A!Clear, Alerts!Clear,
           A!Active, Alerts!Active
  <2>1. \A q \in Runs : Observes(q, c) <=> q \in A!Evaluated(c)
    <3> SUFFICES ASSUME NEW q \in Runs PROVE Observes(q, c) <=> q \in A!Evaluated(c)
      OBVIOUS
    <3>1. evaluation[q].verdict[c] # "absent" <=> Observes(q, c)
      BY DEF Inv, Joined
    <3>2. Observes(q, c) => evaluation[q].alertsProcessedAt # 0
      BY DEF Observes, Alerts!Waiting, Alerts!Never
    <3> QED
      BY <3>1, <3>2 DEF A!Evaluated, A!Never
  <2>2. \A q \in A!Evaluated(c) \ {r} : A!NoLaterThan(q, r)
    BY <2>1 DEF A!Evaluated, A!NoLaterThan, Alerts!NoLaterThan
  <2>3. CASE alertFaults = 0
    <3>1. \A q \in A!Evaluated(c) : A!NoLaterThan(q, r)
      <4>1. evaluation[r].finishedAt \in Nat
        BY DEF Inv, A!IInv, A!TypeOK, A!CollectionRun, A!Time
      <4>2. A!NoLaterThan(r, r)
        BY <4>1 DEF A!NoLaterThan
      <4> QED
        BY <2>2, <4>2
    <3>2. A!ShowsLatest(c, alertEvent[c])
      BY <2>3 DEF A!OrderInv, A!LatestShown
    <3> QED
      BY <2>1, <3>1, <3>2 DEF A!ShowsLatest
  <2>4. CASE alertFaults # 0
    <3>1. \A q \in A!Evaluated(c) \ {r} : A!EvaluatedBefore(q, r)
      BY <2>1, <2>4 DEF A!Evaluated, A!EvaluatedBefore, Alerts!EvaluatedBefore
    <3>2. A!LastShown(c, alertEvent[c])
      BY DEF A!OrderInv
    <3> QED
      BY <2>1, <3>1, <3>2 DEF A!LastShown
  <2> QED
    BY <2>3, <2>4
<1> QED
  BY <1>1, InvariantHolds, ComponentInvariants, PTL
=============================================================================
