\* Two runs of a target, from the collectors to the alert.
CONSTANTS
    c = c
    d = d
    Runs = {r1, r2}
    Collectors <- MCCollectors
    ActiveMetrics = {"server", "agent"}
    MaxFaults = 1
    Conds = {c, d}
    Cooldown <- MCCooldown
    BatchSize = 2
    Retries = 1
    MaxTime = 2
    MaxAlertFaults = 1
    MetricOf <- MCMetricOf
SPECIFICATION FairSpec
CONSTRAINT OneCondition
INVARIANTS SuccessJudgesSummaries AlertsShowLastObservation
PROPERTIES NoLateFacts ObservationsReachAlerts ProcessedUnlessOutdated
CHECK_DEADLOCK FALSE
