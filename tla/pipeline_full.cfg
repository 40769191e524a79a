\* The whole registry: the ways a run's collectors, calls and load can end, a second
\* run and the purge; and the rows of the query collector over several runs.
CONSTANTS
    r1 = r1
    r2 = r2
    Runs = {r1, r2}
    Collectors <- COLLECTORS
    ActiveMetrics = {"server", "blocking", "agent", "database"}
    MaxFaults = 1
    Entries = {p, q, r}
    KeyOf <- MCKeyOf
    p = p
    q = q
    r = r
    Top = 2
    MaxWork = 4
    MaxSnapshots = 3
SPECIFICATION MCSpec
CONSTRAINT OneOrAgent
INVARIANTS TypeOK SuccessMeansLoaded FailureExplained LoadedTogether NeverOverstated SteadyIsExact
PROPERTIES RunsIsolated StagingDrains RunsEnd
CHECK_DEADLOCK FALSE
