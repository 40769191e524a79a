\* Databases come, go, change names and are backed up; or jobs finish and
\* deadlocks are reported.
CONSTANTS
    Names = {a, b, c}
    Ids = {i, j, k}
    NoId = NoId
    JobRuns = {x, y}
    Deadlocks = {d, e}
SPECIFICATION FairSpec
CONSTRAINT OnePart
INVARIANTS TypeOK SummarizedAreStored
PROPERTIES SyncOutcome DatabasesRecorded AgesReported
