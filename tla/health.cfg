\* Two instances over three DAG runs; the task of one may be lost for good.
CONSTANTS
    i = i
    j = j
    Instances = {i, j}
    Retries = 1
    MaxRuns = 3
    MaxLost <- MCMaxLost
SPECIFICATION FairSpec
INVARIANTS TypeOK FailuresCounted ReturnedIsShown
PROPERTIES LastTimesKept CheckEnds
CHECK_DEADLOCK FALSE
