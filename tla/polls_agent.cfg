\* A job run is lost when an older one of the same window is stored already.
CONSTANTS
    Names = {a}
    Ids = {i}
    NoId = NoId
    JobRuns = {x, y}
    Deadlocks = {d}
SPECIFICATION Spec
PROPERTIES JobRunsStored
