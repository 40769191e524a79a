\* Three kinds of schedule, one target that may hang, and a lost task.
CONSTANTS
    Targets = {t, u}
    Schedules <- MCSchedules
    MayHang = {u}
    Retries = 1
    MaxTime = 5
    MaxFaults = 2
    MaxChanges = 1
SPECIFICATION FairSpec
INVARIANTS TypeOK
PROPERTIES CadenceKept DueIsCollected
CHECK_DEADLOCK FALSE
