\* A failed load whose error could not be logged leaves a run without an error.
CONSTANTS
    Runs = {r1}
    Collectors <- MCShort
    ActiveMetrics = {"agent"}
    MaxFaults = 1
SPECIFICATION Spec
INVARIANTS LoadFailureRecorded
CHECK_DEADLOCK FALSE
