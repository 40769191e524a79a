\* A renamed database is not synchronized, and blocks every other one.
CONSTANTS
    Names = {a, b}
    Ids = {i}
    NoId = NoId
    JobRuns = {x}
    Deadlocks = {d}
SPECIFICATION Spec
PROPERTIES DatabasesSynchronized
