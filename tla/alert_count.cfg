\* One observation of a condition, without any fault, is counted twice.
CONSTANTS
    c1 = c1
    c2 = c2
    Conds = {c2}
    Runs = {r1, r2}
    Cooldown <- MCCooldown
    BatchSize = 2
    Retries = 1
    MaxTime = 2
    MaxFaults = 0
SPECIFICATION Spec
INVARIANTS OccurrencesCounted
CHECK_DEADLOCK FALSE
