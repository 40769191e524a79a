\* One transient fault: an evaluation put off behind a newer one never succeeds.
CONSTANTS
    c1 = c1
    c2 = c2
    Conds = {c2}
    Runs = {r1, r2}
    Cooldown <- MCCooldown
    BatchSize = 2
    Retries = 1
    MaxTime = 2
    MaxFaults = 1
SPECIFICATION FairSpec
PROPERTIES EveryRunProcessed
CHECK_DEADLOCK FALSE
