\* Two conditions, retries, transient faults and lost tasks: safety.
CONSTANTS
    c1 = c1
    c2 = c2
    Conds = {c1, c2}
    Runs = {r1, r2, r3}
    Cooldown <- MCCooldown
    BatchSize = 2
    Retries = 1
    MaxTime = 4
    MaxFaults = 1
SPECIFICATION Spec
CONSTRAINT OnePart
SYMMETRY MCSymmetry
INVARIANTS TypeOK UniqueActive CooldownKept LatestVerdictWins EventsTraced
PROPERTIES HistoryKept EvaluationOutcome ImplementsLifecycle
CHECK_DEADLOCK FALSE
