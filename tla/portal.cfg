\* One alert that comes back: overlapping refreshes and acknowledgements, one lost.
CONSTANTS
    Conds = {c}
    Critical = {c}
    Filters = {"all", "warning"}
    MaxEpisodes = 2
    MaxRefreshes = 2
    MaxPosts = 2
    MaxFaults = 1
SPECIFICATION FairSpec
INVARIANTS TypeOK
PROPERTIES OnlyOverlapsGoBack ImplementsLifecycle AlertsCatchUp
