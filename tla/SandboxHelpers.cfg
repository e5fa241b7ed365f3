SPECIFICATION FairSpec
CONSTANTS
    Helpers = {h1, h2}
    Blocks <- BlockCounts
    Limit = 1
    Retries = 1
    MaxFaults = 2
    MaxHeight = 4
INVARIANTS
    SkipsAtLeast
    PatchIsApplied
    TimeoutIsTrue
PROPERTY EveryHelperEnds
