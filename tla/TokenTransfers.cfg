SPECIFICATION Spec
CONSTANTS
    None = None
    Calls = {c1, c2}
    bob = bob
    Receivers = {bob}
    Requests <- SmallRequests
    MaxVersion = 1
    MaxMinimum = 2
    MaxTokens = 1
SYMMETRY TransferSymmetry
CHECK_DEADLOCK FALSE
INVARIANTS
    RegisterWorks
    ResultsAreTrue
PROPERTIES
    CachedForLife
