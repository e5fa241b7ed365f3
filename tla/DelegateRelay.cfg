SPECIFICATION Spec
CONSTANTS
    None = None
    Signings = {s1, s2}
    Calls = {r1, r2}
    Arguments <- SmallArguments
    Ttl = 1
    FinalityLag = 1
    MaxNonce = 2
    MaxHeight = 3
SYMMETRY RelaySymmetry
CHECK_DEADLOCK FALSE
INVARIANTS
    OneReturnPerDelegate
    RefusedForAReason
    NeverRunsLate
