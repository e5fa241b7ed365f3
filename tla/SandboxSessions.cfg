SPECIFICATION FairSpec
CONSTANTS
    Sessions = {s1, s2}
    Ports = {p1, p2, p3}
    MaxStrangers = 1
INVARIANT NoLeak
PROPERTIES
    RemovesOnlyItsOwn
    EverySessionEnds
