SPECIFICATION FairSpec
CONSTANTS
    Producers = {p1, p2}
    Consumers = {c1, c2}
    Nobody = nobody
    MayThrow = {"copy", "move"}
    MaxCalls = 4
    MaxSpurious = 1
INVARIANTS
    MutualExclusion
    NoLostWakeup
    FrontDefined
PROPERTIES
    RefinesFifo
    NoElementStranded
    CallsReturn
