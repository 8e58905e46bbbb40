SPECIFICATION FairSpec
CONSTANTS
    Stacks = {s, u}
    Threads = {t1, t2, t3}
    Nobody = nobody
    MayThrow = {"copy", "move"}
    MaxCalls = 3
INVARIANTS
    StableRead
    NoHoldAndWait
PROPERTIES
    RefinesAtomicStacks
    CallsReturn
