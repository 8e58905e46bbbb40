SPECIFICATION FairSpec
CONSTANTS
    Capacity = 4
    Values = {a, b}
    Vacant = vacant
    MayThrow = TRUE
    MaxPush = 7
INVARIANTS
    TypeOK
    NoDataRace
    Fifo
    RefusalJustified
PROPERTIES
    RefinesBoundedFifo
    EveryPushDelivered
