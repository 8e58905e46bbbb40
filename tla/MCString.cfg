SPECIFICATION Spec
CONSTANTS
    Strings = {s, t}
    Chars = {a, b}
    Nul = nul
    Junk = junk
    ShortCapacity = 3
    SizeMax = 99
    MaxSize = 5
VIEW View
SYMMETRY Symmetry
INVARIANTS
    TypeOK
PROPERTIES
    NoOverflow
    OnlyReserveUnterminates
    LongMoveCostsFirst
    RefinesTexts
CHECK_DEADLOCK FALSE
