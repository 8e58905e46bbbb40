SPECIFICATION Spec
CONSTANTS
    A = A
    B = B
    C = C
    Types = {A, B, C}
    Void = void
    Block = 2
    Limits <- MCLimits
    Variants = {u, v, w}
    TypeListsUsed <- MCTypeLists
    Payloads = {"zero", "p"}
    Zero = "zero"
    MayThrow = TRUE
SYMMETRY Symmetry
INVARIANTS
    LookupsAgree
    IndexNeverWrong
    NothingMisread
PROPERTIES
    OnlyMixingLeaks
CHECK_DEADLOCK FALSE
