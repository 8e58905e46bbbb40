SPECIFICATION Spec
CONSTANTS
    Handles = {h1, h2, a1}
    ArrayHandles = {a1}
    Objects = {o1, o2}
    Blocks = {b1, b2}
    Null = null
    CountMod = 8
CONSTRAINT Unabused
VIEW View
SYMMETRY Symmetry
INVARIANTS
    TypeOK
    CountIsOwners
    NoDangling
    DefinedUnlessAbused
    NothingLeft
CHECK_DEADLOCK FALSE
