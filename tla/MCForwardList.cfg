SPECIFICATION ListSpec
CONSTANTS
    Lists = {k, l}
    Nodes = {n1, n2, n3, n4}
    nullptr = nullptr
    MaxSize = 2
    SizeMod = 8
SYMMETRY Symmetry
INVARIANTS
    NodesOwnedOnce
CHECK_DEADLOCK FALSE
