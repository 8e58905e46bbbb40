SPECIFICATION Spec
CONSTANTS
    Vectors = {v, w}
    Values = {a, b}
    Default = a
    Raw = raw
    Husk = husk
    Kinds = {"moves", "string", "copies", "throws"}
    MaxSize = 3
VIEW View
SYMMETRY Symmetry
INVARIANTS
    TypeOK
    ElementsExactly
PROPERTIES
    OnlyHusksSpilled
    IntactAfterException
    RefinesSequences
CHECK_DEADLOCK FALSE
