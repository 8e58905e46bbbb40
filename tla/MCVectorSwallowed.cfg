SPECIFICATION Spec
CONSTANTS
    Vectors = {v}
    Values = {a, b}
    Default = a
    Raw = raw
    Husk = husk
    Kinds = {"throws"}
    MaxSize = 3
VIEW View
PROPERTIES
    ExceptionPropagated
CHECK_DEADLOCK FALSE
