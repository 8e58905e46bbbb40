SPECIFICATION Spec
CONSTANTS
    Handles = {h1, h2, h3}
    Objects = {o1, o2}
    Arenas = {a1, a2}
    Null = null
INVARIANTS
    UniqueOwnership
    DeletedAtHome
