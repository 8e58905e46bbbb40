SPECIFICATION VisitSpec
CONSTANTS
    MaxVariants = 3
    MaxAlternatives = 4
INVARIANTS
    EntryForHeld
    NoEntryUnused
