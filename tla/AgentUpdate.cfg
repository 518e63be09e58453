\* Two applies, which may follow each other or overlap, two releases, two crashes.
CONSTANTS
    Applies = {1, 2}
    MaxVersion = 2
    MaxCrashes = 2
SPECIFICATION Spec
INVARIANTS
    TypeOK
    LiveIsWholeAndTested
PROPERTIES
    StartsReport
CHECK_DEADLOCK FALSE
