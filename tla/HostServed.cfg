\* A restore of a service that is not stopped for it.
CONSTANTS
    Original = original
    c1 = c1
    Copies = {c1}
    Empty = empty
    NoDir = nodir
    Broken = {1}
    MaxVersion = 1
    Plans <- MCPlans
SPECIFICATION Spec
INVARIANTS
    RestoredIsServed
CHECK_DEADLOCK FALSE
