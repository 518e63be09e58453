\* One restore's worth of archives, a new version that crashes, and every plan;
\* an agent that may die, or lose patience, whenever it works.
CONSTANTS
    Original = original
    c1 = c1
    Copies = {c1}
    Empty = empty
    NoDir = nodir
    Broken = {1}
    MaxVersion = 1
    Plans <- MCPlans
SPECIFICATION Spec
INVARIANTS
    TypeOK
    NothingLost
    RestoreTakesEffect
    TornOnlyBesideAnother
    ComesBack
PROPERTIES
    OutcomeTruthful
CHECK_DEADLOCK FALSE
