\* One container, a new version that crashes, and every plan; an agent that may
\* die whenever it works.
CONSTANTS
    web = web
    Images = {web}
    Broken = {1}
    MaxVersion = 1
    Plans <- MCPlans
    MaxLooks = 4
    InspectFails = TRUE
SPECIFICATION Spec
INVARIANTS
    TypeOK
    NothingPulledUnsaved
    RollbackHasACause
    TornOnlyBesideAnother
    GivenBack
PROPERTIES
    ReportTruthful
CHECK_DEADLOCK FALSE
