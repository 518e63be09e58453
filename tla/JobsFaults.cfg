\* Two runs of one subject, a stoppable and a trailing one, with a disk that
\* may fail any write, a process that may die once, and room for one record.
CONSTANTS
    a = a
    b = b
    c = c
    Runs = {a, b}
    Subject <- MCSubject
    Claiming = {a, b}
    Stoppable = {a}
    Trailing = {a}
    Keep = 1
    MaxEvents = 1
    MaxRestarts = 1
    DiskFails = TRUE
SPECIFICATION FairSpec
INVARIANTS
    TypeOK
    ClaimExclusion
    RecordTruthful
    OnlyLiveRunsHold
PROPERTIES
    EveryRunEnds
    KeepsItsRecord
CHECK_DEADLOCK FALSE
