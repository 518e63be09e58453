\* One follower of a run that may fail, panic or be stopped; the daemon may die.
CONSTANTS
    a = a
    b = b
    w1 = w1
    k1 = k1
    Runs = {a}
    Subject <- MCSubject
    Claiming = {a}
    Stoppable = {a}
    Trailing = {}
    Watchers = {w1}
    Clients = {k1}
    FromSequence = {0, 1}
    Keep = 2
    MaxEvents = 2
    MaxRestarts = 1
    DiskFails = FALSE
SPECIFICATION ReadersSpec
INVARIANTS
    TrailerTruthful
    NothingMissed
    AnswersAgree
PROPERTIES
    WatchersEnd
CHECK_DEADLOCK FALSE
