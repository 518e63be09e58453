\* Deletes, replies that overtake each other or are lost, requests that are cut
\* short and renderings that fail; every clock is right.
CONSTANTS
    vpn = vpn
    mail = mail
    Devices = {1, 2}
    Ids = {vpn}
    Fast = {}
    Ahead = 2
    MayRefuse = TRUE
    MayFail = TRUE
    MaxClock = 2
    MaxRevision = 2
    MaxReplies = 1
SPECIFICATION Spec
INVARIANTS
    TypeOK
    LastWriteWins
    DeletedStaysDeleted
    RevisionMeansNews
CHECK_DEADLOCK FALSE
