\* Two secrets, two requests; no request is cut short and no rendering fails.
CONSTANTS
    vpn = vpn
    mail = mail
    Devices = {1, 2}
    Ids = {vpn, mail}
    Fast = {}
    Ahead = 2
    MayRefuse = FALSE
    MayFail = FALSE
    MaxClock = 3
    MaxRevision = 3
    MaxReplies = 1
SPECIFICATION Spec
INVARIANTS
    FileHoldsTheVault
CHECK_DEADLOCK FALSE
