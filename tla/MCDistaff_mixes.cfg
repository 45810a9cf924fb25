SPECIFICATION MixSpec
CONSTANTS
    a = a
    b = b
    Anchors = {a, b}
    Scopes = {{a}, {b}, {a, b}}
    Tokens = 3
    Repairs = 2
    MaxRequests = 2
    Broken <- Alone
INVARIANTS
    EvidenceFresh
    OwnersAreActive
    InstallsEvidenced
CHECK_DEADLOCK FALSE
