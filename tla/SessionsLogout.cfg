\* A logout whose statement fails.
CONSTANTS
    Requests = {r1, r2}
    Mailboxes = {m1}
    Spellings = {TRUE}
    Seeds = {m1}
    Secrets = {s1}
    Operations = {"login", "logout"}
    MaxBatch = 0
    accessTokenTTL = 1
    refreshTokenTTL = 1
    TicksPerSecond = 1
    MaxTime = 0
    None = None
SYMMETRY Symmetry
SPECIFICATION SessionsSpec
INVARIANTS
    LogoutRevokes
