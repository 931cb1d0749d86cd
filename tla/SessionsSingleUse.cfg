\* Two refreshes of the token of one login.
CONSTANTS
    Requests = {r1, r2, r3}
    Mailboxes = {m1}
    Spellings = {TRUE}
    Seeds = {m1}
    Secrets = {s1}
    Operations = {"login", "refresh"}
    MaxBatch = 0
    accessTokenTTL = 1
    refreshTokenTTL = 1
    TicksPerSecond = 1
    MaxTime = 0
    None = None
SYMMETRY Symmetry
SPECIFICATION SessionsSpec
INVARIANTS
    SingleUse
