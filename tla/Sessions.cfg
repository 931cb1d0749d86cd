\* An account with either of two passwords or none and an address without
\* account; tokens are presented again and again while they expire. A second is
\* two ticks, so that exp drops a fraction of it.
CONSTANTS
    Requests = {r1, r2, r3}
    Mailboxes = {m1, m2}
    Spellings = {FALSE}
    Seeds = {m1}
    Secrets = {s1, s2}
    Operations = {"login", "refresh", "logout", "add_role"}
    MaxBatch = 0
    accessTokenTTL = 2
    refreshTokenTTL = 1
    TicksPerSecond = 2
    MaxTime = 2
    None = None
SYMMETRY Symmetry
SPECIFICATION SessionsSpec
INVARIANTS
    SessionsTypeOK
    OwnerAuthenticated
    LoginRefusalJustified
    ClaimsWithinRoles
    GrantedRolesClaimed
    BearerLifetime
    RotationRevokesPresented
    RotatesOnlyLive
    FirstUseNotRefused
PROPERTIES
    ImplementsTokenLedger
