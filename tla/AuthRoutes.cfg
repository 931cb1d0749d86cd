\* Any two requests, on all the routes, for a mailbox with an account and one
\* without; batches of up to two users. Liveness: no symmetry.
CONSTANTS
    Requests = {r1, r2}
    Mailboxes = {m1, m2}
    Spellings = {FALSE}
    Seeds = {m1}
    Secrets = {s1}
    Operations = {"login", "refresh", "logout", "add_role", "register", "bulk_create",
                  "request_code", "verify_code", "google_start", "google_callback"}
    MaxBatch = 2
    CodeValues = {c1}
    verificationCodeTTL = 1
    maxVerificationAttempts = 1
    AuthCodes = {g1}
    oauthStateTTL = 1
    accessTokenTTL = 1
    refreshTokenTTL = 1
    TicksPerSecond = 1
    MaxTime = 0
    None = None
SPECIFICATION CancellationSpec
INVARIANTS
    AccountsTypeOK
    ConflictJustified
    BatchAccountedFor
PROPERTIES
    AbandonedRequestsEnd
