\* Two callbacks with one state, each with a code of its own.
CONSTANTS
    Requests = {r1, r2, r3}
    Mailboxes = {m1}
    Spellings = {FALSE}
    Seeds = {}
    Secrets = {s1}
    Operations = {"google_start", "google_callback"}
    MaxBatch = 0
    CodeValues = {c1}
    verificationCodeTTL = 1
    maxVerificationAttempts = 1
    AuthCodes = {g1, g2}
    oauthStateTTL = 1
    accessTokenTTL = 1
    refreshTokenTTL = 1
    TicksPerSecond = 1
    MaxTime = 0
    None = None
SYMMETRY Symmetry
SPECIFICATION AuthSpec
INVARIANTS
    StateUsedOnce
