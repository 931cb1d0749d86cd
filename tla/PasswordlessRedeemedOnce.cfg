\* Two verifications race with the right code.
CONSTANTS
    Requests = {r1, r2, r3}
    Mailboxes = {m1}
    Spellings = {TRUE}
    Seeds = {}
    Secrets = {s1}
    Operations = {"request_code", "verify_code"}
    MaxBatch = 0
    CodeValues = {c1, c2}
    verificationCodeTTL = 1
    maxVerificationAttempts = 2
    accessTokenTTL = 1
    refreshTokenTTL = 1
    TicksPerSecond = 1
    MaxTime = 0
    None = None
SYMMETRY Symmetry
SPECIFICATION PasswordlessSpec
INVARIANTS
    RedeemedOnce
