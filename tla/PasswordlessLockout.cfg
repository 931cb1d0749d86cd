\* Three verifications race over the code of one request, for a mailbox that
\* has an account; the clock stands still.
CONSTANTS
    Requests = {r1, r2, r3, r4}
    Mailboxes = {m1}
    Spellings = {TRUE}
    Seeds = {m1}
    Secrets = {}
    Operations = {"request_code", "verify_code"}
    MaxBatch = 0
    CodeValues = {c1, c2}
    verificationCodeTTL = 1
    maxVerificationAttempts = 2
    accessTokenTTL = 1
    refreshTokenTTL = 1
    TicksPerSecond = 1
    MaxTime = 0
    None = None
SYMMETRY Symmetry
SPECIFICATION PasswordlessSpec
INVARIANTS
    PasswordlessTypeOK
    LockoutHolds
    RedeemedCodeRefusedLater
