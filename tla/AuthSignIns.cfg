\* Registrations, mailed codes and Google sign-ins race for a mailbox without
\* account; the clock stands still.
CONSTANTS
    Requests = {r1, r2, r3, r4}
    Mailboxes = {m1, m2}
    Spellings = {FALSE}
    Seeds = {}
    Secrets = {s1}
    Operations = {"login", "refresh", "logout", "add_role", "register", "request_code", "verify_code",
                  "google_start", "google_callback"}
    MaxBatch = 0
    CodeValues = {c1}
    verificationCodeTTL = 1
    maxVerificationAttempts = 1
    AuthCodes = {g1}
    oauthStateTTL = 1
    accessTokenTTL = 1
    refreshTokenTTL = 1
    TicksPerSecond = 1
    MaxTime = 0
    None = None
SYMMETRY Symmetry
VIEW View
SPECIFICATION AuthSpec
INVARIANTS
    OneAccountPerMailbox
    CreatedIsKept
    SessionOwnerProven
PROPERTIES
    AccountsPersist
