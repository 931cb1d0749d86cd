\* Two callbacks, with states up to an age past their limit and a clock of two
\* ticks a second, and two mailboxes without account.
CONSTANTS
    Requests = {r1, r2, r3}
    Mailboxes = {m1, m2}
    Spellings = {FALSE}
    Seeds = {}
    Secrets = {s1}
    Operations = {"google_start", "google_callback"}
    MaxBatch = 0
    CodeValues = {c1}
    verificationCodeTTL = 1
    maxVerificationAttempts = 1
    AuthCodes = {g1, g2}
    oauthStateTTL = 2
    accessTokenTTL = 1
    refreshTokenTTL = 1
    TicksPerSecond = 2
    MaxTime = 3
    None = None
SYMMETRY Symmetry
SPECIFICATION AuthSpec
INVARIANTS
    GoogleTypeOK
    StateGatesExchange
    GoogleSessionOwner
    GoogleRefusalJustified
