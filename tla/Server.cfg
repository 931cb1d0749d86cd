\* Up to three keys drawn, two key files lost, two requests that need not end.
CONSTANTS
    Requests = {r1, r2}
    Keys = {k1, k2, k3}
    Absent = Absent
    Torn = Torn
    None = None
    shutdownTimeout = 2
    MaxLosses = 2
SPECIFICATION ServerFairSpec
INVARIANTS
    ServerTypeOK
    KeysOutliveRestarts
    UnreadableOnlyAfterLoss
PROPERTIES
    DrainHonoured
    StopsWhenTold
