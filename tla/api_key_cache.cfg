CONSTANTS
    k1 = k1
    r1 = r1
    r2 = r2
    r3 = r3
    d1 = d1
    d2 = d2
    Keys = {k1}
    Requests = {r1, r2, r3}
    Deleters = {d1, d2}
    NoKey = NoKey
    TTL = 2
SPECIFICATION FairSpec
INVARIANTS
    CleanFlushIsFinal
PROPERTIES
    ClosedStaysClosed
    RevocationTakesEffect
