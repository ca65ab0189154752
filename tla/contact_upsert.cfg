CONSTANTS
    w1 = w1
    w2 = w2
    Writers = {w1, w2}
    p1 = p1
    p2 = p2
    p3 = p3
    Phones = {p1, p2, p3}
    e1 = e1
    e2 = e2
    e3 = e3
    Emails = {e1, e2, e3}
    NoEmail = NoEmail
    Seed = Seed
    Batches <- MCBatches
    SeedTables <- MCSeedTables
SPECIFICATION Spec
SYMMETRY MCSymmetry
INVARIANTS
    FreshBatchIsStored
    RerunAddsNothing
    ApartBatchesCommute
PROPERTIES
    KeysMoveOnlyOnMatch
    OptOutKept
