CONSTANTS
    x1 = x1
    x2 = x2
    x3 = x3
    Exports = {x1, x2, x3}
    NumRows = 3
    HighWater = 1
    PoolMax = 2
SPECIFICATION FairSpec
INVARIANTS
    JsonBeforeData
    CompletedIsWhole
PROPERTIES
    ConnectionReturnedUnlessEarly
    EveryExportEnds
CHECK_DEADLOCK FALSE
