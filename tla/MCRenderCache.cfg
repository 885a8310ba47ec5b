SPECIFICATION Spec
CONSTANTS
    w1 = w1
    w2 = w2
    r1 = r1
    r2 = r2
    r3 = r3
    Worker <- MCWorker
    Request <- MCRequest
    Tile = {t1}
    Threads = 2
    MaxInflight = 2
    MaxRelease = 2
    MaxCrashes = 1
    None = None
    Torn = Torn
INVARIANTS
    TypeOK
    SlotsAreConserved
    MissesAreCoalesced
    RepliesAreTheirRelease
    CachedTilesAreTheirRelease
PROPERTY
    AdmittedIsAnswered
