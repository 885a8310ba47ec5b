SPECIFICATION MutableSpec
CONSTANTS
    w1 = w1
    w2 = w2
    r1 = r1
    r2 = r2
    r3 = r3
    Worker = {w1}
    Request = {r1, r2}
    Tile = {t1}
    Threads = 2
    MaxInflight = 2
    MaxRelease = 2
    MaxCrashes = 0
    None = None
    Torn = Torn
PROPERTY
    MutableTilesAreRefreshed
