SPECIFICATION MCSpec
CONSTANTS
    w1 = w1
    w2 = w2
    c1 = c1
    u1 = u1
    a = a
    b = b
    draft = draft
    r1 = r1
    None = None
    Worker <- MCWorker
    Cashier <- MCCashier
    User <- MCUser
    Path <- MCPath
    Content <- MCContent
    Sequence <- MCSequence
    MaxId = 2
    MaxRequests = 3
    MaxFaults = 1
    MaxSafety = 2
ACTION_CONSTRAINT MCEarlyFaults
SYMMETRY MCSymmetry
INVARIANTS
    TypeOK
    StampIdentifiesContent
    DownloadsWereAccepted
    PaidDownloadsAreBuyers
    CompletedIsPurchased
    OnePurchasePerItem
    TheLockIsReturned
PROPERTIES
    QuietScanRepairs
    KeepsLedger
CHECK_DEADLOCK FALSE
