SPECIFICATION Spec
CONSTANTS
    p1 = p1
    p2 = p2
    f = f
    g = g
    k1 = k1
    r1 = r1
    None = None
    Process <- MCProcess
    Input <- MCInput
    Key <- MCKey
    Recipient <- MCRecipient
    MaxCommands = 4
    MaxImports = 2
    MaxTiles = 2
    MaxKills = 1
ACTION_CONSTRAINT MCLateTools
SYMMETRY MCSymmetry
INVARIANTS
    TypeOK
    FinishedImportsStay
    TargetIsWhatWasImported
    SignaturesSurviveSigning
    ExportHasItsZooms
    OutputIsLicensed
    KeyOpensPackage
PROPERTY
    ExportsNeverChange
CHECK_DEADLOCK FALSE
