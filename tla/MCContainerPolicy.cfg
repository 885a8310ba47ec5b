SPECIFICATION Spec
CONSTANTS
    DefaultMedia = "image/png"
    Request <- MCRequest
    Process <- MCProcess
    p1 = p1
    p2 = p2
    time = time
    Variable = variable
    Dimension <- MCDimension
    Spelling <- MCSpelling
    Value <- MCValue
    Canonical <- MCCanonical
    Coordinates <- MCCoordinates
    Address = {a1}
    NoKey = NoKey
    NoJson = NoJson
    HandWritten = HandWritten
SYMMETRY MCProcessSymmetry
PROPERTY
    RegisteredBeforeWrite
