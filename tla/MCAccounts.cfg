SPECIFICATION Spec
CONSTANTS
    w1 = w1
    w2 = w2
    root = root
    ann = ann
    bob = bob
    None = None
    Worker <- MCWorker
    Person <- MCPerson
    Root = root
    MaxId = 2
    MaxTokens = 2
    MaxRequests = 5
INVARIANTS
    TypeOK
    CredentialsSpeakForTheirHolder
    AdministratorsWereAppointed
    VerifiedWasConfirmed
PROPERTY
    RevocationIsPermanent
CHECK_DEADLOCK FALSE
