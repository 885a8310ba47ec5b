SPECIFICATION Spec
CONSTANTS
    p1 = p1
    p2 = p2
    Process <- MCProcess
    MaxCrashes = 1
INVARIANTS
    TypeOK
    MigratedIsComplete
    OpenedIsCurrent
    UnkilledMigrationsAreWhole
PROPERTIES
    RevisionNeverDecreases
    MigrationCompletes
