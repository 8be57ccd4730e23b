\* Two workers on a database at any version, with a crash and a revert.
CONSTANTS
    w1 = w1
    w2 = w2
    Workers <- Pair
    Versions <- AllMigrations
    Starts <- AnyVersion
    MaxFaults = 1
    MaxReverts = 1
    MaxUpsets = 1
\* Once all workers serve, nothing is left to do.
CHECK_DEADLOCK FALSE
SYMMETRY Symmetry
SPECIFICATION Spec
INVARIANTS
    TypeOK
    RecordedIsApplied
    RecordsAreInOrder
    RacesTearNothing
    EntitiesFit
PROPERTIES
    RevertsAreExact
