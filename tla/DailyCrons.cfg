SPECIFICATION FairSpec
CONSTANTS
    a = a
    sa = sa
    NoSlot = NoSlot
    Customers = {1, 2, 3, 5}
    Shoemakers = {4}
    Crons = {"daily", "shoemakers"}
    BatchSize = 2
    Workers = {a}
    Slots = {sa}
    WorkerOf <- MCWorkerOf
    MaxStalled = 1
    Faults = TRUE
    MaxTicks = 1
    MaxChanges = 2
    MaxStalls = 1
    MaxCrashes = 1
INVARIANTS
    TypeOK
    PagesFollowTheList
    PushesAreKept
PROPERTIES
    JobsEnd
CHECK_DEADLOCK FALSE
