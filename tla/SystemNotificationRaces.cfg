SPECIFICATION Spec
CONSTANTS
    n1 = n1
    u1 = u1
    u2 = u2
    s1 = s1
    h1 = h1
    h2 = h2
    c1 = c1
    c2 = c2
    a = a
    b = b
    NoNotif = NoNotif
    NoConsumer = NoConsumer
    Notifs = {n1}
    Receivers = {"USER", "SHOEMAKER", "ALL"}
    Customers = {u1}
    Shoemakers = {s1}
    BatchSize = 1
    Handlers = {h1, h2}
    Consumers = {c1, c2}
    Workers = {a, b}
    WorkerOf <- MCWorkerOf
    MaxStalled = 1
    Overlap = TRUE
    Race = TRUE
    Lag = TRUE
    Faults = TRUE
    MaxRequests = 2
    MaxStalls = 2
    MaxCrashes = 1
INVARIANTS
    TypeOK
    RunsAreExclusive
    NobodyUnasked
CHECK_DEADLOCK FALSE
