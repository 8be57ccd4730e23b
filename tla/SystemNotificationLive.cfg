SPECIFICATION FairSpec
CONSTANTS
    n1 = n1
    u1 = u1
    u2 = u2
    s1 = s1
    h1 = h1
    h2 = h2
    c1 = c1
    c2 = c2
    a = a
    b = b
    NoNotif = NoNotif
    NoConsumer = NoConsumer
    Notifs = {n1}
    Receivers = {"USER", "SHOEMAKER"}
    Customers = {u1, u2}
    Shoemakers = {s1}
    BatchSize = 1
    Handlers = {h1, h2}
    Consumers = {c1, c2}
    Workers = {a, b}
    WorkerOf <- MCWorkerOf
    MaxStalled = 1
    Overlap = FALSE
    Race = FALSE
    Lag = FALSE
    Faults = FALSE
    MaxRequests = 4
    MaxStalls = 1
    MaxCrashes = 0
INVARIANTS
    QuietIsDelivered
PROPERTIES
    SentIsKept
    CreatedIsDelivered
CHECK_DEADLOCK FALSE
