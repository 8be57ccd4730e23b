SPECIFICATION Spec
CONSTANTS
    v1 = v1
    c1 = c1
    c2 = c2
    h1 = h1
    h2 = h2
    a = a
    b = b
    NoVoucher = NoVoucher
    VoucherIds = {v1}
    Customers = {c1, c2}
    FirstVerified = {c1}
    Handlers = {h1, h2}
    Workers = {a, b}
    WorkerOf <- MCWorkerOf
    Lag = TRUE
    Faults = TRUE
    MaxRequests = 4
    MaxUses = 2
    MaxCrashes = 1
INVARIANTS
    TypeOK
    NobodyHoldsNone
    GrantsAreCarriedOut
    HeldOnce
PROPERTIES
    UsedIsKept
CHECK_DEADLOCK FALSE
