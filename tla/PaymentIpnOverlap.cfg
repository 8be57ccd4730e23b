SPECIFICATION Spec
CONSTANTS
    o1 = o1
    o2 = o2
    w1 = w1
    h1 = h1
    h2 = h2
    a = a
    b = b
    NoRef = NoRef
    NoHandler = NoHandler
    Wallets = {w1}
    Handlers = {h1, h2}
    Workers = {a, b}
    WalletOf <- MCWalletOf
    Amount <- MCAmount
    Opening <- MCOpening
    WorkerOf <- MCWorkerOf
    Owner <- MCOwner
    Orders = {o1}
    Trips = {}
    Corrections = {}
    Markable = {}
    PoolSize = 2
    Overlap = TRUE
    Lag = FALSE
    Faults = FALSE
    Mismatch = FALSE
    MaxVerdicts = 2
    MaxDups = 1
    MaxCrashes = 0
    MaxCorrections = 0
INVARIANTS
    CreditedOnce
CHECK_DEADLOCK FALSE
