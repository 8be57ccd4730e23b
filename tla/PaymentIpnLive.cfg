SPECIFICATION FairSpec
CONSTANTS
    o1 = o1
    o2 = o2
    w1 = w1
    h1 = h1
    h2 = h2
    a = a
    b = b
    NoRef = NoRef
    NoHandler = NoHandler
    Wallets = {w1}
    Handlers = {h1, h2}
    Workers = {a, b}
    WalletOf <- MCWalletOf
    Amount <- MCAmount
    Opening <- MCOpening
    WorkerOf <- MCOneWorker
    Owner <- MCOwner
    Orders = {o1}
    Trips = {}
    Corrections = {}
    Markable = {}
    PoolSize = 3
    Overlap = TRUE
    Lag = TRUE
    Faults = FALSE
    Mismatch = FALSE
    MaxVerdicts = 2
    MaxDups = 1
    MaxCrashes = 0
    MaxCorrections = 0
PROPERTIES
    PaidIsCredited
    RequestsAnswered
CHECK_DEADLOCK FALSE
