SPECIFICATION Spec
CONSTANTS
    o1 = o1
    o2 = o2
    w1 = w1
    h1 = h1
    h2 = h2
    a = a
    b = b
    NoRef = NoRef
    NoHandler = NoHandler
    Wallets = {w1}
    Handlers = {h1, h2}
    Workers = {a, b}
    WalletOf <- MCWalletOf
    Amount <- MCAmount
    Opening <- MCOpening
    WorkerOf <- MCWorkerOf
    Owner <- MCOwner
    Orders = {o1}
    Trips = {}
    Corrections <- MCCorrections
    Markable = {o1}
    PoolSize = 2
    Overlap = TRUE
    Lag = TRUE
    Faults = TRUE
    Mismatch = TRUE
    MaxVerdicts = 2
    MaxDups = 1
    MaxCrashes = 1
    MaxCorrections = 1
INVARIANTS
    TypeOK
    LockIsSound
    CreditedWasPaid
    CreditAnnounced
    AckedIsAccounted
PROPERTIES
    LedgerSpec
