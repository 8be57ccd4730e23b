\* Two accounts, two devices, two requests at a time, three in all.
CONSTANTS
    Accounts = {a1, a2}
    Tokens = {t1, t2}
    NoToken = NoToken
    Handlers = {h1, h2}
    MaxRequests = 3
SYMMETRY Symmetry
SPECIFICATION Spec
INVARIANTS
    TypeOK
    TokensAreCurrent
    PasswordIsSent
    ApprovalIsTold
CHECK_DEADLOCK FALSE
