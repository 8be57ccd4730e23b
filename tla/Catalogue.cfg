SPECIFICATION Spec
CONSTANTS
    a = a
    b = b
    c = c
    i1 = i1
    i2 = i2
    i3 = i3
    h1 = h1
    h2 = h2
    Kinds = {"blog", "category", "product", "service", "option", "points", "admin"}
    Ids = {i1, i2, i3}
    NoRow = NoRow
    Names = {a, b, c}
    Folded <- MCFolded
    Preset = a
    Handlers = {h1, h2}
    Lag = TRUE
    MaxRows = 2
    MaxRequests = 2
SYMMETRY Symmetry
INVARIANTS
    TypeOK
    OneRowPerKey
    OrdersAreRanks
    OnePromoted
CHECK_DEADLOCK FALSE
