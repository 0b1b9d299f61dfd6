SPECIFICATION SystemSpec
CONSTANTS
    r1 = r1
    r2 = r2
    d1 = d1
    d2 = d2
    k1 = k1
    empty = empty
    NoKey = NoKey
    NoRow = NoRow
    NoOrder = NoOrder
    Requests = {r1, r2}
    Orders = {d1, d2}
    AccountIds = {1, 2, 3, 4}
    MaxId = 4
    Keys = {k1, empty}
    EmptyKey = empty
    Opening <- MCOpening
    Calls <- MCCalls
    StatusChanges = {}
    OrderCalls <- MCOrderCalls
SYMMETRY Symmetry
INVARIANTS
    HealthyBooks
