SPECIFICATION AccountSpec
CONSTANTS
    d1 = d1
    d2 = d2
    d3 = d3
    k1 = k1
    empty = empty
    NoKey = NoKey
    NoRow = NoRow
    NoOrder = NoOrder
    Requests = {}
    Orders = {d1, d2, d3}
    AccountIds = {1, 2, 3, 4}
    MaxId = 4
    Keys = {k1, empty}
    EmptyKey = empty
    Opening <- MCOpening
    Calls = {}
    StatusChanges = {}
    OrderCalls <- SharedKeyDeposits
SYMMETRY Symmetry
INVARIANTS
    OneExecutionPerKey
