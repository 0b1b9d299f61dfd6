SPECIFICATION HistorySpec
CONSTANTS
    r1 = r1
    r2 = r2
    r3 = r3
    u1 = u1
    NoKey = NoKey
    NoRow = NoRow
    NoDate = NoDate
    NoAccount = NoAccount
    EmptyKey = EmptyKey
    Requests = {r1, r2, r3}
    Orders = {}
    AccountIds = {1, 2, 3, 4}
    MaxId = 4
    Keys = {}
    Clients = {u1}
    MaxNow = 2
    Opening <- MCOpening
    Calls <- MCCalls
    StatusChanges = {}
    Queries <- MCQueries
    Statements <- MCStatements
SYMMETRY Symmetry
INVARIANTS
    HistoryInv
    NothingSkipped
    PapersStayTrue
    PapersMatchLedger
