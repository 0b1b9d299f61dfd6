SPECIFICATION MCSpec
CONSTANTS
    r1 = r1
    r2 = r2
    r3 = r3
    k1 = k1
    empty = empty
    NoKey = NoKey
    NoRow = NoRow
    Requests = {r1, r2, r3}
    Orders = {}
    AccountIds = {1, 2, 3, 4}
    MaxId = 4
    Keys = {k1, empty}
    EmptyKey = empty
    Opening <- MCOpening
    Calls <- MCCalls
    StatusChanges <- MCStatusChanges
INVARIANTS
    IndInv
    LedgerExplainsBalances
    PaperTrail
    OneTransferPerKey
    NoOverdraft
    Conservation
    OutcomesTruthful
    NoWaitCycle
PROPERTIES
    CommitsValidated
    ImplementsAtomicBank
    EveryCallReturns
