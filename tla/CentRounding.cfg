SPECIFICATION CentSpec
CONSTANTS
    AccountIds = {1, 2}
    MaxTransfers = 2
    Amounts = {4, 5, 10, 14, 15}
    Opening <- MCOpening
INVARIANT
    MoneyConserved
CHECK_DEADLOCK FALSE
