\* Two overlapping passes of each cron, which may fail anywhere.
CONSTANTS
    a1 = a1
    a2 = a2
    p1 = p1
    p2 = p2
    Addresses = {a1}
    MaxDraws = 2
    Won <- WonByDraw
    Passes = {p1, p2}
    Firing <- OneByOne
    Depositing = {a1, a2}
    MaxDeposit = 2
    Owner <- TwoOwners
    Amount <- Amounts
SPECIFICATION SyncSpec
INVARIANTS SyncTypeOK RowsHaveTheirSource PassedIsStored LonePassReplacesAll
PROPERTIES RatioOnlyGrows
CHECK_DEADLOCK FALSE
