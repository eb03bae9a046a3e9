\* One component at a time, with two overlapping passes that may fail, and two
\* slots for the deposits.
CONSTANTS
    s1 = s1
    s2 = s2
    a1 = a1
    a2 = a2
    p1 = p1
    p2 = p2
    q1 = q1
    q2 = q2
    MaxHeight = 2
    Slots = {s1, s2}
    NoOne = NoOne
    MaxAttempts = 1
    Together <- OneByOne
    Passes = {q1, q2}
    MaxFailures = 1
    PageSize = 1
    MaxChanges = 3
    Absence = Absence
    Processes = {p1, p2}
    Scheduler = p1
    MaxTip = 2
    Window = 1
    MaxStops = 2
    MaxProposals = 1
    MaxVoters = 2
    MaxCast = 2
    OpenFor = {"deposit", "voting"}
    MaxValidator = 3
    MaxMoves = 2
    MaxDelegated = 2
    MaxDelegator = 2
    MaxShares = 1
    MaxSymbol = 2
    Stamp <- Hours
    MaxDeposit = 2
    DepositStates = {"success"}
    WithdrawalStates = {"unbonding"}
    Campaigns = {"c1", "c2"}
    Wallets = {"w1", "w2"}
    MaxMembers = 2
    MaxPool = 2
    MaxVersion = 2
    Time <- Times
    Limit = 1
    MaxQueries = 3
    Addresses = {a1, a2}
    Owner <- TwoOwners
    Amount <- Amounts
    Ranking = {p1}
SPECIFICATION ServicesSpec
INVARIANTS
    ServicesTypeOK
    OneIdPerHeight
    RowsAreCast
    LatestWithinMonth
    OneHourARow
    TwiceNeedsOverlap
    PagesMissNothing
    SteadyNeighbours
    KeptAreCounted
    RowFollowsChain
    IngestedMeansCurrent
PROPERTIES
    UnmovedIsCurrent
    LonePassIsCurrent
    UndisturbedGauges
    BackOnlyInOverlap
    BackOnlyIfOvertaken
CHECK_DEADLOCK FALSE
