SPECIFICATION MCSpec
CONSTANTS
    ann = ann
    ben = ben
    cron = cron
    manual = manual
    page = page
    eth = eth
    stable = stable
    unknown = unknown
    Buyers <- MCBuyers
    Indexers <- MCIndexers
    Fronts = {page}
    EventsPerRun = 2
    MaxLog = 3
    MaxCalls = 2
    MaxFaults = 1
    MaxPurchases = 2
    MaxPrice = 2
    Beneficiaries = {ann}
    GrantSizes = {2}
    PostedAmounts = {1, 2}
    FromBlock = 3
    ToBlock = 6
    MaxRetries = 2
    MaxAnswer = 2
    Chain = {1, 2, 3}
    EventBlocks <- MCEventBlocks
    Fetches = {"purchases", "vesting"}
    TypesOf <- MCTypesOf
    Unavailable = 0
    MAX_TIMESTAMP_CACHE = 2
    TIMESTAMP_CONCURRENCY = 2
INVARIANTS
    PurchasesMirrored
    VestingMirrored
    FetchesAreSound
    DashboardsInv
PROPERTIES
    UsdIsFinal
    MirrorsCatchUp
CHECK_DEADLOCK FALSE
