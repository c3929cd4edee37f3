SPECIFICATION Spec
CONSTANTS
    alice = alice
    bob = bob
    Users <- MCUsers
    WALLET_CAP = 9
    DeployTime = 2
    startTime = 2
    InitialSaleBalance = 1
    MinWindow = 1
    MaxWindow = 2
    InitialAirdropBalance = 1
    TOTAL_SUPPLY = 5
    CLIFF = 2
    Amounts = {1, 2}
    InitialPool = 3
    MONTH = 1
    MaxTime = 4
    MaxAllocated = 3
    MaxRescued = 1
    saleCap = 2
    SaleStart = 3
    SaleEnd = 3
    WalletCaps = {1, 2}
    MinPurchases = {1}
    Cooldowns = {0}
    Windows <- OneWindow
    Roots <- TwoRoots
    AirdropCaps = {3}
    MAX_WINDOW_EXTENSION = 2
INVARIANTS
    SaleIsAccountedFor
PROPERTIES
    OneAirdropEach
    ClosedForGood
    ImplementsVesting
SYMMETRY Wallets
CHECK_DEADLOCK FALSE
