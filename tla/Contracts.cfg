SPECIFICATION MCSpec
CONSTANTS
    alice = alice
    bob = bob
    Users <- MCUsers
    Amounts = {1, 3}
    TOTAL_SUPPLY = 7
    WALLET_CAP = 3
    InitialPool = 4
    DeployTime = 1
    startTime = 0
    CLIFF = 2
    MONTH = 1
    MaxTime = 5
    MaxAllocated = 6
    MaxRescued = 3
    deployer = deployer
    multisig = multisig
    timelock = timelock
    sale = sale
    airdrop = airdrop
    MINIMUM_DELAY = 2
    LockTime = 3
    MaxClock = 4
    MaxChanges = 2
    Proposals <- MCProposals
    eth = eth
    usd = usd
    Currencies = {eth, usd}
    Unit <- MCUnit
    WHOLE = 10
    PRICE_UNIT = 4
    fine = fine
    coarse = coarse
    Feeds = {fine, coarse}
    NoFeed = NoFeed
    FeedUnit <- MCFeedUnit
    Answers = {0, 2, 5}
    STALENESS_THRESHOLD = 0
    Prices = {5, 6}
    FirstTokenPrice = 5
    Payments = {1, 2, 3, 7}
    MaxBlock = 2
    MaxListed = 2
    treasury = treasury
    vestingPool = vestingPool
    airdropPool = airdropPool
    salePool = salePool
    pair = pair
    carol = carol
    pairs = {pair}
    people = {carol}
    TokenSupply = 4
    TokenCap = 1
    Minted <- MCMinted
    SaleIsMinted = FALSE
    Parcels = {1}
INVARIANTS
    PaysAsPromised
    BooksAreWhole
    KeysAreKept
    OracleIsFair
PROPERTIES
    VestedIsNeverTakenBack
    PowersAreBounded
    PayoutIsComplete
CHECK_DEADLOCK FALSE
