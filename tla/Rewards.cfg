SPECIFICATION MCSpec
CONSTANTS
    alice = alice
    bob = bob
    follow = follow
    share = share
    reviewer = reviewer
    second = second
    user = bob
    None = None
    TaskIds <- MCTasks
    AutoTasks <- AutoVerified
    Reviewers <- MCReviewers
    Worths = {1, 2}
    FirstWorths = {1}
    MaxSubmits = 2
    MaxUpsets = 1
    strict = strict
    walletLimit = walletLimit
    Addresses <- MCPeople
    NoAddress = None
    Clients = {"c"}
    Limiters = {strict, walletLimit}
    MaxOf <- MCMaxOf
    Window = 2
    Keys = {"k", "m"}
    ClaimRequests = {1, 2}
    MaxTime = 4
    MaxLapses = 1
    Rows <- MCTasks
    NoRow = None
    MaxCalls = 4
    MaxSwitches = 3
    Visitors <- MCPeople
    NoVisitor = None
    CardTasks <- MCTasks
    NoTask = None
    MaxVisits = 2
    MaxAsked = 4
    Guests <- MCPeople
    NoGuest = None
    MaxGuests = 2
    MaxLinks = 3
    MaxRequests = 6
    Scans = {1, 2}
    Cluster = 2
    MaxCohort = 2
SYMMETRY EitherReviewer
INVARIANTS
    RewardsInv
    GateInv
    AdminPagesInv
    VisitorPagesInv
    FraudInv
CHECK_DEADLOCK FALSE
