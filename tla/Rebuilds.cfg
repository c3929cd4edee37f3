SPECIFICATION MCSpec
CONSTANTS
    alice = alice
    bob = bob
    follow = follow
    cron = cron
    route = route
    share = share
    reviewer = reviewer
    None = None
    Participants <- MCParticipants
    Rebuilders <- CronAndRoute
    CronCallers <- CronOnly
    Approvers <- OneReviewer
    Tasks <- TwoTasks
    UserOf <- BothTasks
    PointsOf <- MCPointsOf
    InitialPoints <- TiedAtOnce
    TOKENS_PER_POINT = 2
    MaxFaults = 2
INVARIANTS
    PublishedRootsHaveProofs
    LoneSkipMeansInSync
    NoRootOverpays
PROPERTIES
    QuietRebuildRecovers
CHECK_DEADLOCK FALSE
