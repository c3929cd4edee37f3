SPECIFICATION PlainSpec
CONSTANTS
    alice = alice
    bob = bob
    follow = follow
    share = share
    cron = cron
    route = route
    reviewer = reviewer
    None = None
    Participants <- MCParticipants
    Rebuilders <- CronOnly
    CronCallers <- CronOnly
    Approvers <- OneReviewer
    Tasks <- OneTask
    UserOf <- BobsTask
    PointsOf <- MCPointsOf
    InitialPoints <- Tied
    TOKENS_PER_POINT = 2
    MaxFaults = 0
INVARIANTS
    SkipMeansNoChange
CHECK_DEADLOCK FALSE
