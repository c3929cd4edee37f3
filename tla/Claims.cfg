SPECIFICATION MCSpec
CONSTANTS
    follow = follow
    join = join
    job = job
    claim1 = claim1
    claim2 = claim2
    claim3 = claim3
    claim4 = claim4
    gate = gate
    sweep = sweep
    sweep2 = sweep2
    lookup = lookup
    tx1 = tx1
    tx2 = tx2
    other = other
    ann = ann
    ben = ben
    tg1 = tg1
    tg2 = tg2
    tok1 = tok1
    tok2 = tok2
    upd1 = upd1
    upd2 = upd2
    NoTask = NoTask
    NoUser = NoUser
    NoToken = NoToken
    NoTelegram = NoTelegram
    VTasks <- MCTasks
    Jobs <- MCJobs
    Gates <- MCGates
    Claimants <- MCClaimants
    Sweeps <- MCSweeps
    Lookups <- MCLookups
    Casts <- MCCasts
    Attempts = 2
    Txs <- MCTxs
    AirdropTxs <- MCAirdropTxs
    TxOf <- MCTxOf
    LinkUsers <- MCLinkUsers
    Telegrams <- MCTelegrams
    Tokens <- MCTokens
    Updates <- MCUpdates
    MaxUpsets = 1
INVARIANTS
    GateIsLive
    ClaimsInv
    LinksInv
PROPERTIES
    NothingUnasked
    RevokedInTheEnd
CHECK_DEADLOCK FALSE
