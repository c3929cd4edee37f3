SPECIFICATION FairSpec
CONSTANTS
    cron = cron
    route = route
    instance0 = instance0
    instance1 = instance1
    Calls <- MCCalls
    Processes <- OneProcess
    ProcessOf <- AllInInstance0
    ConfiguredStart = 1
    BatchSize = 2
    Lookback = 2
    ProviderWindow = 3
    PoisonBlocks = {}
    HeadLag = 0
    InitialHead = 6
    MaxHead = 7
    MaxFaults = 2
PROPERTIES
    CheckpointNeverMovesBack
    RunEnds
    EveryBlockAccountedFor
