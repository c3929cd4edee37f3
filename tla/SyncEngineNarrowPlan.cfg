SPECIFICATION FairSpec
CONSTANTS
    cron = cron
    route = route
    instance0 = instance0
    instance1 = instance1
    Calls <- OneCall
    Processes <- OneProcess
    ProcessOf <- AllInInstance0
    ConfiguredStart = 0
    BatchSize = 2
    Lookback = 2
    ProviderWindow = 2
    PoisonBlocks = {}
    HeadLag = 0
    InitialHead = 4
    MaxHead = 5
    MaxFaults = 0
PROPERTIES
    RunEnds
