SPECIFICATION Spec
CONSTANTS
    cron = cron
    route = route
    instance0 = instance0
    instance1 = instance1
    Calls <- OneCall
    Processes <- OneProcess
    ProcessOf <- AllInInstance0
    ConfiguredStart = 1
    BatchSize = 2
    Lookback = 1
    ProviderWindow = 1
    PoisonBlocks = {}
    HeadLag = 0
    InitialHead = 6
    MaxHead = 6
    MaxFaults = 0
INVARIANTS
    SkippedBlocksStayRecorded
