SPECIFICATION Spec
CONSTANTS
    cron = cron
    route = route
    instance0 = instance0
    instance1 = instance1
    Calls <- MCCalls
    Processes <- TwoProcesses
    ProcessOf <- RouteInInstance1
    ConfiguredStart = 0
    BatchSize = 2
    Lookback = 2
    ProviderWindow = 2
    PoisonBlocks = {5}
    HeadLag = 1
    InitialHead = 1
    MaxHead = 6
    MaxFaults = 1
INVARIANTS
    NoSilentLoss
    RunKeepsItsRange
PROPERTIES
    ImplementsLedger
