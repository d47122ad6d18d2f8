SPECIFICATION Spec
CONSTANTS
    GatewayLog <- MCLog
    Bindings <- MCBindings
    job = job
    operator = operator
    Traffics <- MCTraffics
    RefreshTimes = {8, 10}
    Passes <- MCPasses
    Collectors = {job, operator}
    Overlap = 2
    PageLimit = 1
    Lookback = 5
    Delay = 1
    MetricOverlap = 2
    MaxTime = 10
    MaxFaults = 1
PROPERTY FailuresAreKept
CHECK_DEADLOCK FALSE
