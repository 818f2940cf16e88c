SPECIFICATION Spec
CONSTANTS
    NumClients = 2
    MaxItems = 1
    MaxLosses = 1
    MaxCycles = 2
INVARIANT TotalMetricsExact
