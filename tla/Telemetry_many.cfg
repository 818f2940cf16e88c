SPECIFICATION Spec
CONSTANTS
    NumClients = 2
    MaxItems = 1
    MaxLosses = 2
    MaxCycles = 2
INVARIANTS
    TypeOK
    CountsAddUp
    TotalLogsExact
