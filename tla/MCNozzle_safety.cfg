SPECIFICATION Spec
CONSTANTS
    Workers = {w1, w2}
    NumEnvelopes = 5
    Kind <- EveryKind
    MaxBatch = 2
    MessagesCap = 1
    MetricsCap = 1
    LogsCap = 1
    NumClients = 1
    EnableApplicationLogs = TRUE
    LogIntakeConfigured = TRUE
SYMMETRY WorkerSymmetry
INVARIANTS
    TypeOK
    OnePlace
    TotalMatchesSnapshot
    StoppedBeforeFinalFlush
    TimeoutMeansRunning
    NothingLeftInCache
PROPERTY DeliveryPromise
