SPECIFICATION Spec
CONSTANTS
    Workers = {w1, w2}
    NumEnvelopes = 3
    Kind <- LiveKind
    MaxBatch = 2
    MessagesCap = 1
    MetricsCap = 1
    LogsCap = 1
    NumClients = 2
    EnableApplicationLogs = TRUE
    LogIntakeConfigured = TRUE
PROPERTY AlertUnsetAfterSending
