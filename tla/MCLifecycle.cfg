CONSTANTS
    o1 = o1
    o2 = o2
    q1 = q1
    q2 = q2
    Orgs = {o1, o2}
    Quotas = {q1, q2}
    QuotaOf <- OwnQuota
    OrgAnswers <- AllOrNone
    QuotaAnswers <- Q1OrAll
    NumPushes = 2
    MetricsCap = 1
    Configs <- SomeConfigs
    VersionRetries = 2
SPECIFICATION LifecycleSpec
INVARIANTS LifecycleTypeOK
PROPERTIES OrgsReported StartupEnds StreamRecovers ShutdownCompletes
CHECK_DEADLOCK FALSE
