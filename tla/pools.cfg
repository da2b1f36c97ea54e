SPECIFICATION PoolFairSpec
CONSTANTS
    Pools = {1, 2}
    Orgs = {1, 2}
    Contacts = {1, 2, 3}
    Home = 1
    Address <- SharedAddress
    Servers = {1, 2}
    NoServer = 0
    DailyLimit <- SmallQuotas
    MaxRetries = 1
    PoolBounds <- Scenarios
INVARIANTS SnapshotExact FairRotation
PROPERTIES HistoryKept AnswersRight RunningSettles
CHECK_DEADLOCK FALSE
