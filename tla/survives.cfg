\* An update of a campaign that starts between what the update read and its transaction.
SPECIFICATION PoolFairSpec
CONSTANTS
    Pools = {1, 2}
    Orgs = {1, 2}
    Contacts = {1, 2, 3}
    Home = 1
    Address <- SharedAddress
    Servers = {1, 2}
    NoServer = 0
    DailyLimit <- SmallQuotas
    MaxRetries = 1
    PoolBounds <- Overtaking
PROPERTIES HistorySurvives
CHECK_DEADLOCK FALSE
