\* A server that two pools share, with two messages a day, one attempt at a time
\* and two ticks between the attempts of a campaign.
SPECIFICATION FairSpec
CONSTANTS
    d1 = d1  d2 = d2  d3 = d3  d4 = d4  c1 = c1  c2 = c2  a = a  y = y  second = second
    Deliveries = {d1, d2, d3, d4}
    Campaigns = {c1, c2}
    NoCampaign = NoCampaign
    CampaignOf <- SharedCampaign
    Key <- SharedKey
    Servers = {a, y}
    System = System
    SystemServer = y
    Account = Account
    DailyLimit <- TwoMessagesOfA
    MaxConns = 2
    Ceilings = {second}
    CeilingLimit <- OnePerSecond
    CeilingLength <- OneTick
    Interval = 2
    MaxConcurrent = 1
    Hour = 9
    MaxClock = 6
    MaxPools = 4
    MaxUpdates = 1
    MaxDay = 2
    Bounds <- Scenarios
INVARIANTS HeldExact PoolsCurrent CeilingsHold
PROPERTIES WorkEnds
\* Calls end, and the bounds stop the rest.
CHECK_DEADLOCK FALSE
