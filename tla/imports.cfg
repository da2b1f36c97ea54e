\* Two uploads of one name, a batch and a half each, with two failing steps and two
\* requests to stop.
SPECIFICATION FairSpec
CONSTANTS
    Sessions <- Two
    Files <- SameName
    Rows = 3
    CommitBatchSize = 2
    Bounds <- Troubles
INVARIANTS AuditExact
PROPERTIES SessionsSettle
\* Every upload may have ended.
CHECK_DEADLOCK FALSE
