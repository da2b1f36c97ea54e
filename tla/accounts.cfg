SPECIFICATION Spec
CONSTANTS
    Users = {1, 2, 3, 4, 5, 6}
    Roles = {1, 2, 3, 4}
    NoRole = NoRole
    Requests = {1, 2, 3}
    Keys = {1, 2, 3, 4, 5}
    Workspaces = {0}
    MaxKeys = 2
    MaxTries = 2
    MaxFailures = 2
    Bounds <- Scenarios
INVARIANTS CacheCurrent SessionsEnd LinksOnce
PROPERTIES AdminKept
CHECK_DEADLOCK FALSE
