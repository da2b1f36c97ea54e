SPECIFICATION Spec
CONSTANTS
    m = m
    u = u
    v = v
    Users = {m, u, v}
    Managers = {m}
    Nobody = Nobody
    Root = Root
    None = None
    NoIssue = NoIssue
    Names = {1, 2, 3}
    Folders = {1, 2, 3, 4}
    Bounds <- Scenarios
INVARIANTS LibraryTree FilesKept StandsAlone
CHECK_DEADLOCK FALSE
