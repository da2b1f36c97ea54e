SPECIFICATION Spec
CONSTANTS
    a = a
    b = b
    Conns <- Settings
    Forms <- Submitted
    Good <- Works
    Customers <- Both
    Processes <- Two
    Threshold = 2
    MaxAttempts = 3
    MaxForwards = 2
    ScanBatch = 2
    Bounds <- Scenarios
INVARIANTS WellKept ForwardedOnce
PROPERTIES DecidedOnce
CHECK_DEADLOCK FALSE
