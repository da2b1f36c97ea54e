\* A private and a pool recipient under a user who starts, pauses, resumes,
\* cancels or retries up to twice while quota is scarce, and one step that fails,
\* against the life of the campaign.
SPECIFICATION Spec
CONSTANTS
    p1 = p1  p2 = p2  q1 = q1  q2 = q2
    Private <- OnePrivate
    Pool <- OnePool
    DailyLimit = 2
    BatchSize = 1
    MaxRetries = 1
    MaxSendErrors = 2
    SmtpAnswers <- Scarce
    MaxDay = 0
    MaxUserOps = 2
    MaxUnsubs = 0
    MaxRemovals = 0
    MaxSmtpRemovals = 0
    MaxFaults = 1
    MaxCrashes = 0
INVARIANTS IInv NoStrandedRow
PROPERTIES SettledForever OneStopOperation OldPipeLeavesAlone ImplementsLifecycle
\* A settled campaign has nothing left to do.
CHECK_DEADLOCK FALSE
