\* Everybody gets a turn: what must happen happens, also when the last SMTP server goes,
\* a recipient is deleted and one unsubscribes.
SPECIFICATION FairSpec
CONSTANTS
    p1 = p1  p2 = p2  q1 = q1  q2 = q2
    Private <- OnePrivate
    Pool <- OnePool
    DailyLimit = 1
    BatchSize = 1
    MaxRetries = 1
    MaxSendErrors = 2
    SmtpAnswers <- Scarce
    MaxDay = 1
    MaxUserOps = 0
    MaxUnsubs = 1
    MaxRemovals = 1
    MaxSmtpRemovals = 1
    MaxFaults = 0
    MaxCrashes = 0
PROPERTIES RunningEnds FinishedIsSettled
\* A settled campaign has nothing left to do.
CHECK_DEADLOCK FALSE
