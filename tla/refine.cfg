\* Three recipients in batches of two through retry rounds, scarce SMTP quota, the
\* error threshold, midnight and a crash, against the ledger of deliveries.
SPECIFICATION Spec
CONSTANTS
    p1 = p1  p2 = p2  q1 = q1  q2 = q2
    Private <- TwoPrivate
    Pool <- OnePool
    DailyLimit = 2
    BatchSize = 2
    MaxRetries = 1
    MaxSendErrors = 3
    SmtpAnswers <- Scarce
    MaxDay = 1
    MaxUserOps = 0
    MaxUnsubs = 0
    MaxRemovals = 0
    MaxSmtpRemovals = 0
    MaxFaults = 0
    MaxCrashes = 1
SYMMETRY Symmetry
INVARIANTS NoWaitForNobody RoundOrder AtMostOnce
PROPERTIES ImplementsLedger
\* A settled campaign has nothing left to do.
CHECK_DEADLOCK FALSE
