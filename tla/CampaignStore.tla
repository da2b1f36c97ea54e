--------------------------- MODULE CampaignStore ---------------------------
(***************************************************************************)
(* The database side of one e-mail campaign: the row of `campaigns`, its   *)
(* rows of `campaign_recipients` and `campaign_pool_recipients`, the       *)
(* failure events of `campaign_send_errors` and today's row of             *)
(* `campaign_daily_usage`.                                                 *)
(*                                                                         *)
(* The module has no variables.  Every transaction of                      *)
(* cmd/manager_store.go, of queries/campaigns.sql and of the status        *)
(* handlers of internal/core is an operator from the record `db` before    *)
(* the transaction to the record after it.                                 *)
(***************************************************************************)
EXTENDS Integers, FiniteSets

CONSTANTS
    Private,     \* the customers of the campaign's snapshot
    Pool,        \* the public-pool contacts of the campaign's snapshot
    DailyLimit,  \* campaigns.daily_send_limit, after normalisation
    BatchSize,   \* cfg.BatchSize
    MaxRetries   \* smtp_delivery.max_recipient_retries

ASSUME StoreAssumption ==
    /\ Private \cap Pool = {}
    /\ IsFiniteSet(Private) /\ IsFiniteSet(Pool)
    /\ DailyLimit \in Nat \ {0}
    /\ BatchSize \in Nat \ {0}
    /\ MaxRetries \in Nat

Recipients == Private \cup Pool

CampaignStatuses ==
    {"draft", "scheduled", "running", "paused", "deferred", "finished", "cancelled"}

RecipientStatuses ==
    {"pending", "queued", "sent", "failed", "deferred", "cancelled"}

Unsent == {"pending", "queued", "deferred"}
Waiting == {"pending", "deferred"}

DB == [ status      : CampaignStatuses,
        sendAt      : BOOLEAN,               \* send_at IS NOT NULL
        resumeDay   : Nat,                   \* the local day of next_resume_at
        retryMode   : BOOLEAN,
        rcpt        : [Recipients -> RecipientStatuses],
        fails       : [Recipients -> Nat],   \* events in campaign_send_errors
        selected    : SUBSET Recipients,     \* retry_selected
        counted     : SUBSET Recipients,     \* still exist and belong to the owner
        deliverable : SUBSET Recipients,     \* counted, subscribed and not excluded
        sentToday   : Nat ]                  \* campaign_daily_usage of the local date

-----------------------------------------------------------------------------
(* Reading the rows. *)

In(db, statuses) == {r \in Recipients : db.rcpt[r] \in statuses}

\* campaign_send_counts: a deleted or transferred recipient keeps its row and
\* leaves the counts.
Counted(db, statuses) == In(db, statuses) \cap db.counted

SetRows(db, rows, to) ==
    [db EXCEPT !.rcpt = [r \in Recipients |-> IF r \in rows THEN to ELSE db.rcpt[r]]]

\* The first delivery plus MaxRetries further failures exhaust a recipient.
Exhausted(db, r) == db.fails[r] > MaxRetries

\* Mutant of RetryQueue: in-flight recipients do not take part in the round.
RetryQueueWaiting(db) ==
    {r \in In(db, Waiting) :
        /\ r \in db.deliverable
        /\ ~(db.fails[r] > MaxRetries)
        /\ db.retryMode => r \in db.selected}

\* Pending and in-flight recipients share one retry round over both sources.
RetryQueue(db) ==
    {r \in In(db, Unsent) :
        /\ r \in db.deliverable
        /\ ~Exhausted(db, r)
        /\ db.retryMode => r \in db.selected}

Claimable(db) ==
    {r \in RetryQueue(db) :
        /\ db.rcpt[r] \in Waiting
        /\ \A q \in RetryQueue(db) : db.fails[r] <= db.fails[q]}

\* SyncCampaignProgress: the live total against campaigns.sent, which only grows.
AllSent(db) == Cardinality(db.counted) <= Cardinality(In(db, {"sent"}))

-----------------------------------------------------------------------------
(* Claiming a batch. *)

Least(a, b) == IF a <= b THEN a ELSE b

\* Mutant of BatchLimit: the queued reservations are forgotten.
BatchLimitUnreserved(sentToday, queued, smtpLeft) ==
    LET left == DailyLimit - sentToday
    IN  IF left <= 0 \/ smtpLeft = 0
        THEN [deferred |-> TRUE, n |-> 0]
        ELSE [deferred |-> FALSE, n |-> Least(left, BatchSize)]

\* How many recipients may be queued, and whether successful sends have
\* exhausted the day.  smtpLeft = -1: the SMTP pool has no finite quota.
BatchLimit(sentToday, queued, smtpLeft) ==
    LET left  == DailyLimit - sentToday
        spare == IF smtpLeft >= 0 THEN Least(left - queued, smtpLeft) ELSE left - queued
    IN  IF left <= 0 \/ smtpLeft = 0
        THEN [deferred |-> TRUE, n |-> 0]
        ELSE [deferred |-> FALSE, n |-> IF spare <= 0 THEN 0 ELSE Least(spare, BatchSize)]

\* batch is what the two claiming queries may return under a limit of n:
\* private customers first, pool contacts for what they leave.  A campaign
\* that is not running claims nobody.
IsClaim(db, n, batch) ==
    LET open == IF db.status = "running" THEN Claimable(db) ELSE {}
        privates == Cardinality(batch \cap Private)
    IN  /\ batch \subseteq open
        /\ privates = Least(n, Cardinality(open \cap Private))
        /\ Cardinality(batch \cap Pool) = Least(n - privates, Cardinality(open \cap Pool))

Claim(db, batch) == SetRows(db, batch, "queued")

-----------------------------------------------------------------------------
(* What a worker writes for one recipient. *)

MarkSent(db, r) ==
    IF db.rcpt[r] = "sent"
    THEN db
    ELSE [SetRows(db, {r}, "sent") EXCEPT !.sentToday = @ + 1]

\* Mutant of MarkPending: a failed row is given back.
MarkPendingFailed(db, r) ==
    IF db.rcpt[r] = "sent" THEN db ELSE SetRows(db, {r}, "pending")

\* sent and failed are never overwritten.
MarkPending(db, r) ==
    IF db.rcpt[r] \in {"sent", "failed"} THEN db ELSE SetRows(db, {r}, "pending")

RecordFailure(db, r) ==
    LET counted == [db EXCEPT !.fails[r] = @ + 1]
    IN  IF counted.rcpt[r] \in Unsent /\ Exhausted(counted, r)
        THEN SetRows(counted, {r}, "failed")
        ELSE counted

-----------------------------------------------------------------------------
(* What the manager writes for the whole campaign. *)

\* Mutant of ResetQueued: the pool table is forgotten.
ResetQueuedPrivate(db, to) == SetRows(db, In(db, {"queued"}) \cap Private, to)

ResetQueued(db, to) == SetRows(db, In(db, {"queued"}), to)

\* The scanner's reset touches the private table only.
ResetPrivateQueued(db) == SetRows(db, In(db, {"queued"}) \cap Private, "pending")

ExhaustRetries(db) ==
    SetRows(db, {r \in In(db, Waiting) : Exhausted(db, r)}, "failed")

CancelUnsent(db) == SetRows(db, In(db, Unsent), "cancelled")

\* DeferCampaign on a running campaign; 0 rows otherwise (ErrCampaignNotRunning).
Defer(db, resume) ==
    [SetRows(db, In(db, {"pending"}), "deferred")
        EXCEPT !.status = "deferred", !.resumeDay = resume]

SetRunning(db) == [db EXCEPT !.status = "running"]

PauseRunning(db) ==
    IF db.status = "running" THEN [db EXCEPT !.status = "paused"] ELSE db

\* Mutant of FinishRunning: whatever the status is.
FinishAny(db) == [db EXCEPT !.status = "finished", !.retryMode = FALSE, !.selected = {}]

\* UpdateRunningCampaignStatus(finished): a targeted retry that leaves others
\* unsent returns to paused.
FinishRunning(db) ==
    IF db.status # "running"
    THEN db
    ELSE IF db.retryMode
         THEN [db EXCEPT !.status = IF Counted(db, Unsent) = {} THEN "finished" ELSE "paused",
                         !.retryMode = FALSE,
                         !.selected = {}]
         ELSE [db EXCEPT !.status = "finished"]

\* UpdateCampaignStatus(finished): no condition on the current status.
ForceFinished(db) == [db EXCEPT !.status = "finished"]

StartFailure(db, previous) ==
    IF db.status # "running"
    THEN db
    ELSE [ResetQueued(db, "pending") EXCEPT
            !.status = IF previous \in {"scheduled", "deferred"} THEN "draft" ELSE "paused",
            !.sendAt = FALSE]

-----------------------------------------------------------------------------
(* What users write. *)

MayBecome(db, to) ==
    CASE to = "draft"     -> db.status = "scheduled"
      [] to = "scheduled" -> db.status \in {"draft", "paused", "deferred"} /\ db.sendAt
      [] to = "running"   -> db.status \in {"paused", "draft", "deferred"}
      [] to = "paused"    -> db.status \in {"running", "deferred"}
      [] to = "cancelled" -> db.status \in {"running", "paused", "deferred"}
      [] OTHER            -> FALSE

\* Resuming a campaign that has a send time schedules it again, and cancelling
\* rewrites the private recipients only.
ManualStatus(db, to) ==
    LET fresh == to \in {"running", "scheduled", "cancelled"}
        moved == [db EXCEPT
            !.status    = IF to = "running" /\ db.sendAt THEN "scheduled" ELSE to,
            !.retryMode = IF fresh THEN FALSE ELSE @,
            !.selected  = IF fresh THEN {} ELSE @]
    IN  IF to = "cancelled"
        THEN SetRows(moved, In(db, Unsent) \cap Private, "cancelled")
        ELSE moved

\* Current failed recipients an operator may select for a targeted retry.
Retryable(db) ==
    {r \in In(db, Waiting) : db.fails[r] > 0 /\ r \in db.deliverable /\ ~Exhausted(db, r)}

RetrySelected(db, chosen) ==
    [db EXCEPT !.selected = chosen, !.retryMode = TRUE, !.status = "running"]

\* Removing the owner's last enabled SMTP server.
PauseForSMTP(db) ==
    IF db.status \notin {"running", "scheduled", "deferred"}
    THEN db
    ELSE [ResetQueued(db, "pending") EXCEPT
            !.status = IF db.status = "running" THEN "paused" ELSE "draft",
            !.sendAt = FALSE]

\* The customer or contact is deleted, or goes to another owner.
Remove(db, r) == [db EXCEPT !.counted = @ \ {r}, !.deliverable = @ \ {r}]

\* UnsubscribePoolByCampaign: the contact is excluded, its row is cancelled.
UnsubscribePool(db, r) ==
    [SetRows(db, {r} \cap In(db, Unsent), "cancelled") EXCEPT !.deliverable = @ \ {r}]

=============================================================================
