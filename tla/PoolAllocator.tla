--------------------------- MODULE PoolAllocator ---------------------------
(***************************************************************************)
(* The campaign of PoolAudience at work: the scanner refreshes its pools   *)
(* and loads it, the pipe claims recipients, for Home alone or in turn for *)
(* the organizations of the rotation (nextPoolCustomers), workers check    *)
(* each message once more and send it, and the pipe is cleaned up.         *)
(*                                                                         *)
(* Retries, faults and crashes of this machinery are in CampaignSender;    *)
(* here a pause and the stop of the pipe are one step, statements do not   *)
(* fail, and the campaign has pool recipients only.                        *)
(***************************************************************************)
EXTENDS PoolAudience

CONSTANTS
    DailyLimit,     \* messages a day of each server; 0 is no limit
    MaxRetries      \* max_recipient_retries

ASSUME AllocatorAssumption ==
    /\ Servers \subseteq Nat /\ IsFiniteSet(Servers)
    /\ DailyLimit \in [Servers -> Nat]
    /\ MaxRetries \in Nat

VARIABLES
    enabled,    \* the sender's servers that are enabled
    usage,      \* user_smtp_daily_usage of today
    cursor,     \* org_pool_smtp_cursors
    turn,       \* campaigns.pool_next_org_index
    failures,   \* campaign_send_errors per recipient
    scan,       \* the scanner: whether it has the campaign, and the pools it has yet to refresh
    pipe,       \* the pipe and its scheduler reference
    flight,     \* messages handed to workers: contact, sender, how far, and which attempt
    due,        \* next_resume_at has passed
    delivered,  \* history: messages accepted per contact
    passed      \* history: how often others were served while an organization waited

sendVars == <<enabled, usage, cursor, turn, failures, scan, pipe, flight, due, delivered, passed>>
poolVars == <<audienceVars, sendVars>>

NoPipe == [at |-> "none", stop |-> "none", deferred |-> FALSE, progress |-> FALSE,
           queued |-> 0, limit |-> 0]

TypeOK ==
    /\ AudienceTypeOK
    /\ enabled \subseteq Servers
    /\ usage \in [Servers -> Nat]
    /\ cursor \in [Orgs -> Servers \cup {NoServer}]
    /\ turn \in 0..Cardinality(Orgs)
    /\ failures \in [Contacts -> Nat]
    /\ scan \in [on : BOOLEAN, pools : SUBSET Pools]
    /\ pipe \in [at : {"none", "open", "claim", "waiting", "ending"},
                 stop : {"none", "pause", "smtp", "deferred"}, deferred : BOOLEAN,
                 progress : BOOLEAN, queued : Nat, limit : Nat]
    /\ flight \subseteq Contacts \X (Servers \cup {NoServer}) \X {"queued", "accepted"} \X Nat
    /\ due \in BOOLEAN
    /\ delivered \in [Contacts -> Nat]
    /\ passed \in [Orgs -> [Orgs -> Nat]]

PoolInit ==
    /\ AudienceInit
    /\ enabled = Servers
    /\ usage = [s \in Servers |-> 0]
    /\ cursor = [o \in Orgs |-> NoServer]
    /\ turn = 0
    /\ failures = [k \in Contacts |-> 0]
    /\ scan = [on |-> FALSE, pools |-> {}]
    /\ pipe = NoPipe
    /\ flight = {}
    /\ due = FALSE
    /\ delivered = [k \in Contacts |-> 0]
    /\ passed = [o \in Orgs |-> [x \in Orgs |-> 0]]

-----------------------------------------------------------------------------
(* The rules the claim reads. *)

Exhausted(k) == failures[k] > MaxRetries
HasQuota(s) == s \in enabled /\ (DailyLimit[s] = 0 \/ usage[s] < DailyLimit[s])
Unsent == {k \in Contacts : row[k].status \in {"pending", "queued"} /\ contact[k] # "deleted"}
QueuedRows == {k \in Contacts : row[k].status = "queued"}

\* Mutant of RetryQueue: unavailable recipients hold up the round.
RetryQueueAll == {k \in Contacts : row[k].status \in {"pending", "queued"} /\ ~Exhausted(k)}

\* campaign_retry_queue.
RetryQueue ==
    {k \in Contacts : row[k].status \in {"pending", "queued"} /\ Available(k) /\ ~Exhausted(k)}

Round == IF RetryQueue = {} THEN 0 ELSE Min({failures[k] : k \in RetryQueue})

\* What a claim may take, before rounds.
MayClaim == {k \in Contacts : row[k].status = "pending" /\ Available(k) /\ ~Exhausted(k)}

\* get-campaign-pool-smtp-remaining, and the same sum for an account.
SmtpUnlimited == enabled = {} \/ \E s \in enabled : DailyLimit[s] = 0
SmtpRemaining == Cardinality(UNION {{s} \X ((usage[s] + 1)..DailyLimit[s]) : s \in enabled})

-----------------------------------------------------------------------------
(* Users and operators. *)

Allocated(p) == {o \in Orgs : allocation[p][o] # "none"}

\* ValidatePoolCampaignAudience and requireCampaignSMTPAvailable.
Sendable ==
    /\ enabled # {} /\ audience # {}
    /\ IF AllScope
       THEN \A p \in audience :
                Allocated(p) # {} /\ \A o \in Allocated(p) : org[o] = "active"
       ELSE \A p \in audience : Home \in Allocated(p)

Controls ==
    /\ budget.controls > 0
    /\ budget' = [budget EXCEPT !.controls = @ - 1]
    /\ UNCHANGED <<masterVars, audience, order, row, editor, bound, fresh, lossVars>>

Start ==
    /\ Controls
    /\ camp \in {"draft", "paused"} /\ Sendable
    /\ camp' = "running"
    /\ UNCHANGED sendVars

Stopped(reason) == [pipe EXCEPT !.stop = IF pipe.at # "none" /\ @ = "none" THEN reason ELSE @]

Pause ==
    /\ Controls
    /\ camp \in {"running", "deferred"}
    /\ camp' = "paused"
    /\ pipe' = [pipe EXCEPT !.stop = IF pipe.at = "none" THEN @ ELSE "pause"]
    /\ UNCHANGED <<enabled, usage, cursor, turn, failures, scan, flight, due, delivered, passed>>

\* A server is disabled; without any, running campaigns of the sender pause.
RemoveServer(s) ==
    /\ Controls
    /\ s \in enabled
    /\ enabled' = enabled \ {s}
    /\ LET pauses == enabled' = {} /\ camp = "running"
       IN  /\ camp' = IF pauses THEN "paused" ELSE camp
           /\ pipe' = IF pauses THEN Stopped("smtp") ELSE pipe
    /\ UNCHANGED <<usage, cursor, turn, failures, scan, flight, due, delivered, passed>>

\* Midnight, and the resume time after it.
NextDay ==
    /\ budget.days > 0 /\ camp \in {"running", "deferred"}
    /\ budget' = [budget EXCEPT !.days = @ - 1]
    /\ usage' = [s \in Servers |-> 0]
    /\ due' = (camp = "deferred")
    /\ UNCHANGED <<masterVars, campVars, bound, fresh, lossVars, enabled, cursor, turn,
                   failures, scan, pipe, flight, delivered, passed>>

-----------------------------------------------------------------------------
(* The scanner. *)

\* NextCampaigns selects the campaign, unless it has a pipe.
ScanSelect ==
    /\ ~scan.on /\ pipe.at = "none"
    /\ camp = "running" \/ (camp = "deferred" /\ due)
    /\ scan' = [on |-> TRUE, pools |-> audience]
    /\ UNCHANGED <<audienceVars, enabled, usage, cursor, turn, failures, pipe, flight, due,
                   delivered, passed>>

\* An unresolved selection, without an allocation of Home, keeps its rows.
Resolved(p) == AllScope \/ Home \in Allocated(p)

\* EnsurePoolCampaignRecipients, one pool at a time; each is a transaction.
ScanRefresh ==
    /\ scan.on /\ scan.pools # {}
    /\ LET p == Min(scan.pools)
       IN  /\ row' = IF Resolved(p) THEN [k \in Contacts |-> Refreshed(k, row[k], order, p)]
                     ELSE row
           /\ scan' = [scan EXCEPT !.pools = @ \ {p}]
           /\ fresh' = fresh \cup {p}
    /\ UNCHANGED <<masterVars, camp, audience, order, editor, bound, lossVars, budget, enabled,
                   usage, cursor, turn, failures, pipe, flight, due, delivered, passed>>

\* The campaign is claimed, exhausted recipients fail, and a pipe is opened unless
\* nothing is left.
ScanLoad ==
    /\ scan.on /\ scan.pools = {}
    /\ scan' = [scan EXCEPT !.on = FALSE]
    /\ LET exhausted == {k \in Contacts : row[k].status = "pending" /\ Exhausted(k)}
       IN  /\ row' = [k \in Contacts |-> IF k \in exhausted
                                         THEN [row[k] EXCEPT !.status = "failed"] ELSE row[k]]
           /\ \/ /\ camp \in {"running", "deferred"} /\ Unsent \ exhausted = {}
                 /\ camp' = "finished" /\ pipe' = pipe
              \/ /\ camp \in {"running", "deferred"} /\ Unsent \ exhausted # {}
                 /\ camp' = "running" /\ pipe' = [NoPipe EXCEPT !.at = "open"]
    /\ due' = FALSE
    /\ UNCHANGED <<masterVars, audience, order, editor, bound, budget, fresh, lossVars, enabled,
                   usage, cursor, turn, failures, flight, delivered, passed>>

\* Somebody paused it meanwhile; the pause stands.
ScanSkip ==
    /\ scan.on /\ scan.pools = {}
    /\ camp \notin {"running", "deferred"}
    /\ scan' = [scan EXCEPT !.on = FALSE]
    /\ UNCHANGED <<audienceVars, enabled, usage, cursor, turn, failures, pipe, flight, due,
                   delivered, passed>>

-----------------------------------------------------------------------------
(* The pipe asks for a batch. *)

\* It reads the state of the campaign and what its servers have left.
PipeRead ==
    /\ pipe.at = "open"
    /\ LET ends == pipe.stop # "none" \/ camp # "running" \/ Unsent = {}
           out == ~SmtpUnlimited /\ SmtpRemaining = 0
       IN  /\ pipe' = IF ends THEN [pipe EXCEPT !.at = "ending"]
                      ELSE IF out THEN [pipe EXCEPT !.at = "ending", !.deferred = TRUE]
                      ELSE [pipe EXCEPT !.at = "claim", !.queued = Cardinality(QueuedRows),
                                        !.limit = IF SmtpUnlimited THEN bound.batch
                                                  ELSE Min({bound.batch, SmtpRemaining})]
           /\ camp' = IF ~ends /\ out THEN "deferred" ELSE camp
           /\ due' = IF ~ends /\ out THEN FALSE ELSE due
    /\ UNCHANGED <<masterVars, audience, order, row, editor, bound, budget, fresh, lossVars,
                   enabled, usage, cursor, turn, failures, scan, flight, delivered, passed>>

\* Which attempt a claim begins: messages of one contact that are on their way at the
\* same time are different messages.
Attempt(k) == failures[k] + lost[k]

\* What the pipe does with a batch that may be empty.
Answered(taken, blocked) ==
    /\ flight' = flight \cup taken
    /\ LET defers == taken = {} /\ pipe.queued = 0 /\ blocked
       IN  /\ pipe' = IF taken # {} THEN [pipe EXCEPT !.at = "open"]
                      ELSE IF pipe.queued > 0 THEN [pipe EXCEPT !.at = "waiting"]
                      ELSE IF defers /\ camp = "running"
                      THEN [pipe EXCEPT !.at = "ending", !.deferred = TRUE]
                      ELSE IF defers /\ pipe.stop = "none"
                      THEN [pipe EXCEPT !.at = "ending", !.stop = "pause"]
                      ELSE [pipe EXCEPT !.at = "ending"]
           /\ camp' = IF defers /\ camp = "running" THEN "deferred" ELSE camp
           /\ due' = IF defers /\ camp = "running" THEN FALSE ELSE due

\* queue-campaign-pool-customers: the first of the round, by id; the sender is
\* chosen when a message is sent.
ClaimOwn ==
    /\ pipe.at = "claim" /\ ~AllScope
    /\ LET ready == {k \in MayClaim : failures[k] = Round /\ camp = "running"}
           taken == {k \in ready : Cardinality({x \in ready : x < k}) < pipe.limit}
       IN  /\ row' = [k \in Contacts |-> IF k \in taken
                                         THEN [row[k] EXCEPT !.status = "queued"] ELSE row[k]]
           /\ Answered({<<k, NoServer, "queued", Attempt(k)>> : k \in taken}, FALSE)
    /\ UNCHANGED <<masterVars, audience, order, editor, bound, budget, fresh, lossVars, enabled,
                   usage, cursor, turn, failures, scan, delivered, passed>>

-----------------------------------------------------------------------------
(* One batch for every organization: nextPoolCustomers. *)

Members == {o \in Orgs : org[o] = "active" /\ \E p \in audience : o \in Allocated(p)}

\* ensurePoolOrgOrders: organizations that lost their allocations leave the
\* rotation, new ones are appended in any order.
Orders == {turns \in SetToSeqs(Members) : \A o, x \in Members :
              Contains(order, o) /\ Rank(order, o) < Rank(order, x) => Rank(turns, o) < Rank(turns, x)}

\* pickPoolOrgSMTP: the first server with quota after the cursor, in turn; a cursor
\* whose server is gone starts from the beginning.
PickServer(c) ==
    LET ready == {s \in enabled : HasQuota(s)}
        after == {s \in ready : c \in enabled /\ s > c}
    IN  IF ready = {} THEN NoServer ELSE IF after # {} THEN Min(after) ELSE Min(ready)

\* A recipient keeps its server while that may be used and has quota.
Sender(k, c) == IF HasQuota(row[k].sender) THEN row[k].sender ELSE PickServer(c)

\* Whom the claim may take for o, the one it takes, and whether there is a server.
ReadyOf(o) == {k \in MayClaim : row[k].org = o /\ failures[k] = Round}
FirstOf(o) == Min(ReadyOf(o))
ServerOf(o) == Sender(FirstOf(o), cursor[o])
Serves(o) == ReadyOf(o) # {} /\ ServerOf(o) # NoServer

\* The i-th visit is to this organization, counted from where the last batch stopped.
At(turns, i) == turns[((turn + i) % Len(turns)) + 1]

\* The batch ends when it is full, or after one turn of the rotation.
Visits(turns) ==
    Min({n \in 0..Len(turns) :
            \/ n = Len(turns)
            \/ Cardinality({i \in 0..(n - 1) : Serves(At(turns, i))}) >= pipe.limit})

\* The visits that claim a recipient.
ServedVisits(turns) == {i \in 0..(Visits(turns) - 1) : Serves(At(turns, i))}

\* History: who is served passes everyone else in the rotation who has something to
\* claim.  It starts again with another rotation, when nobody waits, and when one is
\* served oneself.
Passed(turns, visits) ==
    LET served == {At(turns, i) : i \in visits}
        claimed == {FirstOf(o) : o \in served}
        ServedSince(x, y) ==
            \E i \in visits : At(turns, i) = y /\ \A j \in visits : At(turns, j) = x => j < i
    IN  [x \in Orgs |-> [y \in Orgs |->
            IF x \notin Members \/ (visits # {} /\ ReadyOf(x) \subseteq claimed) THEN 0
            ELSE (IF turns = order /\ x \notin served THEN passed[x][y] ELSE 0)
               + (IF ServedSince(x, y) THEN 1 ELSE 0)]]

\* Mutant of NextTurn: every batch starts from the first organization.
NextTurnFirst(turns) == 0

NextTurn(turns) == (turn + Visits(turns)) % Len(turns)

\* A recipient is claimed for each organization that is served, and given its server.
ClaimAll ==
    /\ pipe.at = "claim" /\ AllScope
    /\ Members # {} /\ enabled # {}
    /\ \E turns \in Orders : \E visits \in {ServedVisits(turns)} :
        LET served == {At(turns, i) : i \in visits}
            taken == {FirstOf(o) : o \in served}
            blocked == \E i \in 0..(Visits(turns) - 1) :
                            ReadyOf(At(turns, i)) # {} /\ ServerOf(At(turns, i)) = NoServer
        IN  /\ order' = turns
            /\ turn' = NextTurn(turns)
            /\ passed' = Passed(turns, visits)
            /\ cursor' = [o \in Orgs |->
                    IF o \in served /\ row[FirstOf(o)].sender # ServerOf(o)
                    THEN ServerOf(o) ELSE cursor[o]]
            /\ row' = [k \in Contacts |->
                    IF k \in taken
                    THEN [row[k] EXCEPT !.status = "queued", !.sender = ServerOf(row[k].org)]
                    ELSE row[k]]
            /\ Answered({<<k, ServerOf(row[k].org), "queued", Attempt(k)>> : k \in taken}, blocked)
    /\ UNCHANGED <<masterVars, audience, editor, bound, budget, fresh, lossVars, enabled, usage,
                   failures, scan, delivered>>

\* Nobody to rotate over, or no server at all: rolled back, and the pipe stops.
ClaimUnavailable ==
    /\ pipe.at = "claim" /\ AllScope
    /\ Members = {} \/ enabled = {}
    /\ pipe' = [Stopped("smtp") EXCEPT !.at = "ending"]
    /\ UNCHANGED <<audienceVars, enabled, usage, cursor, turn, failures, scan, flight, due,
                   delivered, passed>>

\* waitForProgress.
PipeWake ==
    /\ pipe.at = "waiting"
    /\ \/ pipe.progress /\ pipe' = [pipe EXCEPT !.at = "open", !.progress = FALSE]
       \/ pipe.stop # "none" /\ pipe' = [pipe EXCEPT !.at = "ending"]
    /\ UNCHANGED <<audienceVars, enabled, usage, cursor, turn, failures, scan, flight, due,
                   delivered, passed>>

-----------------------------------------------------------------------------
(* Workers. *)

\* Mutant of Done: nobody is woken.
DoneSilent(p) == p

\* A message is done; waking the pipe comes after its result is written.
Done(p) == [p EXCEPT !.progress = TRUE]

\* RecordCampaignSendFailure, which also settles a recipient that is exhausted.
Recorded(k) ==
    /\ failures' = [failures EXCEPT ![k] = @ + 1]
    /\ row' = [row EXCEPT ![k].status =
                IF @ \in {"pending", "queued"} /\ failures'[k] > MaxRetries THEN "failed" ELSE @]

SendUnchanged == UNCHANGED <<masterVars, audience, order, editor, bound, lossVars, cursor, turn,
                             scan, passed, enabled>>

\* The pipe was stopped before a worker looked at the message.
DropMessage(k, s, n) ==
    /\ <<k, s, "queued", n>> \in flight /\ pipe.stop # "none"
    /\ flight' = flight \ {<<k, s, "queued", n>>}
    /\ pipe' = Done(pipe)
    /\ SendUnchanged /\ UNCHANGED <<camp, row, budget, fresh, usage, failures, due, delivered>>

Sending(k, s, n) == <<k, s, "queued", n>> \in flight /\ pipe.stop = "none"

\* ValidateCampaignReplyRoute: who is not available any more fails, and the whole
\* campaign pauses.
RouteClosed(k, s, n) ==
    /\ Sending(k, s, n) /\ ~Available(k)
    /\ flight' = flight \ {<<k, s, "queued", n>>}
    /\ Recorded(k)
    /\ pipe' = Done(Stopped("pause"))
    /\ SendUnchanged /\ UNCHANGED <<camp, budget, fresh, usage, due, delivered>>

\* The servers a message may go through: its own, or any of the sender.
Usable(s) == IF AllScope THEN {s} \cap enabled ELSE enabled
MaySend(k, s, n) == Sending(k, s, n) /\ Available(k)

\* The assigned server, or the last of the sender, is disabled.
ServerGone(k, s, n) ==
    /\ MaySend(k, s, n) /\ Usable(s) = {}
    /\ flight' = flight \ {<<k, s, "queued", n>>}
    /\ Recorded(k)
    /\ pipe' = Done(Stopped("smtp"))
    /\ SendUnchanged /\ UNCHANGED <<camp, budget, fresh, usage, due, delivered>>

\* The servers have no quota left today: DeferImmediately.
QuotaSpent(k, s, n) ==
    /\ MaySend(k, s, n) /\ Usable(s) # {} /\ \A t \in Usable(s) : ~HasQuota(t)
    /\ flight' = flight \ {<<k, s, "queued", n>>}
    /\ LET defers == ~pipe.deferred /\ camp = "running"
       IN  /\ camp' = IF defers THEN "deferred" ELSE camp
           /\ due' = IF defers THEN FALSE ELSE due
           /\ pipe' = Done(IF defers \/ pipe.deferred
                           THEN [Stopped("deferred") EXCEPT !.deferred = TRUE]
                           ELSE Stopped("pause"))
    /\ SendUnchanged /\ UNCHANGED <<row, budget, fresh, usage, failures, delivered>>

\* The server accepts the message.
Accept(k, s, t, n) ==
    /\ MaySend(k, s, n) /\ t \in Usable(s) /\ HasQuota(t)
    /\ flight' = (flight \ {<<k, s, "queued", n>>}) \cup {<<k, s, "accepted", n>>}
    /\ usage' = [usage EXCEPT ![t] = @ + 1]
    /\ delivered' = [delivered EXCEPT ![k] = @ + 1]
    /\ SendUnchanged /\ UNCHANGED <<camp, row, budget, fresh, failures, pipe, due>>

\* markCampaignMessageSent, also for a row that was cancelled meanwhile.
MarkSent(k, s, n) ==
    /\ <<k, s, "accepted", n>> \in flight
    /\ flight' = flight \ {<<k, s, "accepted", n>>}
    /\ row' = [row EXCEPT ![k].status = IF @ = "none" THEN @ ELSE "sent"]
    /\ pipe' = Done(pipe)
    /\ SendUnchanged /\ UNCHANGED <<camp, budget, fresh, usage, failures, due, delivered>>

\* The server refuses: the failure is recorded, and the recipient waits for a later
\* round unless it is exhausted.
Refuse(k, s, n) ==
    /\ MaySend(k, s, n) /\ \E t \in Usable(s) : HasQuota(t)
    /\ budget.refusals > 0
    /\ budget' = [budget EXCEPT !.refusals = @ - 1]
    /\ flight' = flight \ {<<k, s, "queued", n>>}
    /\ failures' = [failures EXCEPT ![k] = @ + 1]
    /\ row' = [row EXCEPT ![k].status =
                IF @ \in {"none", "sent", "failed"} THEN @
                ELSE IF @ # "cancelled" /\ failures'[k] > MaxRetries THEN "failed" ELSE "pending"]
    /\ fresh' = {}
    /\ pipe' = Done(pipe)
    /\ SendUnchanged /\ UNCHANGED <<camp, usage, due, delivered>>

Work(k, s) == \E n \in {m[4] : m \in flight} :
    \/ DropMessage(k, s, n) \/ RouteClosed(k, s, n)
    \/ ServerGone(k, s, n) \/ QuotaSpent(k, s, n)
    \/ \E t \in Servers : Accept(k, s, t, n)
    \/ MarkSent(k, s, n) \/ Refuse(k, s, n)

-----------------------------------------------------------------------------
(* The end of the pipe. *)

Drained == pipe.at = "ending" /\ flight = {}

\* cleanup: what was claimed and not sent is released; a campaign without an
\* account pauses, one that ran out of recipients is finished, and after any other
\* stop it stays what it is: the scanner loads a running one again.
Cleanup ==
    /\ Drained
    /\ pipe' = NoPipe
    /\ LET released == pipe.stop # "none" \/ pipe.deferred
       IN  /\ row' = [k \in Contacts |->
                        IF released /\ row[k].status = "queued"
                        THEN [row[k] EXCEPT !.status = "pending"] ELSE row[k]]
           /\ camp' = IF camp # "running" THEN camp
                      ELSE IF pipe.stop = "smtp" THEN "paused"
                      ELSE IF ~released THEN "finished" ELSE camp
           /\ fresh' = IF released /\ QueuedRows # {} THEN {} ELSE fresh
    /\ UNCHANGED <<masterVars, audience, order, editor, bound, lossVars, budget, enabled, usage,
                   cursor, turn, failures, scan, flight, due, delivered, passed>>

-----------------------------------------------------------------------------

Received == {k \in Contacts : delivered[k] > 0}

EditEnd == EditCommit(scan.pools) \/ EditRejected
EditCampaign == (\E pools \in SUBSET Pools : EditRead(pools)) \/ EditEnd

Scanner == ScanSelect \/ ScanRefresh \/ ScanLoad \/ ScanSkip
Pipe == PipeRead \/ ClaimOwn \/ ClaimAll \/ ClaimUnavailable \/ PipeWake \/ Cleanup
Senders == Servers \cup {NoServer}

\* Unless the scenario lets an update of the campaign span other steps, its reads
\* and its transaction are next to each other.
Steps ==
    \/ (ChangeMasterData(Received) \/ EditCampaign) /\ UNCHANGED sendVars
    \/ Start \/ Pause \/ (\E s \in Servers : RemoveServer(s)) \/ NextDay
    \/ Scanner \/ Pipe
    \/ \E k \in Contacts, s \in Senders : Work(k, s)

PoolNext ==
    \/ editor.at = "read" /\ ~bound.spanning /\ EditEnd /\ UNCHANGED sendVars
    \/ (editor.at = "none" \/ bound.spanning) /\ Steps

PoolSpec == PoolInit /\ [][PoolNext]_poolVars

\* The scanner ticks, the pipe and the workers run.
Fairness ==
    /\ WF_poolVars(Scanner) /\ WF_poolVars(Pipe)
    /\ \A k \in Contacts, s \in Senders : WF_poolVars(Work(k, s))
    /\ WF_poolVars(EditEnd /\ UNCHANGED sendVars)

PoolFairSpec == PoolSpec /\ Fairness

-----------------------------------------------------------------------------
(* Properties. *)

\* Every row belongs to a pool the campaign selects.  This is so until an update is
\* overtaken: a scan that selected the campaign before a pause may refresh a pool that the
\* update takes from the audience.  Rows it puts back are in no rotation.
Selected == \A k \in Contacts : row[k].pool \in audience \cup {0}

\* A contact that several pools or organizations of the audience share gets one
\* message of the campaign, and fails at most once more than may be retried: a row moves
\* between them until it is claimed, never after, and is not released while a worker has it.
\* What was handed to delivery stays as it was handed over: refreshes, edits and
\* claims never delete such a row, nor change its pool, organization or sender
\* (poolSnapshotRefreshStatuses); and no retry crosses accounts: while a recipient
\* stays in its pool, its sender is replaced only when that is disabled or out of
\* quota (nextPoolCustomers).  Updates break this once one was overtaken by another actor
\* between what it read and its transaction (syncCampaignAudienceTx): it deletes such rows,
\* or leaves a later update rows that a scan put back for a pool it had dropped.  Each
\* deletion may cost the contact one message and one failure more, and nothing else does:
\* until an update is overtaken, every row that was used is kept.
HistoryKept ==
    [][\A k \in Contacts :
        /\ delivered'[k] <= 1 + lost'[k] /\ failures'[k] <= MaxRetries + 1 + lost'[k]
        /\ lost'[k] > lost[k] => overtaken'
        /\ lost'[k] = lost[k] =>
            /\ row[k].status \in {"queued", "sent", "failed", "cancelled"} =>
                /\ row'[k].status # "none"
                /\ row'[k].pool = row[k].pool /\ row'[k].org = row[k].org
                /\ row'[k].sender = row[k].sender
            /\ /\ row[k].sender # NoServer /\ row'[k].pool = row[k].pool
               /\ row'[k].sender # row[k].sender
               => ~HasQuota(row[k].sender)]_poolVars

\* What UpdateCampaign and CampaignAudiencePlan promise of an update, overtaken or not:
\* queued and sent delivery history survives.
HistorySurvives ==
    [][\A k \in Contacts : row[k].status \in {"queued", "sent"} => row'[k].status # "none"]_poolVars

\* The rotation is fair: while an organization has recipients to claim, no other is
\* served twice, over batches, pauses and days (pool_next_org_index, ensurePoolOrgOrders).
FairRotation == TypeOK /\ \A o, x \in Orgs : passed[o][x] <= 1

\* An empty batch is answered with the truth: the campaign runs out only when nobody
\* can be claimed in any round, and defers only for servers without quota.  Rows of pools
\* that are not selected hold up the round of the others (Selected).
AnswersRight ==
    [][Selected /\ pipe.at = "claim" /\ pipe'.at = "ending" /\ pipe'.stop = "none" =>
        IF pipe'.deferred
        THEN MayClaim # {} /\ \A s \in Servers : ~HasQuota(s)
        ELSE MayClaim = {}]_poolVars

\* A running campaign does not stay so for good: it finishes, pauses or defers,
\* whatever is changed while messages are on their way.
RunningSettles == camp = "running" ~> camp # "running"
=============================================================================
