# A TLA+ model of listmonk's delivery, audience and organizations

This directory models, checks and proves the parts of this listmonk fork that are
hardest to test: how an e-mail campaign is turned into deliveries by goroutines
that share a database, where its recipients come from, through which servers its
messages leave, what comes back, who may do all this, and what becomes of it when people join,
leave and hand over.

- [The system](#the-system): components, state, operations, interactions, hard parts
- [The modules](#the-modules) and how they correspond to the code
- [The runs](#the-runs): what TLC checks, bounds, fairness
- [The proofs](#the-proofs)
- [Observations](#observations): where code, comments and documents disagree
- [Not modelled, and why](#not-modelled-and-why)
- [Plan](#plan): what is next

All paths are relative to the repository's root.

## The system

A campaign is a row of `campaigns` with a status; its recipients are a snapshot
of private customers (`campaign_recipients`) and of public-pool contacts
(`campaign_pool_recipients`). One process sends; users act through HTTP
handlers of the same process; PostgreSQL is the only memory that survives it.

| component | state | operations | correct when |
| --- | --- | --- | --- |
| Campaign manager (`internal/manager/manager.go`, `pipe.go`) | `pipes`, the channels `nextPipes` and `campMsgQ`, per pipe a wait group, an error counter, stop flags | `scanCampaigns`, `Run`, `waitForProgress`, `worker`, `cleanup` | the wait group counts every reference; a stopped pipe ends; nobody is sent to twice; nobody waits for nobody; a user's decision is not overwritten |
| Campaign store (`cmd/manager_store.go`, `queries/campaigns.sql`, `cmd/send_limits.go`, views of `schema.sql`) | status, resume time, retry mode; status of each recipient row; failure events; successes per day | select, claim, reset, exhaust, settle, defer, finish | a day's successes and reservations fit its limit; retries are bounded and overtake no first attempt; settled rows stay settled |
| Campaign control (`cmd/campaigns.go`, `core/workspace_resource_writes.go`) | the status lock | the status handler and its stop signal, the edit of the pools | transaction and signal are one operation for everybody else |
| Retry of failed recipients (`core/campaign_failed_recipients.go`) | `retry_mode`, `retry_selected` | selection for a targeted retry | a restricted run does not finish the campaign for the others |
| Resume schedule (`internal/schedule/daily.go`) | none | the next local resume time | a deferral resumes on a later day |
| SMTP messenger (`internal/messenger/email`, `manager.pushMessage`) | cached pools, gates, limiter | resolve, pick, delay, send, retire, close | ceilings hold; a waiter keeps no ceiling; a pool is not closed under a delivery; a cache forgets what was replaced |
| SMTP quota (`cmd/smtp_quota.go`) | reservations, usage per local day | reserve, commit, release | every reservation is given back once |
| Personal SMTP servers (`cmd/personal_smtp.go`) | rows of servers | save, delete, pause of the account's campaigns | deliveries in flight end; later ones see the new servers |
| Customers, lists and memberships (`core/subscribers.go`, `core/subscriptions.go`, `core/list_customer_deletion.go`, `queries/customers.sql`) | status of each customer, status of each membership, type and opt-in of each list | edit, add, remove, unsubscribe, blocklist, delete, prune, import, clean up | what was refused stays refused until it is given back; deleting lists spares who is on others |
| Self-service (`cmd/public.go`) | none: a page reads, then writes | subscribe, confirm, unsubscribe, preferences, wipe | a campaign claims only on consent |
| Public pools (`core/pools*.go`, `cmd/pools.go`) | contacts, members, allocations, exclusions, the snapshot | grant, allocate, assign, exclude, restore, detach, refresh | the snapshot follows the masters; removed contacts stay out; history is rewritten only by overtaken updates |
| All-organizations claiming (`cmd/manager_store.go:nextPoolCustomers`) | the rotation, cursors over servers | claim in turn | turns are fair; an exhausted organization ends nothing; a sender is kept |
| Organizations (`core/organizations.go`, `cmd/organizations.go`, `core/users.go`) | status, members, invitation, ownership of resources | create, invite, remove, leave, archive, migrate, transfer, purge | there is a manager; an owner is a member; what waits is still; identities survive merges |
| Reply mailboxes and Reply AI (`cmd/reply_*.go`, `core/reply_ai*.go`, `queries/replies.sql`) | connection, cursor, events with leases, ledger of reports | test, scan, claim, classify, decide | nothing is skipped or decided twice |
| Reply forwarding (`cmd/reply_forwarder.go`) | a row per message | round, claim, hand over | a message is forwarded once |
| Bounces (`internal/bounce`, `core/bounces.go`) | bounce rows, blocklisted customers | record | one bounce counts once |
| Accounts, roles and keys (`core/users.go`, `core/roles.go`, `core/integration_tokens.go`, `cmd/users.go`, `internal/auth`) | rows of accounts, roles and keys, the cache that authenticates keys | edit, import, delete, demote, create, rescope, rotate, revoke, refresh | an administrator is left; a revoked key is refused once its request is answered |
| Logins and sessions (`cmd/auth.go`, `internal/auth`, `internal/tmptokens`) | sessions, challenges of a second factor, reset links, throttled failures | log in, verify, reset, log out, end the sessions of an account | a new password ends the sessions of the old one; a link sets one password |
| Media library (`core/media.go`, `core/media_folders.go`, `cmd/media.go`, `cmd/media_folders.go`) | folders, rows of files, objects of the store | create, share, move and prune folders; upload, rename, move, delete files | the folders are a tree of readable branches; an object lives while a row names it |
| Templates and clones (`core/templates.go`, `core/workspace_actions.go`, `core/workspace_resource_transfer.go`) | templates, defaults, what a campaign or template refers to | edit, set the default, clone, issue, transfer, hand over | a copy stands without its original; a member has one default |
| Importer (`internal/subimporter`, `cmd/import.go`, `cmd/import_audit.go`) | one status, a loader and a writer per session, the pending audit event | start, read, write, stop, clear, record | a session ends; its end is recorded once and truly |

`PROJECT.json` lists every component, also those that are not modelled, with the
reason.

### How they interact

```
 members, managers, administrators ─ organizations, transfer, account deletion
        │ status lock │             │ pools, allocations      │ mailboxes
        v             v             v                         v
   campaigns / campaign_recipients / campaign_pool_recipients / send_errors / usage
      ^            ^              ^                 ^                      ^
   scanner ──> nextPipes ──> Run/NextCustomers ──> campMsgQ ──> workers ──>│── SMTP
      │                        ^        │              limiter, gates, quota, pools
      └─ newPipe (wg=1)        └─ waitForProgress <── progress ────┤
                                                                   v
                                     cleanup (wg=0) ── status lock ──> database
   importer, operators, recipients ──> customers, memberships <── replies, bounces <── mailbox scans <── answers, reports
```

### The hard parts

1. The batch limit is computed from counts read earlier than the claim, while
   workers move rows between reserved, sent and free.
2. A row's status in the database and the message in memory are two records of
   one recipient; five actors reset rows.
3. Four kinds of goroutine hold references to a pipe's wait group.
4. The reason a pipe ends with is chosen by whoever stops it first, unless a
   user comes later, and is read by cleanup later still.
5. A campaign can be paused and resumed between any two of those steps, also
   before its pipe exists.
6. Two tables of recipients are written by different statements.
7. Every write may fail, and the process may die between the SMTP server's
   acceptance and the recorded success.
8. Servers, pools of connections and allocations are replaced while messages that
   were resolved from them are on their way.
9. A handler checks authority, and its transaction runs later.
10. Leases lapse under their holders; scans overlap; mail is read again.
11. The importer's goroutines outlive the session whose status they write.
12. Statements at READ COMMITTED wait for a row and go on with the snapshot they began
    with; who locks a customer first sees more than who does not.

13. Rows of several copies name one object outside the database, and its removal follows the
    transaction that counted them.

## The modules

Each family is a small tower: the lower module holds the rows or the mechanism,
the upper one the actors and the properties, an `MC` module the instances. A step
is one transaction, one critical section, one channel operation or one call, with
the in-memory writes after it that nobody else can tell from it. History variables
are marked so where they are declared; no guard of the code's steps reads them.

### Campaigns: `CampaignStore`, `CampaignSender`

`CampaignStore` has no variables. Its record `db` stands for the rows of one
campaign; each operator is one transaction, from the record before to the record
after.

| field | rows |
| --- | --- |
| `status`, `sendAt`, `retryMode` | `campaigns.status`, `send_at IS NOT NULL`, `retry_mode` |
| `resumeDay` | the local day of `next_resume_at` |
| `rcpt` | `status` of the rows of both recipient tables |
| `fails` | number of events in `campaign_send_errors` |
| `selected` | `retry_selected` |
| `counted` | recipients that still exist and belong to the owner (`campaign_send_counts` drops the others) |
| `deliverable` | of these, the ones neither blocked, unsubscribed nor excluded |
| `sentToday` | `campaign_daily_usage` of the local date |

`RetryQueue` and `Claimable` are the view `campaign_retry_queue` and the claiming
queries, `BatchLimit` is `campaignBatchLimit`, `IsClaim` says what the two queries
may return under one limit. `campaigns.sent` is the number of rows in `sent`.

`CampaignSender` has one disjunct of `Next` per goroutine.

| variable | code |
| --- | --- |
| `pipe` | the `pipe` and its entry in `manager.pipes` (`live`) |
| `sched` | where the scheduler reference is: in `nextPipes`, in `NextCustomers` (`claim`, `push`), in `deferCampaign`, in `waitForProgress` |
| `claim` | what `NextCustomers` holds between reading, claiming and pushing |
| `msg` | per recipient: in `campMsgQ`, with a worker before the attempt, accepted, failed, refused for quota |
| `tail` | workers between the settled row and `messageDone` |
| `clean` | the branch of `pipe.cleanup` that was chosen |
| `scan` | where `NextCampaigns`/`scanCampaigns` is with this campaign, and the status it selected it with |
| `user`, `smtp` | a handler between its transaction and its stop signal |
| `used`, `delivered` | spent bounds and the day; history of accepted messages |

The scanner's select → claim → reset → synchronise → finish or start is
`ScanSelect` … `ScanStart`, because a user may write between any two; the
scheduler's read and claim are two steps because workers write in between; the
worker's acceptance and the recorded success are two because the process may die
in between; cleanup decides in one step and acts in a later one. One message is
kept per recipient: `NoOverlap` is proved, and `OneMessageAssumption` keeps the one
exception (a resume between the pause and the signal of an SMTP removal, which take
no common lock) out of an instance. Merged: the statements of one reset, a flag and
the channel closed with it, the deletion of the pipe at the end of cleanup.

`DeliveryLedger` and `CampaignLifecycle` are what the sender promises, free of
goroutines: holding only within the day's limit and only whom nobody holds; a
status that finishes only when nobody is open. `CampaignRefinement` maps the
claimed, queued, sending and accepted recipients to `held`, the unsent deliverable
ones to `open`. `MCCampaignSender` has the recipients of the instances.

### Servers: `DeliveryLimiter`, `SmtpDelivery`

`DeliveryLimiter` is `delivery_limiter.go`: `active`, `starts` and `campaignNext` are
its fields, `wakeups` the generation of the channel a release closes, `Wait` the
longest of what the limits ask. `SmtpDelivery` puts calls of `pushMessage` over it:
`cache` (both maps of messengers), `pools` (every `Emailer` built), `update` and
`mutex` (`WithPersonalSMTPUpdate`), `gates` and `tokens` (`send_delay.go`, with the
generation of the entry a pool holds), `usage`/`reserved`/`day` (the quota tracker),
`closing` (`Manager.Close`), and `call`, which is where each delivery is. A pending
writer of `sendMut` blocks new readers, as Go's `RWMutex` does, so a retirement is
`waiting` until the deliveries in flight end. Notes: the capacity of a gate is the
platform's setting; one tracker serves all servers of users; the commit for a server
deleted meanwhile is a success of nothing.

### Pools: `PoolAudience`, `PoolAllocator`

`PoolAudience` has the masters (`contact`, `inPool`, `allocation`, `member`,
`excluded`, `grant`, `department`, `org`), the campaign's choice (`audience`, `order`)
and its snapshot (`row`), and one action per operation of `core/pools*.go`; an edit is
two steps, its reads and its transaction (`editor`). `PoolAllocator` adds the scanner's
refresh, the claim for one organization or in turn, quota and cursors per server, and
workers that check a message once more before they send it. Here statements do not fail
and a pause and its stop are one step: `CampaignSender` has those. `fresh`, `passed`, `lost` and
`overtaken` are history: which snapshots nothing has outdated, how often others were served
while an organization waited, how often an update deleted a used row, and whether an update
committed what it had decided too early.

### Audience: `Subscriptions`, `SelfService`

`Subscriptions` has the rows of customers, lists and memberships and every statement that
writes a status. An operator's endpoint is two steps, what its handler read and checked
(`request`) and its transaction, which locks the customers and then the lists
(`withPreparedWorkspaceResourceMutation`); the deletion of lists with their customers is a
third, its lock on those customers. `writer` is an open transaction of an import or of the
public form: which rows it holds and what it will commit. `statement` is a single statement
that takes no lock first: it has the memberships of the snapshot it began with (`seen`) and
finishes when the rows are free (`Finish`). `SelfService` adds the pages of a recipient
(`form`: what the page read) and the two queries of a campaign, the snapshot and the claim.
`refused` and `blocked` are history: which memberships were unsubscribed, and who was
blocklisted on purpose, since when nobody has given that back on purpose. Giving back is:
confirming, an operator's status on the membership, an overwriting import, removal; for a
blocklisted customer also the operator's edit and an addition to a list. Joins of the owner
and the workspace are left out: every row belongs to one owner (`Handover` has that part).

### Organizations: `Organization`, `Handover`

`Organization` has the accounts, members, invitation and request of one organization.
Its transactions lock the organization's row and are one step; a request that passed its
handler's check earlier is in `call`, and its transaction rechecks what the code
rechecks. `Handover` adds what members own (`res`: owner, visibility, pending for a new
owner, status of a campaign), the aliases of merged customers and the pipes of campaigns
with the loop that stops them after a removal (`stopping`). The migration of a campaign
is one step.

### Replies: `ReplyMailbox`, `ReplyScan`, `ReplyQueue`, `ReplyForwarder`, `Replies`

One mailbox: its connection, switches and tests; the scan with its cursor, the events
and the ledger of reports it writes; the queue with leases, attempts and decisions; the
forwarding rounds. `run` and `relay` are where each process is. The classification is a
choice. `attempts` stands for the lease token, which is fresh with every claim as well.
`Replies` composes them and states the properties.

### Imports: `Importer`, `ImportAudit`

`im` is the importer's status with the session of the current done channel, `stop` the
buffered channel, `signals` the `Stop` calls between publication and signal, `session`
the queue and the two goroutines of every upload. `ImportAudit` adds the admission of a
session under the tracker's lock, the watcher and the recorded events.

### Library: `MediaFolders`, `MediaFiles`, `Assets`

`MediaFolders` has the folders of one workspace of each kind, who reads which, and a move
as two steps: what its checks allowed (`moving`) and the row it writes. `MediaFiles` adds the
rows of files and the objects of the store (`store`, by name; the value is the upload that
wrote it), uploads that have written an object but no row (`uploads`), removals whose
transaction is over (`removals`), the links of mails to files (`links`), and an attachment
that was read and whose link is yet to be stored (`issuing`).
`Assets` adds templates, defaults and campaigns, their clones, and what becomes of all
three when a member leaves. `issued`, `contested` and `copied` are history: what a link was
issued for, which names two had at a time, and which copies were made of what.

### Accounts: `Accounts`, `ApiKeys`, `Logins`, `Access`

`Accounts` has the rows of accounts and roles; `requests` is what every request that has
committed still has to do (end sessions, store a session, read and store the cache), one
step at a time; `editing` holds the `update-user` statements between their snapshot and their
write. `ApiKeys` adds the keys and `cache`, the two maps that are stored one after the other
by refreshes nothing orders. `Logins` adds `sessions`, and the two uses of the store of
temporary tokens: `challenges` and `links`, which count how often they were looked up; a login
is checked in one step and its session stored in a later one. `Access` composes them with the
restart, which keeps the rows and sessions. `pw` counts the passwords of an account, `perms`
the changes of a role; `kept` marks the sessions that outlive a password because their end
failed, came too early or was never reached, `alone` the refreshes nothing overlapped: both are history.

## The runs

Every bound limits how often something outside the modelled goroutines happens and is
named where it is declared; `Bounds` (`PoolBounds` for the pools) is a set of scenarios, one of which each behaviour
starts with, so that one run asks several questions that need not be multiplied.

| run | instance | checks |
| --- | --- | --- |
| `control` | private + pool recipient, two user operations, one fault anywhere, scarce quota, limit two, one retry, threshold of two errors | `IInv`, `NoStrandedRow`, `SettledForever`, `OneStopOperation`, `OldPipeLeavesAlone`, `ImplementsLifecycle` |
| `live` | fair; private + pool recipient, limit one, a midnight, an unsubscription, a deletion, an SMTP removal, scarce quota | `RunningEnds`, `FinishedIsSettled` |
| `refine` | two private + one pool recipient, batches of two, limit two, one retry, threshold of three, scarce quota, a crash, a midnight | `NoWaitForNobody`, `RoundOrder`, `AtMostOnce`, `ImplementsLedger` |
| `delivery` | fair; up to four calls over two servers, quota of two, one attempt at a time; scenarios: servers changed; a stop, a failing statement and a midnight; the platform's server; three calls and a running clock | `HeldExact`, `PoolsCurrent`, `CeilingsHold`, `WorkEnds` |
| `pools` | fair; two pools, two organizations, three contacts of whom two share an address, servers with quotas of two and one, one retry; nine scenarios, two with edits around a scan or that span other steps | `SnapshotExact`, `FairRotation`, `HistoryKept`, `AnswersRight`, `RunningSettles` |
| `survives` | one of these scenarios: updates of the campaign that a start, a scan and claims overtake | `HistorySurvives`, violated |
| `audience` | two customers, a list that asks for confirmation and a public one; six scenarios of two or three operations: operators against an import, against each other and a campaign; a recipient against an import and a campaign, and against an operator; bounces and maintenance against an import and a campaign; lists changed under an opt-in campaign | `RefusalHolds`, `ClaimedOnConsent`, `SharedCustomersStay` |
| `orgs` | an administrator, a manager, a member, eight resources; six scenarios | `OwnerIsMember`, `IdentityKept`, `ManagerKept` |
| `replies` | two customers, two processes, a threshold of two bounces, three attempts, two forwards, scans of two messages; seven scenarios | `WellKept`, `ForwardedOnce`, `DecidedOnce` |
| `imports` | fair; two uploads of three rows, batches of two; two faults, a fault and a stop, or two stops | `AuditExact`, `SessionsSettle` |
| `library` | a manager and two members, up to four folders, three names, files, templates and campaigns of both members; thirteen scenarios of two to five operations | `LibraryTree`, `FilesKept`, `StandsAlone` |
| `accounts` | up to six accounts, four roles, five keys, three requests at once; two keys per account, two lookups, two failures; eighteen scenarios of two to six operations, failures and restarts | `CacheCurrent`, `SessionsEnd`, `LinksOnce`, `AdminKept` |

Why these bounds are enough: with limits at, above and below the number of recipients
every comparison of the batch decision is met from both sides; two recipients of
different tables meet every statement that covers one table; two calls on one server
with a quota of two meet the last place from both sides; two contacts of one address in
two pools meet every duplicate; one customer on two lists, beside one who does not exist
yet, meets every statement that covers some lists or some customers; two processes meet every lapsed lease. Third actors of
the same kind only repeat these.

What the important properties say:

- `ImplementsLedger`: today's successes and every message that can still become one stay
  within the limit, although the limit is computed from counts that are stale at the
  claim. A count can only be stale in the safe direction: between the read and the claim
  the same pipe claims nothing, and a worker turns a reservation into a success or gives
  it back. An unsubscription is the one actor that breaks this ([observations](#observations)).
- `RoundOrder`: while a pipe is undisturbed, whoever is being sent to has failed no more
  often than anybody who waits, over both tables.
- `NoWaitForNobody`: the scheduler waits only while there is a worker, a token or a stop
  to wake it.
- `OldPipeLeavesAlone`: once a manual stop reached a pipe, that pipe writes no further
  status, even if it had already stopped for errors.
- `HeldExact`: reservations are the calls that hold one, tokens and attempts are the calls
  that are past the gate, in every state; what a server accepted on a day stays within its
  limit, but for messages whose usage could not be written.
- `PoolsCurrent`: a pool is closed only when no delivery holds it, and after an update is
  over no cached pool was built from rows it replaced.
- `CeilingsHold`: no window of a ceiling's length, wherever it begins, sees more attempts
  start than it admits, whatever the limiter has trimmed and pruned; a campaign's attempts
  are an interval apart.
- `SnapshotExact`: after every pool was refreshed, and until something changes, a waiting
  recipient is one the masters allow, by the row's own pool and organization, and everybody
  they allow has a row; in between no waiting row belongs to a detached allocation; who was
  removed is excluded. Of pools that are not selected it says nothing ([observations](#observations)).
- `FairRotation`: while an organization has somebody to claim, no other is served twice,
  over batches, days, pauses and rotations that lose or gain organizations.
- `AnswersRight`: what a claim without recipients answers (nobody left, wait, defer) is
  true of the rows, as long as they are of selected pools.
- `RefusalHolds`: a write that read an earlier state does not make a refused
  membership active again, nor leave a blocklisted customer with an active one.
- `ClaimedOnConsent`: the snapshot does not decide; whoever is claimed is at that moment on
  a list of the campaign with the opt-in it asks for.
- `SharedCustomersStay`: who joined another list before the deletion is spared, also when
  the deletion had already begun.
- `OwnerIsMember`: whoever owns something in an organization is a member of it, or the thing
  waits for a new owner; and what waits is neither running nor claimed.
- `ImplementsLifecycle`, `FinishedIsSettled`: with any pauses, resumes, faults and deletions, a
  campaign is finished only with nobody open, but for two places that are named as inputs of
  the abstract life (`Misled`): the cleanup of a pipe that its scheduler left because the
  campaign did not run just then, or because its deferral could not be stored (`pipe.early`),
  and the scanner when recipients were deleted.
- `HistoryKept`: no step of any master rewrites who was mailed for whom, or mails twice, and no
  update deletes such a row until one is overtaken, that is, until a start, new recipients or a
  scan come between what an update read and its transaction. Then each deletion
  costs its contact at most one message and one failure more (`lost`). The code promises more:
- `HistorySurvives`: that an update leaves queued and sent rows, whatever happens
  meanwhile. The run `survives` finds it violated; the `findings` of `PROJECT.json` quote the promise.
- `LibraryTree`: the organization's folders have no cycle and everything in a folder is of
  its workspace, although a move is checked before it is written.
- `FilesKept`: a row shows the bytes that were uploaded for it for as long as it exists,
  whatever uploads, copies and removals do at once, and a link in a mail what its sender
  attached; names that two fought for are excepted.
- `StandsAlone`: until it is edited, a copy shows what the original showed, by files of its
  own owner, also after the original, its author or its folder is gone.
- `AdminKept`: the last enabled administrator is neither deleted nor demoted, but for two
  edits that cross and two other ways the [observations](#observations) name.
- `CacheCurrent`: with no request left to refresh it, the cache accepts exactly the keys the
  rows allow, unless the last refreshes overlapped, failed or were never reached, or a service
  account set another token since.
- `SessionsEnd`: a session of an earlier password ends with the request that set the new one,
  but for a login checked before and stored after, an end that failed, a request that set the
  password and could not read the row again, and a restart in between.
- `LinksOnce`: a reset link sets one password, however many requests carry it at once.
- `WellKept`: the cursor passes no message that was not handled, tests apply to what they
  tested, and a customer's bounces are those of the ledger and the providers.
- `AuditExact`: a session has at most one terminal event, and it is the outcome its own
  goroutines published.

`CHECK_DEADLOCK FALSE` in the runs whose system stops: a settled campaign, calls that
have ended, uploads that have ended, and everywhere else spent bounds.

### Fairness

Weak fairness of the code's own steps in `live`, `delivery`, `pools` and `imports`;
users, midnight, faults, crashes and the clock owe nothing except where a timer is what
wakes a waiter. Goroutines are preemptively scheduled, SMTP attempts have timeouts, and
locks are held for bounded transactions. Strong fairness is not needed: a guard that
another actor can close again and again is a lock whose holders are bounded in number.
`RunningEnds` and `RunningSettles` count a pause, a deferral or a return to draft as an
end; `SessionsSettle` and `WorkEnds` ask for the end of every session and call.

## The proofs

TLAPS checks these for every set of recipients, calls, servers, users, resources, uploads, customers, lists,
pools, organizations, contacts, accounts, keys, folders and files, any mail, every limit and every bound; TLC has found each of them true on the instances above first.

| theorem | states | module |
| --- | --- | --- |
| `TypeCorrect` | `TypeOK` of the sender | `CampaignProofs` |
| `SettledCorrect` | `SettledForever` | `CampaignProofs` |
| `BackgroundCorrect` | `BackgroundStatus` (proved only) | `CampaignProofs` |
| `CoreCorrect` | `Core`, the first inductive invariant | `CampaignProofs` |
| `WaitGroupCorrect`, `NoOverlapCorrect`, `RetryBoundCorrect` | its parts of the same names | `CampaignProofs` |
| `OneStopCorrect` | `OneStopOperation` | `CampaignProofs` |
| `InvariantCorrect` | `IInv`, the whole invariant | `CampaignProofs` |
| `AtMostOnceCorrect` | `AtMostOnce` | `CampaignProofs` |
| `NoStrandedCorrect`, `NoWaitCorrect` | `NoStrandedRow`, `NoWaitForNobody` | `CampaignProofs` |
| `RoundOrderCorrect`, `FinishedCorrect` | `RoundOrder`, `FinishedIsSettled` | `CampaignProofs` |
| `OldPipeCorrect` | `OldPipeLeavesAlone` | `CampaignProofs` |
| `LedgerCorrect` | `ImplementsLedger` | `CampaignProofs` |
| `LifecycleCorrect` | `ImplementsLifecycle` | `CampaignProofs` |
| `DeliveryInvariant` | `DInv`, the invariant of the deliveries | `DeliveryProofs` |
| `HeldExactCorrect`, `PoolsCurrentCorrect`, `CeilingsHoldCorrect` | `HeldExact`, `PoolsCurrent`, `CeilingsHold` | `DeliveryProofs` |
| `HandoverInvariant` | the invariant of the organization | `HandoverProofs` |
| `OwnerIsMemberCorrect`, `IdentityKeptCorrect`, `ManagerKeptCorrect` | `OwnerIsMember`, `IdentityKept`, `ManagerKept` | `HandoverProofs` |
| `AuditExactCorrect` | `AuditExact` | `ImportProofs` |
| `WellKeptCorrect`, `ForwardedOnceCorrect` | `WellKept`, `ForwardedOnce` | `ReplyProofs` |
| `DecidedOnceCorrect` | `DecidedOnce` | `ReplyProofs` |
| `AudienceHolds` | `AudienceInv`, the invariant of the memberships | `AudienceProofs` |
| `RefusalIsKept`, `ClaimsHaveConsent`, `SharedCustomersAreSpared` | `RefusalHolds`, `ClaimedOnConsent`, `SharedCustomersStay` | `AudienceProofs` |
| `PoolsHold` | `PoolsInv`, the invariant of the pools | `AudienceProofs` |
| `SnapshotHolds`, `RotationIsFair`, `AnswersAreRight` | `SnapshotExact`, `FairRotation`, `AnswersRight` | `AudienceProofs` |
| `HistoryIsKept` | `HistoryKept` | `AudienceProofs` |
| `AccessHolds` | `AccessInv`, the invariant of accounts, keys and sessions | `AccessProofs` |
| `LinkSetsOnce`, `SessionsAreEnded`, `AdminStays` | `LinksOnce`, `SessionsEnd`, `AdminKept` | `AccessProofs` |
| `CacheIsCurrent` | `CacheCurrent` | `AccessProofs` |
| `AssetsHold` | `AssetsInv`, the invariant of folders, files, templates and campaigns | `AssetsProofs` |
| `LibraryIsTree`, `FilesAreKept` | `LibraryTree`, `FilesKept` | `AssetsProofs` |
| `CopiesStandAlone`, `DefaultsAreKept` | `StandsAlone`; `DefaultsKept` (an owner has at most one default, and the campaigns of a deleted template get one their owner may send; proved only) | `AssetsProofs` |

Assumptions on the constants, all evaluated by TLC in the runs: `StoreAssumption` (the two
tables are disjoint and finite, limits and sizes are naturals, the limit and the batch
size positive), `SenderAssumption` (bounds are naturals), `OneMessageAssumption` (above),
`LimiterAssumption` and `DeliveryAssumption` (finite sets, limits of the right types,
nobody's name is somebody's), `OrganizationAssumption` and `HandoverAssumption` (finite
sets; resources are numbered, as rows are), `ImporterAssumption` (uploads are numbered from
one, batches are not empty), `ReplyAssumption` (some connection is good, limits are
positive, answers have a sender and scenarios are well formed), `SubscriptionsAssumption`
(the memberships at the start are of customers who exist), `AudienceAssumption` and
`AllocatorAssumption` (pools, organizations, contacts and servers are finite and numbered,
scenarios are well formed and a batch is not empty), `AccountsAssumption`, `KeysAssumption` and
`LoginsAssumption` (ids are numbered from one, the rows at the start refer to rows at the start, a role over
lists is where one is expected, a throttle admits a failure), `MediaFoldersAssumption`,
`MediaFilesAssumption` and `AssetsAssumption` (folders are finitely many and a tree at the start,
files that share an object show the same, ids are numbered and the files a template shows are
associated with it).

### The campaign

1. `CampaignProofs` states for each transaction what it does to the rows: it
   `Settles` (sent and failed are final), `ClaimsNobody`, `ReopensOnly` given
   rows, and how it moves the status and the failure counts. The sender's proofs
   use these facts and seldom open a transaction again.
2. It goes on with the type invariant, one lemma per goroutine, and what each
   goroutine writes (`BackgroundWrites`, `UsersWrites`). Part of the type is that a
   stopped pipe has a reason, so that `CleanDecide` always has a case.
3. Then comes `Core`, which the wait group carries. `WaitGroupExact`
   says that zero means nobody is left, so cleanup and scanner, which run only at zero
   (`PipeAlone`), may reset rows without reopening the row of somebody on the way; hence a
   claimed or in-flight recipient is never `Waiting` (`HeldRows`); hence a claim, which
   takes waiting rows, meets nobody in flight (`NoOverlap`); hence a pushed message is new
   and the wait group stays exact. `AttemptsLeft` is what the claim guarantees and what
   makes `RetryBound` inductive. `Halted` (after a manual stop or an SMTP removal the
   campaign is not active) is why nobody is claimed before the signal.
4. Then the rest of `IInv` is proved on top of `Core`, one lemma per action
   and part. None of the properties is inductive alone; what each needs is:
   - `Accounted` (an acceptance is in its row, with its worker, or was lost to a crash or a
     failed write) for `AtMostOnce`;
   - `QueuedHeld` (a queued row belongs to somebody on the way or to a stopped pipe, whose
     cleanup gives it back) for `NoStrandedRow`;
   - `Reported` for `NoWaitForNobody`: the scheduler may wait only because its claim saw
     queued rows, and their holders are still there or have left a token;
   - `InOrder` for `RoundOrder`: it covers the claimed batch too, and holds through a
     claim because the claim takes the first round that is not empty, over both tables;
   - `FinishRight` for `FinishedIsSettled`: the scheduler leaves an undisturbed pipe that is not
     `early` only when its query found nobody and nobody was queued, and without deletions
     the scanner finishes only what is sent completely. `EndedRows` keeps what cancelled rows mean across a resume;
   - `PipeObeys` for `OldPipeLeavesAlone`: a user's stop clears the errors and sets a
     reason for which cleanup writes nothing;
   - `Reserved` and `Bounded` for the ledger: whoever is held keeps a queued row, and a
     batch about to be claimed still fits the day, although the counts it was computed
     from are old.
5. The two refinements map `Init` to `Init` and each action to an action of the abstract
   specification or a stutter, with `IInv` at hand. `LedgerCorrect` assumes `MaxUnsubs = 0`
   and `MaxRemovals = 0`, since an unsubscription or a deletion does take a place away that
   is in use; crashes, midnights, retries, scarce quota, faults and SMTP removals are not
   restricted. `LifecycleCorrect` has no hypothesis: what a misled sender finishes early is a step
   of the abstract life, and `Misled` says when that may be. The run `refine` has an instance of
   the first, `control` of the second.

### The deliveries

`DInv` is `Calls /\ Pools /\ Counts /\ CeilingsHold`.

- `DeliveryProofs` begins with the limiter alone. The ceiling over a rolling window is about all
  attempts there ever were, while the code keeps only those it has not trimmed:
  `Remembered` says that the kept times are the last attempts, in order, and that whatever
  was trimmed has left the window; `Spaced` (the attempt that is `CeilingLimit` places later
  is a window later) follows when `take` compares, and from it the count in any window by
  an injection into an interval. `Paced` does the same for a campaign and
  its entry, which may be pruned.
- `PoolsCurrent` is four parts that need each other. `CallsPlaced`: a call finds its pool
  open, or detached with its drain still to come, since a reader's lock is what the drain
  waits for. `PoolsPlaced`: a detached pool belongs to an update. `CachePlaced`: what is
  cached is open and, outside transactions, built from rows that exist. `GatesPlaced`: pools
  that share a server share its gate, until the last of them is closed.
- With these, the counts are exact: gates count their pools (`RefsExact`), tokens the calls
  that hold one (`TokensExact`), reservations the calls between choice and commit
  (`ReservedExact`), `active` the attempts (`ActiveExact`). `GatesPlaced` is why a token is
  given back to the gate it was taken from. `QuotaHeld` adds up usage and reservations below the limit
  and bounds what was accepted on a day by usage, what is still on its way to it and what
  could not be written.

### The organization

`HandoverProofs` shows `OwnerIsMember /\ IdentityKept` inductive: removals, departures,
archivals and deletions hand every row over in the transaction that ends a membership, and
everything that gives an owner rechecks membership under the organization's lock. The alias
of a merged customer leads to a row that exists, at the same address, because a merge takes
the aliases of the row it removes along; the row it keeps is the first or the last of its
address, and that there is one needs a well-founded argument over finite sets.
`ManagerKept` is an action property of every step that deletes no account; it follows from
the guards the transactions recheck, not from the ones their handlers checked.

### The imports

`AuditExact` is inductive with two parts that it names. `Followed`: the published status and
the tracker belong to the session admitted last, every session before it has ended, and one
that ended uncleared still shows how; an admission is refused otherwise, and admissions take
turns under the tracker's lock. `SpeaksOnce`: as long as at most one step failed, a session
publishes one outcome and none after its end. A loader that outlives its session ends without
a word unless it fails itself, and `Start` outlives it only after a failure of the loader, and
then waits for a queue that nobody closes. This is what keeps a late goroutine from
ending the next session, whose done channel it would close. The recorded event is therefore
the session's own, claimed once by the watcher or by the next admission.

### The replies

`ReplyProofs` shows `WellKept` and `ForwardedOnce` inductive.

- The cursor passes nothing unhandled because what was told stays told: events, the ledger
  and what was waived only grow (`EventsGrow`, `LedgerGrows`, `WaivedGrow`), so what a scan
  knows of the messages behind it (`Sound`) survives whatever overlapping scans, workers,
  edits and tests do meanwhile, and a cursor may be set back but never past what a scan has seen.
- A customer's count of hard bounces is the number of ledger rows with such an outcome and of
  provider's bounces: a row is counted in the step that writes it, and written once.
- A forwarded message: a row is claimed when it has no holder, since a claim turns stale only
  after its holder is gone (`Claimed`), so `Won` of a message has one element at most, and every
  hand-over is told to the row or counted as lost.
- `DecidedOnce` is an action property; it needs the invariants for who holds what: a decision
  checks the lease under the lock, and one whose lease is lost writes nothing.

### The audience

`RefusalHolds` says of the rows what nobody may write; but imports, forms and statements
write what they computed from rows they read before. `AudienceInv` says for each of
these what it carries. `WriterFits`: an open transaction that blocks unsubscribes every row its
customers have, since its locks keep others from adding one; one that neither blocks nor overwrites
changes no membership there is, only adds; and who it leaves blocklisted gets nothing active.
`StatementFits` is the same for a statement in its snapshot, `FormFits` and `RequestFits` for what a page or a
request remembers. With these a lemma per operation shows what a commit does to the rows
of a refusal. `ClaimsHaveConsent` then needs that the claim asks the rows, not the snapshot.
`SharedCustomersAreSpared` needs that the memberships are read again under the locks of the customers
that the deletion waited for.

### The pools

`PoolsInv` has no hypothesis: it holds in every scenario, also with updates that span other
steps.

- `RowsPlaced`: a row is of an allocation that exists, and while the campaign is unfinished
  no row of a selected pool is of a detached one, since an allocation the campaign refers to
  is not detached, and a refresh gives a row none that is not active. `RowsRefreshed` says of each
  contact what the pools refreshed since the last change have settled for it (`Refreshes`).
  That set grows by one pool with each transaction of a scan, and an update attaches its
  pools in a sequence, of which only the contact's own pool and the last one that reaches it
  count (`Attached`, `AttachedWell`). With `fresh = audience` this is `SnapshotExact`.
- `TurnsFair`: who was passed comes, in the rotation that starts at the cursor, before everybody
  who passed it; so it is visited first, and is served or has nothing to claim. A changed
  rotation starts the count again, and keeps the order of those who stay (`Orders`).
- `PipeWorks`: what the pipe read before the claim still holds at the claim, for nobody is
  queued behind its back. Hence an empty batch with nothing in flight means that the round
  is empty or all servers are used up, and a round that is the least of a finite set of counts
  is attained (`RoundAttained`): this is `AnswersRight`.
- `HistoryIsKept` has no hypothesis, and rests on two parts of `HistoryInv`. The first counts:
  a contact's messages and failures fit its marks, what is on the way and what was `lost`
  (`CountsHold`), so that a claim after a deletion is paid for by the deletion; it holds
  whatever overlaps. The second is about updates before the first overtaken one: a draft has no
  used row and nothing on the way (`DraftIdle`, `PipeEmpty`), what a scan has yet to refresh is
  selected (`ScansSelected`), hence all rows are of selected pools, and an update that finds
  rows used keeps the audience and rebuilds nothing (`Rebuilds`). With both, a used row goes
  only once an update was overtaken.

### Accounts, keys and sessions

`AccessInv` is what requests under way have left to do and what they hold.

- `RequestsFit`: what is left of a request is one of a few `Plans`, a set closed under doing the
  first step; every plan that sets a password still has to end sessions afterwards, and a
  session is stored after that and not before. This is `SessionsEnd`: an outdated
  session has a request `Ending` its user, and only the step that ends it, or a failure that
  marks the session as kept, takes that away.
- `LinksFit`: a reset link is held by the store or carried by one request that took it
  out, never both, and neither by two; so its count stays at one (`LinksOnce`).
- `EditsFit`: an open edit counted another administrator in its snapshot unless it keeps its own.
  Together with the lock of a deletion, which waits for open edits, this gives `AdminKept` with
  just the exceptions that it names.
- Ids come from sequences (`SerialsFit`), so that a new row is nobody's old one: a session, a link
  or a cached key never comes to belong to another account.
- `CacheInv` is for `CacheCurrent`. `CacheCurrent` speaks of states with no refresh left to do, so
  the invariant says what holds on the way there. A request that changed a row and has not read
  the accounts again owes a refresh (`OwingPlans`); one that has read them renews the cache, and
  while refreshes do not overlap there is at most one. When nobody owes one, what the renewing
  request has read `Agrees` with the rows, its keys are those of the rows and perhaps some that
  have expired since (`Listed`), and the first map is replaced before the second; when nobody
  renews either, what is stored is current. A step that changes what the cache rests on leaves
  somebody owing a refresh, and any other leaves both sides of the comparison alone
  (`Undisturbed`); a token that is changed without a refresh ends the claim until the next one.

### The library

`AssetsInv` is one formula over folders, files and what shows them.

- `FoldersFit`: the folders above a folder are the least set that is closed under parents, so
  that "is above" needs no recursion: whatever contains a folder and is closed contains them
  (`AboveLeast`). A move that hangs a folder below one it is not above keeps the tree
  acyclic (`TreeMove`), and what `CheckMove` saw is still true when `MoveFolder` writes,
  since in the organization one move is open at a time (`MoveFits`) and nothing else changes
  a parent.
- `StoreFits`: a name that two never had at a time is that of one upload, of one removal, or of
  files with one content (`NamesFit`). Copies name the object of their original, so the last
  row that names an object is the one whose deletion may remove it. This is the first part of
  `FilesKept`; `LinksFit`, that a stored link belongs to what was read for it, is the second:
  ids are not given out again, so the file that a link names is the file it was issued for.
- `RowsFit`: a body names no file that is yet to come (an upload without a row), and the files of
  a template that exist are associated with it. The latter makes a clone of a template complete: it
  copies what is associated, and would leave the rest to its old owner.
- `CopiesFit` is `StandsAlone` with the domains. A clone rewrites a body by the copies
  of its files, and whoever takes over a body takes over its files in the same step (`Follows`): who
  leaves loses both to the organization, but for the copies that go with a global template, and
  who inherits gets both. An id that a copy
  shows and that has no row never gets one, so nothing new appears in it.
- `OneDefault` excepts rows that await an owner: they may have been the defaults of several. Hence an
  heir must get them as no defaults (`Inherited`). The default that the campaigns of a
  deleted template get is the least of a finite set of ids, and one their owner may use.

### Only model-checked

Liveness under fairness (`RunningEnds`, `WorkEnds`, `RunningSettles`, `SessionsSettle`) is
beyond the prover. Every safety invariant and action property of the runs has a theorem.

## Observations

Where the code, its comments and its documents disagree, or it does what a reader would not
expect. Each violates a property of a run under other bounds, or shows in a trace, and is
excluded from the passing runs as named.

Campaigns. The scanner finishes by an unconditional update and overwrites a pause or a
cancellation written since it counted (`cmd/manager_store.go:248`; `BackgroundStatus`,
which is proved, states this exception). After a crash only private rows are reset; a pool row left queued
keeps a place of the limit and the scheduler waits for a delivery nobody makes
(`cmd/manager_store.go:232`; `NoWaitForNobody` and `NoStrandedRow` except crashes). A deferral that
cannot be stored ends the pipe as a natural finish, or leaves the scheduler waiting
(`internal/manager/pipe.go:316`, `:335`; `FinishedIsSettled` names the pipe that was left `early`,
`NoWaitForNobody` excepts faults, `RunningEnds` runs without). A pause before the pipe is registered has nothing to stop; a quick resume lets the
old pipe finish the campaign (`pipe.early` again, against `docs/harness/BUSINESS_LOGIC.md:83`). When
a pipe is deferred by its cap, a user may resume the campaign while its messages drain; the
resume ends the retry round that the campaign was in, and the old messages are out of order
(`RoundOrder` leaves out stopped and deferred pipes). An
unsubscription cancels the row of an accepted, unrecorded delivery and frees its place: the
day ends above its limit (`core/campaigns.go:223`; the ledger is checked and proved without). Deleted
customers stay in the historical successes and leave the live total: a reloaded campaign
finishes early (`cmd/manager_store.go:246`; named in `FinishedIsSettled` and `Misled`). Cancelling rewrites private rows
only, against the comment at `core/workspace_resource_writes.go:185`; so do removals and
archivals of members and organizations. The SMTP removal takes no status lock
(`cmd/personal_smtp.go:417`, against `docs/harness/BUSINESS_LOGIC.md:83`).

Servers. A failing commit of the quota leaves an accepted message uncounted and reported
as failed, and so sent again.

Pools. A contact excluded between claim and send fails the check, records a failure and
stops the pipe with reason pause while the campaign stays running. Clearing an address and
editing it makes a blocklisted contact active; creating or editing a contact ignores that
its address is blocklisted. Pruning an organization, or editing a paused campaign, keeps
the rotation's index for another order. A cursor whose server vanished starts over; two
organizations' cursors may over-assign a server's last quota. An update decides before
its transaction what it rebuilds (`cmd/campaigns.go:583-613`), and the check that is repeated under the lock counts private
recipients only (`core/workspace_resource_writes.go:44`, against the comment above it): a campaign
that was started meanwhile loses its queued and sent rows, and its contacts may be mailed again
(`HistorySurvives`, the finding of `survives`; found by the proof of `HistoryKept`). An edit without rebuild
deletes rows of pools no longer selected whatever their status; a row deleted and created
again through another pool loses its sender. Such rows exist after a second overlap: a
scan reads the audience, a user pauses, an update selects other pools (allowed while there
are no recipients), and the scan then refreshes the pools it read (`core/pools.go:1977`) and
puts rows back that belong to no selected pool. Until the next update they are claimed and
mailed like others (for all organizations only where their organization is in the rotation, and
they hold up the round of the rest); their allocation may be detached meanwhile; and that
update deletes them, sent ones too, so that the contact gets a second row and a second
message, against what `core/pools.go:1791` promises of history. `SnapshotExact` and
`AnswersRight` speak of selected pools for this reason; `HistoryKept` counts what such
deletions cost. Restoring an active member lifts an exclusion
by unsubscription. An organization archived while an all-organizations campaign is paused
blocks its resume for good.

Organizations. A failure while the reply routes of a removed member are closed returns before
the loop that stops their campaigns (`cmd/organizations.go:740`, against the comment at `:744`):
the pipe goes on for the former owner. Deleting accounts can leave an active organization without a manager
(against the comments at `core/organizations.go:169` and `:1384`), and an archived one whose
members are all deleted can be neither transferred nor purged. Removing a member resets
queued rows while a message may be with a worker. Deleting accounts stops no pipe and
detaches no global template. Operations other than creating an invitation do not recheck
the caller's role under the lock. A merge lets a confirmed subscription override an
unsubscribed one.

Audience. A customer whose bounce blocklists them after the snapshot is claimed and mailed:
the claim looks at the memberships, not at the status (`queries/bounces.sql:36`,
`queries/campaigns.sql:1388`, against `i18n/en.json:1627`). Unsubscribing by a campaign's link and the blocklisting of bounced customers
(`queries/customers.sql:357`, `core/workspace_bounces.go:139`) are statements without a lock
of their own: a membership that an open import inserts meanwhile stays active, against the
comment at `customers.sql:360` (`RefusalHolds` counts the locked paths). The preferences page
writes back the status it read and so enables a customer who was blocklisted in between
(`cmd/public.go:372`). The removal of orphans deletes one who subscribes while it waits. The
one-click unsubscription of an opt-in e-mail, which names no campaign, answers
"unsubscribed" and changes nothing (`cmd/public.go:312`). The opt-in page confirms every
list of its link, also those that were left meanwhile; with no list in the link it confirms
none and answers that it did.

Replies. `record-bounce` has no key of the event: a provider's retry of a batch counts a
bounce again that was recorded the first time, against the comment at `cmd/bounce.go:334`
(`WellKept` counts what providers sent, not what happened). A third attempt whose holder crashes stays `processing` with its body for ever.
A forward whose success is not written is handed over again (`ForwardedOnce` names this). A
report read while the owner's account is disabled leaves no row, yet the cursor advances.
A forwarded message in the sending queue is lost by a crash. A running round does not
notice that its rule was disabled.

Imports. A session that ends between the claim and the publication of the next admission
loses its terminal event (`cmd/import.go:329`, against `cmd/import_audit.go:9`; `AuditExact`
and `SessionsSettle` name it as `overtaken`). A read error of the file publishes `failed` but leaves the queue open: the writer
blocks for ever with an open transaction and goes on writing, and counting into the next
session's total. With two faults the old loader marks the next session failed. A stop whose
signal comes late ends the next session, reported as finished with rows missing. An insert
that fails on the first row of a batch reports `finished`. `AuditExact` asks for the own
outcome while at most one step failed.

Accounts. `update-user` counts the other administrators in its snapshot and takes no lock: two
edits that demote each other's administrator leave none, although the comment in
`core/users.go` says so of deletions only; an edit that makes the last one a service account
passes the same guard, and the deletion of a role over lists takes its accounts along. The
deletion of two or more accounts at once deletes nobody (`id = ALL`). Overlapping refreshes may
store the older cache last, a failed one leaves it: a revoked key is accepted until the next.
An account of the configuration file is wiped from the cache by the first refresh
(`cmd/init.go:1347`). Rotating a key that expired meanwhile exceeds the limit. A login checked
with the old password stores its session after the others were ended, and a challenge survives
a reset; a failing end is logged only, and a restart in between keeps the sessions. A new
password is committed and the row read again before sessions are ended; if that read fails
(`core/users.go:208`, `:384`), the handlers return (`cmd/users.go:438`, `:690`, `cmd/auth.go:769`)
and every old session goes on, with no request left to end it, although `cmd/auth.go:774` asks that
every one "must stop working" (`FailReread`; `SessionsEnd` names it). A session that cannot be stored
ends an edit before its refresh (`FailToSave`). Two
verifications of one challenge both pass. Two reset links of an account are spent in the order
of their writes, not of their issue. A profile change renews no cache (`cmd/users.go:652`): a service
account that sets itself another token by it goes on with the old one until the next refresh
(`CacheCurrent` names this).

Library. Moves of personal folders take no common lock: two moves of one user, each checked
before the other writes, make a cycle (`core/media_folders.go:465`; `LibraryTree` asks for no
cycle in the organization only). `MediaFilenameExists` is read without a lock: two uploads of one name, or an upload
beside the removal of the last row of that name, overwrite or lose an object
(`core/media.go:74`; `contested`). So does the deletion of two clones in two workspaces the
other way round: each sees the other's row and the object stays for good. Attachments are
read by the file's own visibility while the start of a campaign asks for the folder's
(`core/workspace_resource_writes.go:441`): a campaign with another member's private file in a
shared folder starts, cannot be cloned, and its attachments are refused. That a campaign may
still be edited is decided by its handler only (`cmd/campaigns.go:515`). The transactional
templates kept in memory are written after the transactions, in no order
(`cmd/templates.go:181`).

## Not modelled, and why

- Several campaigns at once. Pipes meet only in `nextPipes` and `campMsgQ`; a full
  `nextPipes` is a fault of the sender, a full `campMsgQ` only delays.
- A campaign whose messenger is unknown (`newPipe` cancels it), and the sending of opt-in
  campaigns and through other messengers than e-mail: no limit, no retry rounds. Whom an
  opt-in campaign takes is in `SelfService`.
- Graceful shutdown (`Manager.Close`) of campaigns: a restart is `Crash`, the stronger case
  for what survives. What it does to deliveries is in `SmtpDelivery`.
- The resume time as a wall clock: a deferral resumes on a later day.
- Rendering, tracking and linked media of messages: they delay or fail a message.
- Audience: names, attributes, exports, the archive, tracking; the order in which the rows
  of one statement are locked, so no deadlock between two statements of several customers.
- Organizations: several at once, names and settings, user roles, deletion of a campaign.
- Replies: creation and deletion of a mailbox, soft bounces of providers, automatic
  replies, reports without recipient, personal mailboxes (the same without membership),
  UID validity, messages too large for one connection.
- Accounts: captcha, the wording of failures, avatars, `last-login`, permissions one by one,
  the provider's own checks, expiry by a clock.
- Library: platform administrators, the permission to share assets, unique folder names,
  thumbnails, the library of an archived organization, files a body names without a link,
  transactional templates.
- Imports: parsing, invalid rows, temporary files, the synchronous import of a pool.
- Everything listed as `not_modelled` in `PROJECT.json`, for the reason given there.

## Plan

Next, in this order: who may read what of a workspace, and settings with the restart.
