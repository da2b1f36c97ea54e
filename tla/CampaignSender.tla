--------------------------- MODULE CampaignSender ---------------------------
(***************************************************************************)
(* How one e-mail campaign is sent: the scanner, the scheduler loop, the   *)
(* workers and the cleanup goroutine of internal/manager, the users who    *)
(* start, pause, cancel and retry the campaign, and the crashes of the     *)
(* process, over the database of CampaignStore.                            *)
(*                                                                         *)
(* A step is one database transaction, one critical section or one channel *)
(* operation, with the in-memory writes that follow it and that no other   *)
(* goroutine can tell from it.                                             *)
(***************************************************************************)
EXTENDS CampaignStore

CONSTANTS
    MaxSendErrors,    \* cfg.MaxSendErrors: 0 disables the threshold
    SmtpAnswers,      \* what the SMTP pool may answer to "how much quota is left"
    MaxDay,           \* bound: local days that pass
    MaxUserOps,       \* bound: status changes, retries, recipients taken away
    MaxUnsubs,        \* bound: pool contacts that unsubscribe by their link
    MaxRemovals,      \* bound: recipients deleted or transferred
    MaxSmtpRemovals,  \* bound: removals of the owner's last SMTP server
    MaxFaults,        \* bound: failing writes and reads, full queues, vanished senders
    MaxCrashes        \* bound: crashes of the process

ASSUME SenderAssumption ==
    /\ MaxSendErrors \in Nat
    /\ SmtpAnswers \subseteq Nat \cup {-1}
    /\ MaxDay \in Nat /\ MaxUserOps \in Nat /\ MaxUnsubs \in Nat /\ MaxRemovals \in Nat
    /\ MaxSmtpRemovals \in Nat /\ MaxFaults \in Nat /\ MaxCrashes \in Nat

\* A message is kept per recipient.  A resume that races the removal of the last
\* SMTP server could put a second one on its way; instances keep the two apart.
ASSUME OneMessageAssumption == MaxSmtpRemovals = 0 \/ MaxUserOps = 0

VARIABLES
    db,         \* the database
    pipe,       \* the pipe of the campaign and its entry in manager.pipes
    sched,      \* where the scheduler reference of the pipe is
    claim,      \* what NextCustomers holds between its queries and its pushes
    msg,        \* the message of each recipient, from campMsgQ to its settlement
    tail,       \* workers that released their row and have not called messageDone
    clean,      \* the cleanup goroutine
    scan,       \* the scanner
    user,       \* the status handler; not "idle": it holds the status lock
    smtp,       \* the handler that removed the last SMTP server
    used,       \* how much of each bound is spent, and the local day
    delivered   \* history: how often the SMTP server accepted each recipient

vars == <<db, pipe, sched, claim, msg, tail, clean, scan, user, smtp, used, delivered>>

-----------------------------------------------------------------------------
(* Types. *)

Reasons == {"none", "pause", "cancelled", "deferred", "smtp"}

PipeRecord ==
    [ live       : BOOLEAN,   \* registered in manager.pipes
      wg         : Int,       \* wait group
      stopped    : BOOLEAN,
      reason     : Reasons,
      withErrors : BOOLEAN,
      deferred   : BOOLEAN,
      progress   : BOOLEAN,   \* a token in the progress channel
      errors     : Nat,
      manual     : BOOLEAN,   \* history: a user's stop signal reached it
      early      : BOOLEAN ]  \* history: the scheduler left it for another reason
                              \* than a stop or that nobody is left

\* The reason is stored before the flag, so cleanup finds a case for it.
Pipe == {p \in PipeRecord : p.stopped => p.reason # "none"}

Scheds == {"none", "queued", "claim", "push", "defer", "waiting"}
Claims == [n : Nat, hadQueued : BOOLEAN, batch : SUBSET Recipients]
Msgs == {"none", "queued", "sending", "accepted", "failed", "quota"}
Cleans == {"none", "top", "errors", "errorsDone", "pause", "defer", "cancel", "smtp", "finish"}
Scans == {"idle", "selected", "claimed", "reset", "finish", "start"}

Tails == [ok : Nat, error : Nat]
Uses == [day : Nat, ops : Nat, unsubs : Nat, removals : Nat, smtp : Nat, faults : Nat,
         crashes : Nat]

UnusedPipe(live, wg) ==
    [live |-> live, wg |-> wg, stopped |-> FALSE, reason |-> "none", withErrors |-> FALSE,
     deferred |-> FALSE, progress |-> FALSE, errors |-> 0, manual |-> FALSE,
     early |-> FALSE]
NoPipe == UnusedPipe(FALSE, 0)
NewPipe == UnusedPipe(TRUE, 1)
NoClaim == [n |-> 0, hadQueued |-> FALSE, batch |-> {}]
NoMsgs == [r \in Recipients |-> "none"]
NoTail == [ok |-> 0, error |-> 0]

TypeOK ==
    /\ db \in DB
    /\ pipe \in Pipe
    /\ sched \in Scheds
    /\ claim \in Claims
    /\ msg \in [Recipients -> Msgs]
    /\ tail \in Tails
    /\ clean \in Cleans
    /\ scan \in [at : Scans, from : CampaignStatuses]
    /\ user \in {"idle", "paused", "cancelled"}
    /\ smtp \in {"idle", "stop"}
    /\ used \in Uses
    /\ delivered \in [Recipients -> Nat]

-----------------------------------------------------------------------------
(* Shared pieces. *)

\* pipe.Stop: the first call wins.
Stop(p, why, withErrors) ==
    IF p.stopped
    THEN p
    ELSE [p EXCEPT !.stopped = TRUE, !.reason = why, !.withErrors = withErrors]

Done(p) == [p EXCEPT !.wg = @ - 1]
\* Mutant of MessageDone: nobody is told.
MessageDoneSilent(p) == Done(p)

MessageDone(p) == [Done(p) EXCEPT !.progress = TRUE]

OnError(p) ==
    LET counted == [p EXCEPT !.errors = @ + 1]
    IN  IF MaxSendErrors > 0 /\ counted.errors >= MaxSendErrors
        THEN Stop(counted, "pause", TRUE)
        ELSE counted

\* Mutant of StopCampaign: a pipe that stopped by itself keeps its reason.
StopCampaignLate(p, why) ==
    IF p.live THEN [Stop(p, why, FALSE) EXCEPT !.manual = TRUE] ELSE p

\* manager.StopCampaign: explicit control supersedes an automatic stop.
StopCampaign(p, why) ==
    IF p.live
    THEN [Stop(p, why, FALSE) EXCEPT !.withErrors = FALSE, !.reason = why, !.manual = TRUE]
    ELSE p

\* Mutant of StatusLockFree: nobody takes the lock.
StatusUnlocked == TRUE

StatusLockFree == user = "idle"
InFlight == {r \in Recipients : msg[r] # "none"}

\* Claimed and still to be attempted; and also accepted but not yet recorded.
OnTheWay == claim.batch \cup {r \in Recipients : msg[r] \in {"queued", "sending"}}
Held == claim.batch \cup {r \in Recipients : msg[r] \in {"queued", "sending", "accepted"}}

\* Unsent recipients that may still be sent to.
Open == In(db, Unsent) \cap db.deliverable

Spend(what) == used' = [used EXCEPT ![what] = @ + 1]
FaultLeft == used.faults < MaxFaults

\* No sender is enabled: the last one was removed, or for a reason outside.
NoSenderOrFault ==
    \/ FaultLeft /\ Spend("faults")
    \/ used.smtp > 0 /\ UNCHANGED used

\* The scheduler reference is given up with the pipe as p.
ReleaseSched(p) ==
    /\ sched' = "none"
    /\ claim' = NoClaim
    /\ pipe' = Done(p)

-----------------------------------------------------------------------------
Init ==
    /\ db \in [ status : {"draft", "scheduled", "running"}, sendAt : BOOLEAN,
                resumeDay : {0}, retryMode : {FALSE},
                rcpt : {[r \in Recipients |-> "pending"]},
                fails : {[r \in Recipients |-> 0]},
                selected : {{}}, counted : {Recipients}, deliverable : {Recipients},
                sentToday : {0} ]
    /\ db.status = "scheduled" => db.sendAt
    /\ db.status = "running" => ~db.sendAt
    /\ pipe = NoPipe
    /\ sched = "none"
    /\ claim = NoClaim
    /\ msg = NoMsgs
    /\ tail = NoTail
    /\ clean = "none"
    /\ scan = [at |-> "idle", from |-> "draft"]
    /\ user = "idle"
    /\ smtp = "idle"
    /\ used = [day |-> 0, ops |-> 0, unsubs |-> 0, removals |-> 0, smtp |-> 0,
               faults |-> 0, crashes |-> 0]
    /\ delivered = [r \in Recipients |-> 0]

-----------------------------------------------------------------------------
(* The scanner: scanCampaigns and store.NextCampaigns. *)

\* Mutant of ScanSelect: a campaign that has a pipe is loaded again.
ScanSelectAgain ==
    /\ scan.at = "idle"
    /\ \/ db.status \in {"running", "scheduled"}
       \/ db.status = "deferred" /\ used.day >= db.resumeDay
    /\ scan' = [at |-> "selected", from |-> db.status]
    /\ UNCHANGED <<db, pipe, sched, claim, msg, tail, clean, user, smtp, used, delivered>>

\* The campaign has no pipe, and it runs, or its send or resume time has come.
ScanSelect ==
    /\ scan.at = "idle"
    /\ ~pipe.live
    /\ \/ db.status \in {"running", "scheduled"}
       \/ db.status = "deferred" /\ used.day >= db.resumeDay
    /\ scan' = [at |-> "selected", from |-> db.status]
    /\ UNCHANGED <<db, pipe, sched, claim, msg, tail, clean, user, smtp, used, delivered>>

\* SetCampaignRunning affects no row when the status changed in between.
ScanClaim ==
    /\ scan.at = "selected"
    /\ IF scan.from = "running"
       THEN db' = db /\ scan' = [scan EXCEPT !.at = "claimed"]
       ELSE IF db.status \in {"scheduled", "deferred"}
            THEN db' = SetRunning(db) /\ scan' = [scan EXCEPT !.at = "claimed"]
            ELSE db' = db /\ scan' = [scan EXCEPT !.at = "idle"]
    /\ UNCHANGED <<pipe, sched, claim, msg, tail, clean, user, smtp, used, delivered>>

\* The reply mailbox is gone.
ScanReplyInvalid ==
    /\ scan.at = "claimed"
    /\ FaultLeft
    /\ Spend("faults")
    /\ db' = StartFailure(db, scan.from)
    /\ scan' = [scan EXCEPT !.at = "idle"]
    /\ UNCHANGED <<pipe, sched, claim, msg, tail, clean, user, smtp, delivered>>

ScanReset ==
    /\ scan.at = "claimed"
    /\ db' = ExhaustRetries(ResetPrivateQueued(db))
    /\ scan' = [scan EXCEPT !.at = "reset"]
    /\ UNCHANGED <<pipe, sched, claim, msg, tail, clean, user, smtp, used, delivered>>

\* SyncCampaignProgress.
ScanSync ==
    /\ scan.at = "reset"
    /\ scan' = [scan EXCEPT !.at = IF AllSent(db) THEN "finish" ELSE "start"]
    /\ UNCHANGED <<db, pipe, sched, claim, msg, tail, clean, user, smtp, used, delivered>>

ScanFinish ==
    /\ scan.at = "finish"
    /\ db' = ForceFinished(db)
    /\ scan' = [scan EXCEPT !.at = "idle"]
    /\ UNCHANGED <<pipe, sched, claim, msg, tail, clean, user, smtp, used, delivered>>

\* newPipe, and the offer of the pipe to nextPipes.
ScanStart ==
    /\ scan.at = "start"
    /\ pipe' = NewPipe
    /\ sched' = "queued"
    /\ scan' = [scan EXCEPT !.at = "idle"]
    /\ UNCHANGED <<db, claim, msg, tail, clean, user, smtp, used, delivered>>

\* nextPipes is full.
ScanStartFull ==
    /\ scan.at = "start"
    /\ FaultLeft
    /\ Spend("faults")
    /\ pipe' = Done(Stop(NewPipe, "pause", FALSE))
    /\ scan' = [scan EXCEPT !.at = "idle"]
    /\ UNCHANGED <<db, sched, claim, msg, tail, clean, user, smtp, delivered>>

\* newPipe finds no SMTP, no template or no valid media.
ScanStartFails ==
    /\ scan.at = "start"
    /\ NoSenderOrFault
    /\ db' = StartFailure(db, scan.from)
    /\ scan' = [scan EXCEPT !.at = "idle"]
    /\ UNCHANGED <<pipe, sched, claim, msg, tail, clean, user, smtp, delivered>>

Scanner ==
    \/ ScanSelect \/ ScanClaim \/ ScanReplyInvalid \/ ScanReset \/ ScanSync
    \/ ScanFinish \/ ScanStart \/ ScanStartFull \/ ScanStartFails

-----------------------------------------------------------------------------
(* The scheduler loop: Run, pipe.NextCustomers and store.NextCustomers. *)

SchedStopped ==
    /\ sched = "queued"
    /\ pipe.stopped
    /\ ReleaseSched(pipe)
    /\ UNCHANGED <<db, msg, tail, clean, scan, user, smtp, used, delivered>>

\* The scheduler leaves, and what it saw of the status is kept.
NotRunning(p) == [p EXCEPT !.early = @ \/ db.status # "running"]

\* Mutant of SchedRead: nobody waits for the recipients that are queued.
SchedReadHasty ==
    /\ sched = "queued"
    /\ ~pipe.stopped
    /\ IF db.status # "running" \/ Counted(db, Unsent) = {}
       THEN ReleaseSched(NotRunning(pipe))
       ELSE \E left \in SmtpAnswers :
              LET queued == Cardinality(Counted(db, {"queued"}))
                  limit  == BatchLimit(db.sentToday, queued, left)
              IN  IF limit.n = 0 /\ ~limit.deferred
                  THEN ReleaseSched(pipe)
                  ELSE /\ sched' = IF limit.deferred THEN "defer" ELSE "claim"
                       /\ claim' = IF limit.deferred THEN NoClaim
                                   ELSE [n |-> limit.n, hadQueued |-> queued > 0, batch |-> {}]
                       /\ pipe' = pipe
    /\ UNCHANGED <<db, msg, tail, clean, scan, user, smtp, used, delivered>>

\* GetCampaignSendState and the batch decision, before anything is claimed.
SchedRead ==
    /\ sched = "queued"
    /\ ~pipe.stopped
    /\ IF db.status # "running" \/ Counted(db, Unsent) = {}
       THEN ReleaseSched(NotRunning(pipe))
       ELSE \E left \in SmtpAnswers :
              LET queued == Cardinality(Counted(db, {"queued"}))
                  limit  == BatchLimit(db.sentToday, queued, left)
              IN  /\ sched' = IF limit.deferred THEN "defer"
                              ELSE IF limit.n = 0 THEN "waiting" ELSE "claim"
                  /\ claim' = IF limit.n = 0 THEN NoClaim
                              ELSE [n |-> limit.n, hadQueued |-> queued > 0, batch |-> {}]
                  /\ pipe' = pipe
    /\ UNCHANGED <<db, msg, tail, clean, scan, user, smtp, used, delivered>>

SchedClaim ==
    /\ sched = "claim"
    /\ \E batch \in SUBSET Recipients :
         /\ IsClaim(db, claim.n, batch)
         /\ db' = Claim(db, batch)
         /\ IF batch # {}
            THEN /\ sched' = "push"
                 /\ claim' = [claim EXCEPT !.batch = batch]
                 /\ pipe' = pipe
            ELSE IF claim.hadQueued
                 THEN sched' = "waiting" /\ claim' = NoClaim /\ pipe' = pipe
                 ELSE ReleaseSched(NotRunning(pipe))
    /\ UNCHANGED <<msg, tail, clean, scan, user, smtp, used, delivered>>

\* A query fails.  The private customers may already be claimed when the pool
\* query does, and the loop stops the pipe.
SchedFails ==
    /\ (sched = "queued" /\ ~pipe.stopped) \/ sched = "claim"
    /\ FaultLeft
    /\ Spend("faults")
    /\ \/ db' = db
       \/ /\ sched = "claim"
          /\ \E batch \in SUBSET Recipients :
               /\ IsClaim(db, claim.n, batch)
               /\ Cardinality(batch \cap Private) < claim.n
               /\ db' = Claim(db, batch \cap Private)
    /\ ReleaseSched(Stop(pipe, "pause", FALSE))
    /\ UNCHANGED <<msg, tail, clean, scan, user, smtp, delivered>>

\* No sender of the campaign's scope is eligible: ErrPoolSMTPUnavailable.
SchedNoSender ==
    /\ sched = "claim"
    /\ FaultLeft
    /\ Spend("faults")
    /\ ReleaseSched(Stop(pipe, "smtp", FALSE))
    /\ UNCHANGED <<db, msg, tail, clean, scan, user, smtp, delivered>>

\* The campaign's daily cap: the queued messages drain, nobody else is claimed.
SchedDefer ==
    /\ sched = "defer"
    /\ pipe.stopped \/ StatusLockFree
    /\ IF ~pipe.stopped /\ db.status = "running"
       THEN /\ db' = Defer(db, used.day + 1)
            /\ ReleaseSched([pipe EXCEPT !.deferred = TRUE])
       ELSE /\ db' = db
            /\ ReleaseSched(Stop(pipe, "pause", FALSE))
    /\ UNCHANGED <<msg, tail, clean, scan, user, smtp, used, delivered>>

\* DeferCampaign fails, or the computed resume time does not read back as the
\* configured one: deferCampaign returns and so does NextCustomers.
SchedDeferFails ==
    /\ sched = "defer"
    /\ ~pipe.stopped /\ StatusLockFree
    /\ FaultLeft
    /\ Spend("faults")
    /\ ReleaseSched([pipe EXCEPT !.early = TRUE])
    /\ UNCHANGED <<db, msg, tail, clean, scan, user, smtp, delivered>>

\* Rendered, counted and handed to the workers.
SchedPush ==
    /\ sched = "push"
    /\ ~pipe.stopped
    /\ \E r \in claim.batch :
         /\ msg' = [msg EXCEPT ![r] = "queued"]
         /\ claim' = [claim EXCEPT !.batch = @ \ {r}]
         /\ pipe' = [pipe EXCEPT !.wg = @ + 1]
    /\ UNCHANGED <<db, sched, tail, clean, scan, user, smtp, used, delivered>>

\* The message cannot be rendered: a failure event, and the row is released.
\* Either write may fail, which stops the pipe.
SchedRenderFails ==
    /\ sched = "push"
    /\ ~pipe.stopped
    /\ FaultLeft
    /\ Spend("faults")
    /\ \E r \in claim.batch, recorded, released \in BOOLEAN :
         LET failed == IF recorded THEN RecordFailure(db, r) ELSE db
             broken == ~(recorded /\ released)
         IN  /\ db' = IF released THEN MarkPending(failed, r) ELSE failed
             /\ pipe' = OnError(IF broken THEN Stop(pipe, "pause", TRUE) ELSE pipe)
             /\ claim' = [claim EXCEPT !.batch = @ \ {r}]
    /\ UNCHANGED <<sched, msg, tail, clean, scan, user, smtp, delivered>>

\* Mutant of SchedAbandon: the scheduler reference leaks.
SchedAbandonLeaks ==
    /\ sched = "push"
    /\ pipe.stopped /\ claim.batch # {}
    /\ sched' = "none"
    /\ claim' = NoClaim
    /\ UNCHANGED <<db, pipe, msg, tail, clean, scan, user, smtp, used, delivered>>

\* The pipe is stopped in the middle of a batch; the rest stays queued.
SchedAbandon ==
    /\ sched = "push"
    /\ pipe.stopped /\ claim.batch # {}
    /\ ReleaseSched(pipe)
    /\ UNCHANGED <<db, msg, tail, clean, scan, user, smtp, used, delivered>>

SchedRequeue ==
    /\ sched = "push"
    /\ claim.batch = {}
    /\ sched' = "queued"
    /\ claim' = NoClaim
    /\ UNCHANGED <<db, pipe, msg, tail, clean, scan, user, smtp, used, delivered>>

\* nextPipes is full.
SchedRequeueFull ==
    /\ sched = "push"
    /\ claim.batch = {}
    /\ FaultLeft
    /\ Spend("faults")
    /\ ReleaseSched(Stop(pipe, "pause", FALSE))
    /\ UNCHANGED <<db, msg, tail, clean, scan, user, smtp, delivered>>

\* waitForProgress: a settled message, or the stop of the pipe.
SchedWake ==
    /\ sched = "waiting"
    /\ pipe.progress
    /\ sched' = "queued"
    /\ pipe' = [pipe EXCEPT !.progress = FALSE]
    /\ UNCHANGED <<db, claim, msg, tail, clean, scan, user, smtp, used, delivered>>

\* Mutant of SchedStopWaiting: the scheduler reference leaks.
SchedStopWaitingLeaks ==
    /\ sched = "waiting"
    /\ pipe.stopped
    /\ sched' = "none"
    /\ claim' = NoClaim
    /\ UNCHANGED <<db, pipe, msg, tail, clean, scan, user, smtp, used, delivered>>

SchedStopWaiting ==
    /\ sched = "waiting"
    /\ pipe.stopped
    /\ ReleaseSched(pipe)
    /\ UNCHANGED <<db, msg, tail, clean, scan, user, smtp, used, delivered>>

Scheduler ==
    \/ SchedStopped \/ SchedRead \/ SchedClaim \/ SchedFails \/ SchedNoSender
    \/ SchedDefer \/ SchedDeferFails \/ SchedPush \/ SchedRenderFails
    \/ SchedAbandon \/ SchedRequeue \/ SchedRequeueFull \/ SchedWake \/ SchedStopWaiting

-----------------------------------------------------------------------------
(* A worker with the message of r. *)

WorkerTake(r) ==
    /\ msg[r] = "queued"
    /\ IF pipe.stopped
       THEN msg' = [msg EXCEPT ![r] = "none"] /\ pipe' = MessageDone(pipe)
       ELSE msg' = [msg EXCEPT ![r] = "sending"] /\ pipe' = pipe
    /\ UNCHANGED <<db, sched, claim, tail, clean, scan, user, smtp, used, delivered>>

\* The SMTP server accepts the message.
WorkerAccepted(r) ==
    /\ msg[r] = "sending"
    /\ msg' = [msg EXCEPT ![r] = "accepted"]
    /\ delivered' = [delivered EXCEPT ![r] = @ + 1]
    /\ UNCHANGED <<db, pipe, sched, claim, tail, clean, scan, user, smtp, used>>

WorkerSent(r) ==
    /\ msg[r] = "accepted"
    /\ db' = MarkSent(db, r)
    /\ msg' = [msg EXCEPT ![r] = "none"]
    /\ tail' = [tail EXCEPT !.ok = @ + 1]
    /\ UNCHANGED <<pipe, sched, claim, clean, scan, user, smtp, used, delivered>>

\* The success cannot be written.
WorkerSentFails(r) ==
    /\ msg[r] = "accepted"
    /\ FaultLeft
    /\ Spend("faults")
    /\ msg' = [msg EXCEPT ![r] = "none"]
    /\ pipe' = MessageDone(Stop(pipe, "pause", TRUE))
    /\ UNCHANGED <<db, sched, claim, tail, clean, scan, user, smtp, delivered>>

\* The delivery fails; the event is recorded before anything else.
WorkerFailed(r) ==
    /\ msg[r] = "sending"
    /\ db' = RecordFailure(db, r)
    /\ msg' = [msg EXCEPT ![r] = "failed"]
    /\ UNCHANGED <<pipe, sched, claim, tail, clean, scan, user, smtp, used, delivered>>

\* The delivery fails and the event cannot be recorded.
WorkerFailedUnrecorded(r) ==
    /\ msg[r] = "sending"
    /\ FaultLeft
    /\ Spend("faults")
    /\ msg' = [msg EXCEPT ![r] = "failed"]
    /\ pipe' = Stop(pipe, "pause", TRUE)
    /\ UNCHANGED <<db, sched, claim, tail, clean, scan, user, smtp, delivered>>

\* The reply mailbox (a pause) or the sender account (smtp) is gone: a recorded
\* failure that stops the pipe and leaves the row queued.
WorkerBlocked(r) ==
    /\ msg[r] = "sending"
    /\ NoSenderOrFault
    /\ db' = RecordFailure(db, r)
    /\ msg' = [msg EXCEPT ![r] = "none"]
    /\ \E why \in {"pause", "smtp"} :
         /\ why = "pause" => FaultLeft
         /\ pipe' = MessageDone(Stop(pipe, why, FALSE))
    /\ UNCHANGED <<sched, claim, tail, clean, scan, user, smtp, delivered>>

\* The stop of the pipe cancels the wait before the SMTP attempt.
WorkerCancelled(r) ==
    /\ msg[r] = "sending"
    /\ pipe.stopped
    /\ msg' = [msg EXCEPT ![r] = "none"]
    /\ pipe' = MessageDone(pipe)
    /\ UNCHANGED <<db, sched, claim, tail, clean, scan, user, smtp, used, delivered>>

\* The failed recipient is released for a later round.  tail.error counts the
\* workers that have OnError and messageDone ahead of them.
WorkerRelease(r) ==
    /\ msg[r] = "failed"
    /\ db' = MarkPending(db, r)
    /\ msg' = [msg EXCEPT ![r] = "none"]
    /\ tail' = [tail EXCEPT !.error = @ + 1]
    /\ UNCHANGED <<pipe, sched, claim, clean, scan, user, smtp, used, delivered>>

WorkerReleaseFails(r) ==
    /\ msg[r] = "failed"
    /\ FaultLeft
    /\ Spend("faults")
    /\ msg' = [msg EXCEPT ![r] = "none"]
    /\ pipe' = MessageDone(OnError(Stop(pipe, "pause", TRUE)))
    /\ UNCHANGED <<db, sched, claim, tail, clean, scan, user, smtp, delivered>>

\* The SMTP account refuses the message for its own daily quota.
WorkerQuota(r) ==
    /\ msg[r] = "sending"
    /\ 0 \in SmtpAnswers
    /\ msg' = [msg EXCEPT ![r] = "quota"]
    /\ UNCHANGED <<db, pipe, sched, claim, tail, clean, scan, user, smtp, used, delivered>>

\* DeferImmediately.
WorkerDefer(r) ==
    /\ msg[r] = "quota"
    /\ pipe.stopped \/ pipe.deferred \/ StatusLockFree
    /\ msg' = [msg EXCEPT ![r] = "none"]
    /\ IF pipe.stopped
       THEN db' = db /\ pipe' = MessageDone(pipe)
       ELSE IF pipe.deferred
       THEN db' = db /\ pipe' = MessageDone(Stop(pipe, "deferred", FALSE))
       ELSE IF db.status = "running"
       THEN /\ db' = Defer(db, used.day + 1)
            /\ pipe' = MessageDone(Stop([pipe EXCEPT !.deferred = TRUE], "deferred", FALSE))
       ELSE db' = db /\ pipe' = MessageDone(Stop(pipe, "pause", FALSE))
    /\ UNCHANGED <<sched, claim, tail, clean, scan, user, smtp, used, delivered>>

\* The deferral cannot be written; the row stays queued and the pipe runs on.
WorkerDeferFails(r) ==
    /\ msg[r] = "quota"
    /\ ~pipe.stopped /\ ~pipe.deferred /\ StatusLockFree
    /\ FaultLeft
    /\ Spend("faults")
    /\ msg' = [msg EXCEPT ![r] = "none"]
    /\ pipe' = MessageDone(pipe)
    /\ UNCHANGED <<db, sched, claim, tail, clean, scan, user, smtp, delivered>>

\* The end of a worker's turn after a success.
WorkerDone ==
    /\ tail.ok > 0
    /\ tail' = [tail EXCEPT !.ok = @ - 1]
    /\ pipe' = MessageDone(pipe)
    /\ UNCHANGED <<db, sched, claim, msg, clean, scan, user, smtp, used, delivered>>

\* The end of a worker's turn after a failure.
WorkerError ==
    /\ tail.error > 0
    /\ tail' = [tail EXCEPT !.error = @ - 1]
    /\ pipe' = MessageDone(OnError(pipe))
    /\ UNCHANGED <<db, sched, claim, msg, clean, scan, user, smtp, used, delivered>>

\* The failure was unresolved media, which stops the pipe at once.
WorkerMediaError ==
    /\ tail.error > 0
    /\ FaultLeft
    /\ Spend("faults")
    /\ tail' = [tail EXCEPT !.error = @ - 1]
    /\ pipe' = MessageDone(Stop(pipe, "pause", TRUE))
    /\ UNCHANGED <<db, sched, claim, msg, clean, scan, user, smtp, delivered>>

WorkerTail == WorkerDone \/ WorkerError \/ WorkerMediaError

Worker(r) ==
    \/ WorkerTake(r) \/ WorkerAccepted(r) \/ WorkerSent(r) \/ WorkerSentFails(r)
    \/ WorkerFailed(r) \/ WorkerFailedUnrecorded(r) \/ WorkerBlocked(r)
    \/ WorkerCancelled(r) \/ WorkerRelease(r) \/ WorkerReleaseFails(r)
    \/ WorkerQuota(r) \/ WorkerDefer(r) \/ WorkerDeferFails(r)

-----------------------------------------------------------------------------
(* The cleanup goroutine: pipe.cleanup. *)

CleanStart ==
    /\ clean = "none"
    /\ pipe.live /\ pipe.wg = 0
    /\ clean' = "top"
    /\ UNCHANGED <<db, pipe, sched, claim, msg, tail, scan, user, smtp, used, delivered>>

\* The flags decide which way the pipe ends.
CleanDecide ==
    /\ clean = "top"
    /\ clean' = IF pipe.withErrors THEN "errors"
                ELSE IF pipe.stopped
                THEN CASE pipe.reason = "pause"     -> "pause"
                       [] pipe.reason = "smtp"      -> "smtp"
                       [] pipe.reason = "deferred"  -> "defer"
                       [] pipe.reason = "cancelled" -> "cancel"
                ELSE IF pipe.deferred THEN "defer" ELSE "finish"
    /\ UNCHANGED <<db, pipe, sched, claim, msg, tail, scan, user, smtp, used, delivered>>

CleanReturn == clean' = "none" /\ pipe' = NoPipe

\* Too many errors: under the status lock, unless a user took over.
CleanErrors ==
    /\ clean = "errors"
    /\ StatusLockFree
    /\ IF pipe.withErrors
       THEN db' = PauseRunning(ResetQueued(db, "pending")) /\ clean' = "errorsDone"
       ELSE db' = db /\ clean' = "top"
    /\ UNCHANGED <<pipe, sched, claim, msg, tail, scan, user, smtp, used, delivered>>

CleanErrorsDone ==
    /\ clean = "errorsDone"
    /\ IF pipe.withErrors THEN CleanReturn ELSE clean' = "top" /\ pipe' = pipe
    /\ UNCHANGED <<db, sched, claim, msg, tail, scan, user, smtp, used, delivered>>

CleanPause ==
    /\ clean = "pause"
    /\ db' = ResetQueued(db, "pending")
    /\ CleanReturn
    /\ UNCHANGED <<sched, claim, msg, tail, scan, user, smtp, used, delivered>>

CleanDefer ==
    /\ clean = "defer"
    /\ db' = ResetQueued(db, "deferred")
    /\ CleanReturn
    /\ UNCHANGED <<sched, claim, msg, tail, scan, user, smtp, used, delivered>>

CleanCancel ==
    /\ clean = "cancel"
    /\ db' = CancelUnsent(db)
    /\ CleanReturn
    /\ UNCHANGED <<sched, claim, msg, tail, scan, user, smtp, used, delivered>>

CleanSmtp ==
    /\ clean = "smtp"
    /\ StatusLockFree
    /\ IF pipe.reason = "smtp"
       THEN db' = StartFailure(db, "running") /\ CleanReturn
       ELSE db' = db /\ pipe' = pipe /\ clean' = "top"
    /\ UNCHANGED <<sched, claim, msg, tail, scan, user, smtp, used, delivered>>

\* Recipients are exhausted.  A pause and resume since the decision must let the
\* scanner load the campaign again.
CleanFinish ==
    /\ clean = "finish"
    /\ StatusLockFree
    /\ IF pipe.stopped
       THEN db' = db /\ pipe' = pipe /\ clean' = "top"
       ELSE db' = FinishRunning(db) /\ CleanReturn
    /\ UNCHANGED <<sched, claim, msg, tail, scan, user, smtp, used, delivered>>

\* What a branch may have written when its next write fails.
Halfway ==
    CASE clean = "errors" -> {db, ResetPrivateQueued(db), ResetQueued(db, "pending")}
      [] clean = "pause"  -> {db, ResetPrivateQueued(db)}
      [] clean = "defer"  -> {db, SetRows(db, In(db, {"queued"}) \cap Private, "deferred")}
      [] clean = "cancel" -> {db, SetRows(db, In(db, Unsent) \cap Private, "cancelled")}
      [] OTHER            -> {db}

\* A write fails: it is logged and the pipe ends all the same.
CleanFails ==
    /\ \/ clean \in {"pause", "defer", "cancel"}
       \/ clean \in {"errors", "smtp", "finish"} /\ StatusLockFree
    /\ clean = "errors" => pipe.withErrors
    /\ clean = "smtp" => pipe.reason = "smtp"
    /\ FaultLeft
    /\ Spend("faults")
    /\ db' \in Halfway
    /\ IF clean = "errors" THEN clean' = "errorsDone" /\ pipe' = pipe ELSE CleanReturn
    /\ UNCHANGED <<sched, claim, msg, tail, scan, user, smtp, delivered>>

Cleanup ==
    \/ CleanStart \/ CleanDecide \/ CleanErrors \/ CleanErrorsDone \/ CleanPause
    \/ CleanDefer \/ CleanCancel \/ CleanSmtp \/ CleanFinish \/ CleanFails

-----------------------------------------------------------------------------
(* Users. *)

OpLeft == used.ops < MaxUserOps

\* UpdateCampaignStatus: the transaction, then the stop signal, under the lock.
\* The checks of sender, mailbox and audience come before the lock and may be
\* stale by now; they are left out.
UserStatus(to) ==
    /\ StatusLockFree
    /\ OpLeft
    /\ Spend("ops")
    /\ MayBecome(db, to)
    /\ db' = ManualStatus(db, to)
    /\ user' = IF to \in {"paused", "cancelled"} THEN to ELSE "idle"
    /\ UNCHANGED <<pipe, sched, claim, msg, tail, clean, scan, smtp, delivered>>

UserStop ==
    /\ user # "idle"
    /\ pipe' = StopCampaign(pipe, IF user = "cancelled" THEN "cancelled" ELSE "pause")
    /\ user' = "idle"
    /\ UNCHANGED <<db, sched, claim, msg, tail, clean, scan, smtp, used, delivered>>

UserRetry ==
    /\ StatusLockFree
    /\ OpLeft
    /\ Spend("ops")
    /\ db.status = "paused"
    /\ \E chosen \in SUBSET Retryable(db) \ {{}} : db' = RetrySelected(db, chosen)
    /\ UNCHANGED <<pipe, sched, claim, msg, tail, clean, scan, user, smtp, delivered>>

\* A customer or contact leaves the lists, is blocked or excluded.
Undeliverable ==
    /\ OpLeft
    /\ Spend("ops")
    /\ \E r \in db.deliverable : db' = [db EXCEPT !.deliverable = @ \ {r}]
    /\ UNCHANGED <<pipe, sched, claim, msg, tail, clean, scan, user, smtp, delivered>>

RemoveRecipient ==
    /\ used.removals < MaxRemovals
    /\ Spend("removals")
    /\ \E r \in db.counted : db' = Remove(db, r)
    /\ UNCHANGED <<pipe, sched, claim, msg, tail, clean, scan, user, smtp, delivered>>

\* A pool contact unsubscribes by the link of a message of this campaign that
\* reached the contact, which may still be on its way through the worker.
PoolUnsubscribe ==
    /\ used.unsubs < MaxUnsubs
    /\ Spend("unsubs")
    /\ \E r \in Pool : delivered[r] > 0 /\ db' = UnsubscribePool(db, r)
    /\ UNCHANGED <<pipe, sched, claim, msg, tail, clean, scan, user, smtp, delivered>>

\* pauseUserRunningCampaigns: a transaction and a stop signal outside the lock.
SmtpRemove ==
    /\ smtp = "idle"
    /\ used.smtp < MaxSmtpRemovals
    /\ Spend("smtp")
    /\ db' = PauseForSMTP(db)
    /\ smtp' = IF db.status = "running" THEN "stop" ELSE "idle"
    /\ UNCHANGED <<pipe, sched, claim, msg, tail, clean, scan, user, delivered>>

SmtpStop ==
    /\ smtp = "stop"
    /\ pipe' = StopCampaign(pipe, "pause")
    /\ smtp' = "idle"
    /\ UNCHANGED <<db, sched, claim, msg, tail, clean, scan, user, used, delivered>>

Users ==
    \/ \E to \in CampaignStatuses : UserStatus(to)
    \/ UserStop \/ UserRetry \/ Undeliverable \/ RemoveRecipient
    \/ PoolUnsubscribe \/ SmtpRemove \/ SmtpStop

-----------------------------------------------------------------------------
(* The environment. *)

\* Midnight: the daily usage starts a new row.
NextDay ==
    /\ used.day < MaxDay
    /\ Spend("day")
    /\ db' = [db EXCEPT !.sentToday = 0]
    /\ UNCHANGED <<pipe, sched, claim, msg, tail, clean, scan, user, smtp, delivered>>

\* The process dies and is started again: only the database survives.
Crash ==
    /\ used.crashes < MaxCrashes
    /\ Spend("crashes")
    /\ pipe' = NoPipe
    /\ sched' = "none"
    /\ claim' = NoClaim
    /\ msg' = NoMsgs
    /\ tail' = NoTail
    /\ clean' = "none"
    /\ scan' = [scan EXCEPT !.at = "idle"]
    /\ user' = "idle"
    /\ smtp' = "idle"
    /\ UNCHANGED <<db, delivered>>

-----------------------------------------------------------------------------
Next ==
    \/ Scanner
    \/ Scheduler
    \/ \E r \in Recipients : Worker(r)
    \/ WorkerTail
    \/ Cleanup
    \/ Users
    \/ NextDay
    \/ Crash

Spec == Init /\ [][Next]_vars

\* Goroutines are scheduled, SMTP attempts return or time out, the ticker of
\* the scanner fires and handlers run to their end.  Users, midnight, faults
\* and crashes owe nothing.
Fairness ==
    /\ WF_vars(Scanner)
    /\ WF_vars(Scheduler)
    /\ \A r \in Recipients : WF_vars(Worker(r))
    /\ WF_vars(WorkerTail)
    /\ WF_vars(Cleanup)
    /\ WF_vars(UserStop)
    /\ WF_vars(SmtpStop)

FairSpec == Spec /\ Fairness

-----------------------------------------------------------------------------
(* Safety. *)

Outstanding ==
    (IF sched = "none" THEN 0 ELSE 1) + Cardinality(InFlight) + tail.ok + tail.error

\* The wait group of a pipe counts the scheduler reference and every message
\* whose worker has not called messageDone, no more and no less; outside a pipe
\* nobody works for the campaign, and cleanup runs when the count is zero
\* (pipe.newMessage, messageDone and the wg.Done calls of Run and
\* waitForProgress).
WaitGroupExact ==
    /\ Outstanding = pipe.wg
    /\ clean # "none" => pipe.live /\ pipe.wg = 0

\* A recipient is never claimed again while an earlier claim of the same
\* recipient is still on its way through the workers (NextCustomers against
\* worker, cleanup and the scanner's reset).
NoOverlap == claim.batch \cap InFlight = {}

\* Nobody is accepted by the SMTP server twice, unless a crash or a failed write
\* lost the record of the first time.
AtMostOnce ==
    \A r \in Recipients : delivered[r] <= 1 + used.crashes + used.faults

\* The first delivery plus MaxRetries retries is all a recipient ever fails,
\* through pauses, crashes and targeted retries.
RetryBound == \A r \in Recipients : db.fails[r] <= MaxRetries + 1

\* No stop has reached the pipe, and the campaign's cap has not deferred it: a user
\* may resume a deferred campaign, which ends its retry round, while messages drain.
Undisturbed == pipe.live /\ ~pipe.stopped /\ ~pipe.deferred

\* While a pipe runs undisturbed, whoever is being sent to has failed no more
\* often than anyone who still waits: a retry never overtakes a first attempt.
RoundOrder ==
    Undisturbed /\ db.status = "running" =>
        \A r \in Recipients, q \in Open :
            /\ msg[r] \in {"queued", "sending"}
            /\ db.retryMode => q \in db.selected
            => db.fails[r] <= db.fails[q]

\* No crash lost a message, and no write failed.
Faultless == used.crashes = 0 /\ used.faults = 0

\* Somebody will report progress: a worker, a token already in the channel, or a stop.
Reporter ==
    \/ pipe.progress \/ pipe.stopped
    \/ InFlight # {} \/ tail.ok + tail.error > 0

\* Without crashes and failing writes, the scheduler waits for progress only when
\* somebody will report it.
NoWaitForNobody == Faultless /\ sched = "waiting" => Reporter

\* Without crashes and failing writes, no recipient stays queued once the pipe
\* that queued it is gone, however the pipe ended.
NoStrandedRow == Faultless /\ ~pipe.live => In(db, {"queued"}) = {}

-----------------------------------------------------------------------------
(* Why: the parts of an inductive invariant. *)

\* A pipe that is not registered has no references, and the scanner has a campaign
\* in hand only while there is no pipe for it.
PipeAlone ==
    /\ ~pipe.live => pipe.wg = 0
    /\ scan.at # "idle" => ~pipe.live
    /\ sched # "push" => claim.batch = {}

\* Whoever is claimed and not settled cannot be claimed again.
HeldRows ==
    used.smtp = 0 => \A r \in claim.batch \cup InFlight : db.rcpt[r] \notin Waiting

\* A campaign without a sender stays halted, and so does one whose stop signal is due.
Halted ==
    /\ used.smtp <= MaxSmtpRemovals
    /\ smtp = "stop" => used.smtp > 0
    /\ used.smtp > 0 \/ user # "idle" => db.status \notin {"running", "scheduled", "deferred"}

\* Whoever may still be attempted has an attempt left.
AttemptsLeft ==
    \A r \in Recipients :
        r \in claim.batch \/ msg[r] \in {"queued", "sending"} => db.fails[r] <= MaxRetries

\* No reference is lost, nobody is held twice and nobody tried once too often, for
\* the reasons above (NextCustomers, worker, cleanup and scanCampaigns together).
Core ==
    /\ TypeOK
    /\ WaitGroupExact /\ NoOverlap /\ RetryBound
    /\ PipeAlone /\ HeldRows /\ Halted /\ AttemptsLeft

\* Every acceptance is recorded in its row, still with its worker, or lost.
Accounted ==
    \A r \in Recipients :
        /\ r \in claim.batch \/ msg[r] # "none" => db.rcpt[r] # "sent"
        /\ delivered[r] <= used.crashes + used.faults
                             + IF msg[r] = "accepted" \/ db.rcpt[r] = "sent" THEN 1 ELSE 0

\* An unregistered pipe is blank, errors stop, and a user's stop is not overruled.
PipeObeys ==
    /\ ~pipe.live => pipe = NoPipe
    /\ pipe.withErrors => pipe.stopped
    /\ pipe.manual => pipe.stopped /\ ~pipe.withErrors /\ pipe.reason \in {"pause", "cancelled"}
    /\ clean = "finish" => ~pipe.deferred

\* A queued row belongs to somebody on the way or to a stopped pipe, whose cleanup
\* gives it back.
QueuedHeld ==
    Faultless =>
        /\ pipe.reason = "smtp" => used.smtp > 0
        /\ \/ used.smtp > 0
           \/ clean = "errorsDone"
           \/ MaxUserOps = 0 /\ db.status \notin {"running", "scheduled", "deferred"}
           => In(db, {"queued"}) = {}
        /\ pipe.stopped \/ In(db, {"queued"}) \subseteq claim.batch \cup InFlight

\* Whoever was queued when the scheduler read the counts is still there or reported.
Reported ==
    Faultless /\ (sched = "waiting" \/ (sched = "claim" /\ claim.hadQueued)) => Reporter

Ended == {"cancelled", "finished"}

\* Cancelled rows are those of a campaign cancelled for good and of excluded contacts;
\* nobody is held by a finished campaign.
EndedRows ==
    /\ user = "cancelled" \/ clean = "cancel" \/ pipe.reason = "cancelled" => db.status \in Ended
    /\ db.status \notin Ended => \A r \in db.deliverable : db.rcpt[r] # "cancelled"
    /\ db.status \notin Ended => \A r \in Open : ~Exhausted(db, r)
    /\ db.status = "finished" => claim.batch = {} /\ InFlight = {}

\* Whoever is on the way in an undisturbed pipe was claimed in order, and the campaign
\* runs or its stop is due.
InOrder ==
    Undisturbed =>
        /\ OnTheWay # {} => db.status = "running" \/ user # "idle" \/ smtp # "idle"
        /\ db.status = "running" =>
             \A r \in OnTheWay, q \in Open :
                 (db.retryMode => q \in db.selected) => db.fails[r] <= db.fails[q]

\* The scheduler leaves a pipe early, or is stopped, or nobody is open; and without
\* deletions the scanner finishes only when everybody was sent.
FinishRight ==
    /\ scan.at = "finish" /\ used.removals = 0 => In(db, {"sent"}) = Recipients
    /\ sched = "claim" /\ ~claim.hadQueued => In(db, {"queued"}) \cap db.deliverable = {}
    /\ sched = "none" /\ Undisturbed /\ ~pipe.early =>
         /\ db.status = "running" \/ user # "idle" \/ used.smtp > 0
         /\ db.status = "running" /\ ~db.retryMode => Open = {}

\* Whoever is held keeps a queued row, and a batch about to be claimed fits the day.
Reserved ==
    used.unsubs = 0 /\ used.removals = 0 =>
        /\ db.status \notin Ended /\ used.smtp = 0 => \A r \in Held : db.rcpt[r] = "queued"
        /\ sched = "claim" => db.sentToday + Cardinality(Held) + claim.n <= DailyLimit

\* What is spent stays within its bound, and nobody leaves the counts before a removal.
Bounded ==
    /\ used.ops <= MaxUserOps /\ used.unsubs <= MaxUnsubs
    /\ used.removals <= MaxRemovals /\ used.faults <= MaxFaults
    /\ used.removals = 0 => db.counted = Recipients
    /\ db.deliverable \subseteq db.counted
    /\ sched = "claim" => claim.n > 0

\* Nothing is delivered, finished, waited for or left behind against the promises
\* above (the life of a pipe from newPipe to cleanup, against users and crashes).
IInv ==
    /\ Core
    /\ Accounted /\ PipeObeys /\ QueuedHeld /\ Reported /\ EndedRows
    /\ InOrder /\ FinishRight /\ Reserved /\ Bounded

-----------------------------------------------------------------------------
(* What a step may never do. *)

ByUser == used'.ops > used.ops \/ used'.smtp > used.smtp

\* The background finishes, pauses and defers a campaign only from running and
\* starts it only from scheduled or deferred; what a user paused, cancelled or
\* took back to draft stays so.  The scanner's finish, decided when all counted
\* recipients were sent, is the exception.
BackgroundStatus ==
    [][ db'.status # db.status /\ ~ByUser =>
          \/ db.status = "running"
          \/ db.status \in {"scheduled", "deferred"} /\ db'.status = "running"
          \/ db'.status = "finished" /\ scan.at = "finish" ]_vars

\* A campaign is finished only when there is no recipient left that it could still
\* have sent to, and a finished campaign takes nobody back, through stale counts,
\* retry rounds, pauses with quick resumes, midnight, crashes and failing writes
\* (cleanup and NextCampaigns decide to finish before they write it).  Two ways to
\* finish early are named: cleanup of a pipe that the scheduler left because the
\* campaign did not run just then, or because its deferral could not be stored; and
\* the scanner when deleted recipients that were sent stand in for unsent ones.
FinishedIsSettled ==
    [][ db'.status = "finished" =>
          \/ Open' = {}
          \/ db.status = "finished" /\ Open' \subseteq Open
          \/ clean = "finish" /\ pipe.early
          \/ scan.at = "finish" /\ used.removals > 0 ]_vars

\* A settled recipient stays settled: sent forever, failed until a success that
\* was already on its way.
SettledForever ==
    [][ \A r \in Recipients :
          /\ db.rcpt[r] = "sent" => db'.rcpt[r] = "sent"
          /\ db.rcpt[r] = "failed" => db'.rcpt[r] \in {"failed", "sent"} ]_vars

\* Once a user's stop has reached a pipe, the pipe neither finishes nor pauses nor
\* defers the campaign, whatever made it stop before and however soon the campaign
\* is resumed (StopCampaign overrides the reason that cleanup reads).
OldPipeLeavesAlone ==
    [][ pipe.manual /\ ~ByUser => db'.status = db.status ]_vars

\* Between a manual status change and its stop signal no recipient is claimed:
\* the two are one lifecycle operation (BUSINESS_LOGIC.md:83,
\* WithCampaignStatusChange, pauseUserRunningCampaigns).
OneStopOperation ==
    [][ user # "idle" \/ smtp # "idle" => In(db', {"queued"}) \subseteq In(db, {"queued"}) ]_vars

-----------------------------------------------------------------------------
(* Liveness, under FairSpec. *)

\* A running campaign finishes, or is paused, deferred, cancelled or taken back.
RunningEnds == db.status = "running" ~> db.status # "running"

=============================================================================
