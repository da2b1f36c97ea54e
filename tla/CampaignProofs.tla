--------------------------- MODULE CampaignProofs ---------------------------
(***************************************************************************)
(* What holds of the sending of a campaign whatever its recipients, its    *)
(* limits and the number of users' interventions, faults and crashes are.  *)
(* First, what every transaction of CampaignStore does to a well-formed    *)
(* database: it leaves it well-formed, settles recipients for good, and    *)
(* changes the rows, the failure counts and the status no further than     *)
(* stated here. Then the types, and what no step does to the status and    *)
(* to settled rows.                                                        *)
(*                                                                         *)
(* Then Core, an inductive invariant of the sender. The wait group carries *)
(* the argument: while it counts every reference, a cleanup or a scanner   *)
(* that resets rows knows that nobody is on the way, so that a row is      *)
(* claimable only when no message of its recipient exists.                 *)
(*                                                                         *)
(* At last what the sending comes to: nobody is accepted twice, no row is  *)
(* left behind, nobody waits for nobody, retries keep their order, a       *)
(* finished campaign is settled, and the sender implements its ledger and  *)
(* the life of its campaign.                                               *)
(***************************************************************************)
EXTENDS CampaignRefinement, FiniteSetTheorems, WellFoundedInduction, TLAPS

\* Sent stays sent; failed is left only for a success that was on its way.
Settles(d, e) ==
    \A r \in Recipients :
        /\ d.rcpt[r] = "sent" => e.rcpt[r] = "sent"
        /\ d.rcpt[r] = "failed" => e.rcpt[r] \in {"failed", "sent"}

\* Nobody becomes queued.
ClaimsNobody(d, e) == \A r \in Recipients : e.rcpt[r] = "queued" => d.rcpt[r] = "queued"

\* No recipient becomes claimable, but for those in rows.
ReopensOnly(d, e, rows) ==
    \A r \in Recipients \ rows : d.rcpt[r] \notin Waiting => e.rcpt[r] \notin Waiting

\* Settled recipients stay so, nobody is claimed, no failure is counted.
Settling(d, e) == Settles(d, e) /\ ClaimsNobody(d, e) /\ e.fails = d.fails

Active == {"running", "scheduled", "deferred"}

-----------------------------------------------------------------------------
(* The rows. *)

\* Rewriting rows changes nothing else.
LEMMA SetRowsFacts ==
    ASSUME NEW d \in DB, NEW rows, NEW to \in RecipientStatuses
    PROVE  LET e == SetRows(d, rows, to)
           IN  /\ e \in DB
               /\ \A r \in Recipients : e.rcpt[r] = IF r \in rows THEN to ELSE d.rcpt[r]
               /\ e.status = d.status
               /\ e.fails = d.fails
BY DEF SetRows, DB

\* Rewriting unsent rows to anything but queued settles.
LEMMA SetUnsentFacts ==
    ASSUME NEW d \in DB, NEW rows, rows \subseteq In(d, Unsent),
           NEW to \in RecipientStatuses \ {"queued"}
    PROVE  LET e == SetRows(d, rows, to)
           IN  /\ e \in DB
               /\ Settling(d, e)
               /\ e.status = d.status
               /\ to \notin Waiting => ReopensOnly(d, e, {})
               /\ rows \subseteq In(d, Waiting) => ReopensOnly(d, e, {})
BY SetRowsFacts DEF In, Unsent, Settling, Settles, ClaimsNobody, ReopensOnly

\* A claim queues the batch and touches nobody else.
LEMMA ClaimFacts ==
    ASSUME NEW d \in DB, NEW batch \in SUBSET In(d, Waiting)
    PROVE  LET e == Claim(d, batch)
           IN  /\ e \in DB
               /\ Settles(d, e) /\ ReopensOnly(d, e, {})
               /\ e.status = d.status
               /\ e.fails = d.fails
               /\ \A r \in batch : e.rcpt[r] = "queued"
               /\ batch = {} => ClaimsNobody(d, e)
BY SetRowsFacts DEF Claim, In, Waiting, RecipientStatuses, Settles, ReopensOnly, ClaimsNobody

\* Whoever a claim may return waits, is not exhausted, and the campaign runs.
LEMMA IsClaimFacts ==
    ASSUME NEW d \in DB, NEW n \in Nat, NEW batch, IsClaim(d, n, batch)
    PROVE  /\ batch \in SUBSET In(d, Waiting)
           /\ batch # {} => d.status = "running"
           /\ \A r \in batch : d.fails[r] <= MaxRetries
<1>1. batch \subseteq IF d.status = "running" THEN Claimable(d) ELSE {}
  BY DEF IsClaim
<1>2. Claimable(d) \subseteq {r \in In(d, Waiting) : ~Exhausted(d, r)}
  BY DEF Claimable, RetryQueue, In
<1>3. ASSUME NEW r \in Recipients PROVE d.fails[r] \in Nat
  BY DEF DB
<1> QED
  BY <1>1, <1>2, <1>3, StoreAssumption DEF Exhausted, In, StoreAssumption

-----------------------------------------------------------------------------
(* One recipient. *)

LEMMA RecordFailureFacts ==
    ASSUME NEW d \in DB, NEW r \in Recipients
    PROVE  LET e == RecordFailure(d, r)
           IN  /\ e \in DB
               /\ Settles(d, e) /\ ClaimsNobody(d, e) /\ ReopensOnly(d, e, {})
               /\ e.status = d.status
               /\ e.fails = [d.fails EXCEPT ![r] = @ + 1]
<1> DEFINE c == [d EXCEPT !.fails[r] = @ + 1]
           s == SetRows(c, {r}, "failed")
<1>1. /\ c \in DB /\ c.rcpt = d.rcpt /\ c.status = d.status
      /\ c.fails = [d.fails EXCEPT ![r] = @ + 1]
  BY DEF DB
<1>2. RecordFailure(d, r) = IF c.rcpt[r] \in Unsent /\ Exhausted(c, r) THEN s ELSE c
  BY DEF RecordFailure
<1> HIDE DEF c
<1>3. /\ s \in DB /\ s.status = c.status /\ s.fails = c.fails
      /\ \A q \in Recipients : s.rcpt[q] = IF q \in {r} THEN "failed" ELSE c.rcpt[q]
  BY <1>1, SetRowsFacts DEF RecipientStatuses
<1> HIDE DEF s
<1> QED
  BY <1>1, <1>2, <1>3 DEF Settles, ClaimsNobody, ReopensOnly, Unsent, Waiting

LEMMA MarkSentFacts ==
    ASSUME NEW d \in DB, NEW r \in Recipients
    PROVE  LET e == MarkSent(d, r)
           IN  /\ e \in DB
               /\ Settling(d, e) /\ ReopensOnly(d, e, {})
               /\ e.status = d.status
<1> DEFINE s == SetRows(d, {r}, "sent")
<1>1. /\ s \in DB /\ s.status = d.status /\ s.fails = d.fails
      /\ \A q \in Recipients : s.rcpt[q] = IF q \in {r} THEN "sent" ELSE d.rcpt[q]
  BY SetRowsFacts DEF RecipientStatuses
<1> DEFINE t == [s EXCEPT !.sentToday = @ + 1]
<1>2. MarkSent(d, r) = IF d.rcpt[r] = "sent" THEN d ELSE t
  BY DEF MarkSent
<1> HIDE DEF s
<1>3. t \in DB /\ t.status = s.status /\ t.fails = s.fails /\ t.rcpt = s.rcpt
  BY <1>1 DEF DB
<1> QED
  BY <1>1, <1>2, <1>3 DEF Settling, Settles, ClaimsNobody, ReopensOnly, Waiting

LEMMA MarkPendingFacts ==
    ASSUME NEW d \in DB, NEW r \in Recipients
    PROVE  LET e == MarkPending(d, r)
           IN  /\ e \in DB
               /\ Settling(d, e) /\ ReopensOnly(d, e, {r})
               /\ e.status = d.status
BY SetRowsFacts
DEF MarkPending, Settling, Settles, ClaimsNobody, ReopensOnly, Waiting, RecipientStatuses

LEMMA UnsubscribePoolFacts ==
    ASSUME NEW d \in DB, NEW r \in Recipients
    PROVE  LET e == UnsubscribePool(d, r)
           IN  /\ e \in DB
               /\ Settling(d, e) /\ ReopensOnly(d, e, {})
               /\ e.status = d.status
<1> DEFINE s == SetRows(d, {r} \cap In(d, Unsent), "cancelled")
           t == [s EXCEPT !.deliverable = @ \ {r}]
<1>1. /\ s \in DB /\ s.status = d.status
      /\ Settling(d, s) /\ ReopensOnly(d, s, {})
  BY SetUnsentFacts DEF RecipientStatuses, Waiting
<1>2. UnsubscribePool(d, r) = t
  BY DEF UnsubscribePool
<1> HIDE DEF s
<1>3. t \in DB /\ t.status = s.status /\ t.fails = s.fails /\ t.rcpt = s.rcpt
  BY <1>1 DEF DB
<1> QED
  BY <1>1, <1>2, <1>3 DEF Settling, Settles, ClaimsNobody, ReopensOnly

LEMMA RemoveFacts ==
    ASSUME NEW d \in DB, NEW r \in Recipients
    PROVE  LET e == Remove(d, r)
           IN  e \in DB /\ e.status = d.status /\ e.rcpt = d.rcpt /\ e.fails = d.fails
BY DEF Remove, DB

-----------------------------------------------------------------------------
(* The whole campaign. *)

\* What two databases with the same rows and failures have in common.
LEMMA SameRows ==
    ASSUME NEW d, NEW e, e.rcpt = d.rcpt, e.fails = d.fails
    PROVE  Settling(d, e) /\ ReopensOnly(d, e, {})
BY DEF Settling, Settles, ClaimsNobody, ReopensOnly

LEMMA ResetQueuedFacts ==
    ASSUME NEW d \in DB, NEW to \in Waiting
    PROVE  LET e == ResetQueued(d, to)
           IN  e \in DB /\ Settling(d, e) /\ e.status = d.status
BY SetUnsentFacts DEF ResetQueued, In, Waiting, Unsent, RecipientStatuses

LEMMA ResetPrivateQueuedFacts ==
    ASSUME NEW d \in DB
    PROVE  LET e == ResetPrivateQueued(d)
           IN  e \in DB /\ Settling(d, e) /\ e.status = d.status
BY SetUnsentFacts DEF ResetPrivateQueued, In, Waiting, Unsent, RecipientStatuses

LEMMA ExhaustRetriesFacts ==
    ASSUME NEW d \in DB
    PROVE  LET e == ExhaustRetries(d)
           IN  e \in DB /\ Settling(d, e) /\ ReopensOnly(d, e, {}) /\ e.status = d.status
BY SetUnsentFacts DEF ExhaustRetries, In, Waiting, Unsent, RecipientStatuses

LEMMA CancelUnsentFacts ==
    ASSUME NEW d \in DB
    PROVE  LET e == CancelUnsent(d)
           IN  e \in DB /\ Settling(d, e) /\ ReopensOnly(d, e, {}) /\ e.status = d.status
BY SetUnsentFacts DEF CancelUnsent, Waiting, RecipientStatuses

LEMMA DeferFacts ==
    ASSUME NEW d \in DB, NEW resume \in Nat
    PROVE  LET e == Defer(d, resume)
           IN  e \in DB /\ Settling(d, e) /\ ReopensOnly(d, e, {}) /\ e.status = "deferred"
<1> DEFINE s == SetRows(d, In(d, {"pending"}), "deferred")
           t == [s EXCEPT !.status = "deferred", !.resumeDay = resume]
<1>1. s \in DB /\ Settling(d, s) /\ ReopensOnly(d, s, {})
  BY SetUnsentFacts DEF In, Waiting, Unsent, RecipientStatuses
<1>2. Defer(d, resume) = t
  BY DEF Defer
<1> HIDE DEF s
<1>3. t \in DB /\ t.status = "deferred" /\ t.fails = s.fails /\ t.rcpt = s.rcpt
  BY <1>1 DEF DB, CampaignStatuses
<1> QED
  BY <1>1, <1>2, <1>3 DEF Settling, Settles, ClaimsNobody, ReopensOnly

LEMMA StatusFacts ==
    ASSUME NEW d \in DB
    PROVE  /\ SetRunning(d) \in DB /\ SetRunning(d).status = "running"
           /\ PauseRunning(d) \in DB
           /\ PauseRunning(d).status = IF d.status = "running" THEN "paused" ELSE d.status
           /\ ForceFinished(d) \in DB /\ ForceFinished(d).status = "finished"
           /\ FinishRunning(d) \in DB
           /\ IF d.status = "running"
              THEN FinishRunning(d).status \in {"finished", "paused"}
              ELSE FinishRunning(d).status = d.status
           /\ \A e \in {SetRunning(d), PauseRunning(d), ForceFinished(d), FinishRunning(d)} :
                e.rcpt = d.rcpt /\ e.fails = d.fails
<1>1. SetRunning(d) \in DB /\ SetRunning(d).status = "running"
      /\ SetRunning(d).rcpt = d.rcpt /\ SetRunning(d).fails = d.fails
  BY DEF DB, SetRunning, CampaignStatuses
<1>2. PauseRunning(d) \in DB
      /\ PauseRunning(d).status = (IF d.status = "running" THEN "paused" ELSE d.status)
      /\ PauseRunning(d).rcpt = d.rcpt /\ PauseRunning(d).fails = d.fails
  BY DEF DB, PauseRunning, CampaignStatuses
<1>3. ForceFinished(d) \in DB /\ ForceFinished(d).status = "finished"
      /\ ForceFinished(d).rcpt = d.rcpt /\ ForceFinished(d).fails = d.fails
  BY DEF DB, ForceFinished, CampaignStatuses
<1>4. FinishRunning(d) \in DB
      /\ (IF d.status = "running"
          THEN FinishRunning(d).status \in {"finished", "paused"}
          ELSE FinishRunning(d).status = d.status)
      /\ FinishRunning(d).rcpt = d.rcpt /\ FinishRunning(d).fails = d.fails
  BY DEF DB, FinishRunning, CampaignStatuses
<1> QED
  BY <1>1, <1>2, <1>3, <1>4

LEMMA StartFailureFacts ==
    ASSUME NEW d \in DB, NEW previous
    PROVE  LET e == StartFailure(d, previous)
           IN  /\ e \in DB /\ Settling(d, e)
               /\ IF d.status = "running" THEN e.status \in {"draft", "paused"} ELSE e = d
<1> DEFINE s == ResetQueued(d, "pending")
           t == [s EXCEPT
                   !.status = IF previous \in {"scheduled", "deferred"} THEN "draft" ELSE "paused",
                   !.sendAt = FALSE]
<1>1. s \in DB /\ Settling(d, s)
  BY ResetQueuedFacts DEF Waiting
<1>2. StartFailure(d, previous) = IF d.status # "running" THEN d ELSE t
  BY DEF StartFailure
<1> HIDE DEF s
<1>3. t \in DB /\ t.status \in {"draft", "paused"} /\ t.fails = s.fails /\ t.rcpt = s.rcpt
  BY <1>1 DEF DB, CampaignStatuses
<1> QED
  BY <1>1, <1>2, <1>3 DEF Settling, Settles, ClaimsNobody

LEMMA PauseForSMTPFacts ==
    ASSUME NEW d \in DB
    PROVE  LET e == PauseForSMTP(d)
           IN  e \in DB /\ Settling(d, e) /\ e.status \notin Active
<1> DEFINE s == ResetQueued(d, "pending")
           t == [s EXCEPT !.status = IF d.status = "running" THEN "paused" ELSE "draft",
                          !.sendAt = FALSE]
<1>1. s \in DB /\ Settling(d, s)
  BY ResetQueuedFacts DEF Waiting
<1>2. PauseForSMTP(d) = IF d.status \notin {"running", "scheduled", "deferred"} THEN d ELSE t
  BY DEF PauseForSMTP
<1> HIDE DEF s
<1>3. t \in DB /\ t.status \in {"draft", "paused"} /\ t.fails = s.fails /\ t.rcpt = s.rcpt
  BY <1>1 DEF DB, CampaignStatuses
<1> QED
  BY <1>1, <1>2, <1>3 DEF Settling, Settles, ClaimsNobody, Active

LEMMA RetrySelectedFacts ==
    ASSUME NEW d \in DB, NEW chosen \in SUBSET Retryable(d)
    PROVE  LET e == RetrySelected(d, chosen)
           IN  e \in DB /\ e.rcpt = d.rcpt /\ e.fails = d.fails
BY DEF RetrySelected, Retryable, In, DB, CampaignStatuses

LEMMA ManualStatusFacts ==
    ASSUME NEW d \in DB, NEW to \in CampaignStatuses
    PROVE  LET e == ManualStatus(d, to)
           IN  /\ e \in DB /\ Settling(d, e) /\ ReopensOnly(d, e, {})
               /\ to \in {"paused", "cancelled"} => e.status = to
<1> DEFINE fresh == to \in {"running", "scheduled", "cancelled"}
           moved == [d EXCEPT
                       !.status    = IF to = "running" /\ d.sendAt THEN "scheduled" ELSE to,
                       !.retryMode = IF fresh THEN FALSE ELSE @,
                       !.selected  = IF fresh THEN {} ELSE @]
           rows == In(d, Unsent) \cap Private
<1>1. /\ moved \in DB /\ moved.rcpt = d.rcpt /\ moved.fails = d.fails
      /\ to \in {"paused", "cancelled"} => moved.status = to
  BY DEF DB, CampaignStatuses
<1>2. ManualStatus(d, to) =
        IF to = "cancelled" THEN SetRows(moved, rows, "cancelled") ELSE moved
  BY DEF ManualStatus
<1> HIDE DEF moved
<1>3. rows \subseteq In(moved, Unsent)
  BY <1>1 DEF In
<1> HIDE DEF rows
<1>4. LET e == SetRows(moved, rows, "cancelled")
      IN  /\ e \in DB /\ Settling(moved, e) /\ ReopensOnly(moved, e, {})
          /\ e.status = moved.status
  BY <1>1, <1>3, SetUnsentFacts DEF RecipientStatuses, Waiting
<1> QED
  BY <1>1, <1>2, <1>4 DEF Settling, Settles, ClaimsNobody, ReopensOnly
-----------------------------------------------------------------------------
(* What the transactions leave alone. *)

Columns(d, e) ==
    e.counted = d.counted /\ e.deliverable = d.deliverable /\ e.sentToday = d.sentToday

Round(d, e) == e.retryMode = d.retryMode /\ e.selected = d.selected

\* Unsent recipients wait again or are exhausted; nothing else happens to the rows.
Eases(d, e) ==
    \A r \in Recipients :
        \/ e.rcpt[r] = d.rcpt[r]
        \/ d.rcpt[r] \in Unsent /\ e.rcpt[r] \in {"pending", "deferred", "failed"}

Keeps(d, e) == Eases(d, e) /\ Columns(d, e) /\ Round(d, e)

\* No row but that of r changes.
Only(d, e, r) == \A q \in Recipients \ {r} : e.rcpt[q] = d.rcpt[q]

LEMMA SameKeeps ==
    ASSUME NEW d
    PROVE  Keeps(d, d) /\ \A r : Only(d, d, r)
BY DEF Keeps, Eases, Columns, Round, Only

LEMMA SetRowsColumns ==
    ASSUME NEW d \in DB, NEW rows, NEW to
    PROVE  LET e == SetRows(d, rows, to)
           IN  /\ Columns(d, e) /\ Round(d, e) /\ e.sendAt = d.sendAt
               /\ e.status = d.status /\ e.fails = d.fails
               /\ \A r \in Recipients : e.rcpt[r] = IF r \in rows THEN to ELSE d.rcpt[r]
BY DEF SetRows, DB, Columns, Round

LEMMA SetRowsKeeps ==
    ASSUME NEW d \in DB, NEW rows \in SUBSET In(d, Unsent),
           NEW to \in {"pending", "deferred", "failed"}
    PROVE  Keeps(d, SetRows(d, rows, to))
BY SetRowsColumns DEF Keeps, Eases, In

LEMMA ResetKeeps ==
    ASSUME NEW d \in DB
    PROVE  /\ \A to \in Waiting : /\ Keeps(d, ResetQueued(d, to))
                                  /\ In(ResetQueued(d, to), {"queued"}) = {}
           /\ Keeps(d, ResetPrivateQueued(d))
           /\ Keeps(d, ExhaustRetries(d))
           /\ Keeps(d, SetRows(d, In(d, {"queued"}) \cap Private, "deferred"))
<1>1. /\ In(d, {"queued"}) \in SUBSET In(d, Unsent)
      /\ In(d, {"queued"}) \cap Private \in SUBSET In(d, Unsent)
      /\ {r \in In(d, Waiting) : Exhausted(d, r)} \in SUBSET In(d, Unsent)
  BY DEF In, Unsent, Waiting
<1>2. ASSUME NEW to \in Waiting
      PROVE  Keeps(d, ResetQueued(d, to)) /\ In(ResetQueued(d, to), {"queued"}) = {}
  <2>1. Keeps(d, ResetQueued(d, to))
    BY <1>1, SetRowsKeeps DEF ResetQueued, Waiting
  <2>2. \A r \in Recipients : ResetQueued(d, to).rcpt[r] # "queued"
    BY SetRowsColumns DEF ResetQueued, In, Waiting
  <2> QED
    BY <2>1, <2>2 DEF In
<1>3. Keeps(d, ResetPrivateQueued(d)) /\ Keeps(d, ExhaustRetries(d))
      /\ Keeps(d, SetRows(d, In(d, {"queued"}) \cap Private, "deferred"))
  BY <1>1, SetRowsKeeps DEF ResetPrivateQueued, ExhaustRetries
<1> QED
  BY <1>2, <1>3

LEMMA StatusKeeps ==
    ASSUME NEW d \in DB
    PROVE  /\ Keeps(d, SetRunning(d)) /\ Keeps(d, PauseRunning(d)) /\ Keeps(d, ForceFinished(d))
           /\ LET e == FinishRunning(d)
              IN  /\ Eases(d, e) /\ Columns(d, e)
                  /\ d.status # "running" => e = d
                  /\ d.status = "running" =>
                       e.status = IF d.retryMode /\ Counted(d, Unsent) # {}
                                  THEN "paused" ELSE "finished"
<1>1. Keeps(d, SetRunning(d)) /\ Keeps(d, PauseRunning(d)) /\ Keeps(d, ForceFinished(d))
  BY DEF SetRunning, PauseRunning, ForceFinished, DB, Keeps, Eases, Columns, Round
<1>2. Eases(d, FinishRunning(d)) /\ Columns(d, FinishRunning(d))
  BY DEF FinishRunning, DB, Eases, Columns
<1>3. /\ d.status # "running" => FinishRunning(d) = d
      /\ d.status = "running" =>
           FinishRunning(d).status = IF d.retryMode /\ Counted(d, Unsent) # {}
                                     THEN "paused" ELSE "finished"
  BY DEF FinishRunning, DB
<1> QED
  BY <1>1, <1>2, <1>3

LEMMA HaltKeeps ==
    ASSUME NEW d \in DB
    PROVE  /\ \A previous : /\ Keeps(d, StartFailure(d, previous))
                            /\ d.status = "running" =>
                                 In(StartFailure(d, previous), {"queued"}) = {}
           /\ Keeps(d, PauseForSMTP(d))
           /\ IF d.status \in Active
              THEN In(PauseForSMTP(d), {"queued"}) = {} ELSE PauseForSMTP(d) = d
<1> DEFINE s == ResetQueued(d, "pending")
<1>1. s \in DB /\ Keeps(d, s) /\ In(s, {"queued"}) = {}
  BY ResetQueuedFacts, ResetKeeps DEF Waiting
<1>2. ASSUME NEW previous
      PROVE  \/ d.status # "running" /\ StartFailure(d, previous) = d
             \/ StartFailure(d, previous) =
                  [s EXCEPT
                     !.status = IF previous \in {"scheduled", "deferred"} THEN "draft" ELSE "paused",
                     !.sendAt = FALSE]
  BY DEF StartFailure
<1>3. IF d.status \in Active
      THEN PauseForSMTP(d) = [s EXCEPT !.status = IF d.status = "running" THEN "paused" ELSE "draft",
                                       !.sendAt = FALSE]
      ELSE PauseForSMTP(d) = d
  BY DEF PauseForSMTP, Active
<1> HIDE DEF s
<1>4. ASSUME NEW status, NEW e, e = [s EXCEPT !.status = status, !.sendAt = FALSE]
      PROVE  Keeps(d, e) /\ In(e, {"queued"}) = {}
  <2>1. Keeps(d, e) /\ e.rcpt = s.rcpt
    BY <1>1, <1>4 DEF Keeps, Eases, Columns, Round, DB
  <2> QED
    BY <1>1, <2>1 DEF In
<1>5. ASSUME NEW previous
      PROVE  /\ Keeps(d, StartFailure(d, previous))
             /\ d.status = "running" => In(StartFailure(d, previous), {"queued"}) = {}
  <2>1. CASE d.status # "running"
    BY <1>2, <2>1, SameKeeps DEF StartFailure
  <2>2. CASE d.status = "running"
    BY <1>2, <1>4, <2>2
  <2> QED
    BY <2>1, <2>2
<1>6. /\ Keeps(d, PauseForSMTP(d))
      /\ IF d.status \in Active
         THEN In(PauseForSMTP(d), {"queued"}) = {} ELSE PauseForSMTP(d) = d
  <2>1. CASE d.status \in Active
    BY <1>3, <1>4, <2>1
  <2>2. CASE d.status \notin Active
    BY <1>3, <2>2, SameKeeps
  <2> QED
    BY <2>1, <2>2
<1> QED
  BY <1>5, <1>6

LEMMA DeferKeeps ==
    ASSUME NEW d \in DB, NEW day \in Nat
    PROVE  /\ Keeps(d, Defer(d, day))
           /\ In(Defer(d, day), {"queued"}) = In(d, {"queued"})
<1> DEFINE s == SetRows(d, In(d, {"pending"}), "deferred")
<1>1. s \in DB /\ Keeps(d, s)
  BY SetRowsFacts, SetRowsKeeps DEF In, Unsent, RecipientStatuses
<1>2. \A r \in Recipients : s.rcpt[r] = "queued" <=> d.rcpt[r] = "queued"
  BY SetRowsColumns DEF In
<1>3. Defer(d, day) = [s EXCEPT !.status = "deferred", !.resumeDay = day]
  BY DEF Defer
<1> HIDE DEF s
<1>4. Keeps(d, Defer(d, day)) /\ Defer(d, day).rcpt = s.rcpt
  BY <1>1, <1>3 DEF Keeps, Eases, Columns, Round, DB
<1>5. In(Defer(d, day), {"queued"}) = In(d, {"queued"})
  BY <1>2, <1>4 DEF In
<1> QED
  BY <1>4, <1>5

LEMMA RecordFailureKeeps ==
    ASSUME NEW d \in DB, NEW r \in Recipients
    PROVE  LET e == RecordFailure(d, r)
           IN  Keeps(d, e) /\ Only(d, e, r) /\ (e.rcpt[r] \in Unsent => ~Exhausted(e, r))
<1> DEFINE c == [d EXCEPT !.fails[r] = @ + 1]
           s == SetRows(c, {r}, "failed")
<1>1. /\ c \in DB /\ c.rcpt = d.rcpt
      /\ Columns(d, c) /\ Round(d, c)
  BY DEF DB, Columns, Round
<1>2. RecordFailure(d, r) = IF c.rcpt[r] \in Unsent /\ Exhausted(c, r) THEN s ELSE c
  BY DEF RecordFailure
<1> HIDE DEF c
<1>3. /\ Columns(c, s) /\ Round(c, s) /\ s.fails = c.fails
      /\ \A q \in Recipients : s.rcpt[q] = IF q \in {r} THEN "failed" ELSE c.rcpt[q]
  BY <1>1, SetRowsColumns
<1> HIDE DEF s
<1> QED
  BY <1>1, <1>2, <1>3 DEF Keeps, Eases, Columns, Round, Only, Unsent

LEMMA MarkPendingOnly ==
    ASSUME NEW d \in DB, NEW r \in Recipients
    PROVE  LET e == MarkPending(d, r)
           IN  /\ Columns(d, e) /\ Round(d, e) /\ Only(d, e, r)
               /\ e.rcpt[r] = IF d.rcpt[r] \in {"sent", "failed"} THEN d.rcpt[r] ELSE "pending"
BY SetRowsColumns, SameKeeps DEF MarkPending, Only, Keeps

LEMMA MarkSentOnly ==
    ASSUME NEW d \in DB, NEW r \in Recipients
    PROVE  LET e == MarkSent(d, r)
           IN  /\ e.counted = d.counted /\ e.deliverable = d.deliverable /\ Round(d, e)
               /\ Only(d, e, r) /\ e.rcpt[r] = "sent"
               /\ e.sentToday = IF d.rcpt[r] = "sent" THEN d.sentToday ELSE d.sentToday + 1
<1> DEFINE s == SetRows(d, {r}, "sent")
<1>1. /\ s \in DB /\ Columns(d, s) /\ Round(d, s)
      /\ \A q \in Recipients : s.rcpt[q] = IF q \in {r} THEN "sent" ELSE d.rcpt[q]
  BY SetRowsFacts, SetRowsColumns DEF RecipientStatuses
<1>2. MarkSent(d, r) = IF d.rcpt[r] = "sent" THEN d ELSE [s EXCEPT !.sentToday = @ + 1]
  BY DEF MarkSent
<1> HIDE DEF s
<1>3. LET t == [s EXCEPT !.sentToday = @ + 1]
      IN  /\ t.counted = s.counted /\ t.deliverable = s.deliverable /\ Round(s, t)
          /\ t.rcpt = s.rcpt /\ t.sentToday = s.sentToday + 1
  BY <1>1 DEF DB, Round
<1> QED
  BY <1>1, <1>2, <1>3 DEF Columns, Round, Only

LEMMA ClaimOnly ==
    ASSUME NEW d \in DB, NEW batch
    PROVE  LET e == Claim(d, batch)
           IN  /\ Columns(d, e) /\ Round(d, e)
               /\ \A r \in Recipients : e.rcpt[r] = IF r \in batch THEN "queued" ELSE d.rcpt[r]
BY SetRowsColumns DEF Claim

LEMMA CancelOnly ==
    ASSUME NEW d \in DB
    PROVE  \A e \in {CancelUnsent(d), SetRows(d, In(d, Unsent) \cap Private, "cancelled")} :
             /\ Columns(d, e) /\ Round(d, e)
             /\ \A r \in Recipients : \/ e.rcpt[r] = d.rcpt[r]
                                      \/ d.rcpt[r] \in Unsent /\ e.rcpt[r] = "cancelled"
<1>1. ASSUME NEW rows, rows \subseteq In(d, Unsent)
      PROVE  LET e == SetRows(d, rows, "cancelled")
             IN  /\ Columns(d, e) /\ Round(d, e)
                 /\ \A r \in Recipients : \/ e.rcpt[r] = d.rcpt[r]
                                          \/ d.rcpt[r] \in Unsent /\ e.rcpt[r] = "cancelled"
  BY <1>1, SetRowsColumns DEF In
<1> QED
  BY <1>1 DEF CancelUnsent

LEMMA CancelUnsentQueued ==
    ASSUME NEW d \in DB
    PROVE  In(CancelUnsent(d), {"queued"}) = {}
<1>1. \A r \in Recipients : CancelUnsent(d).rcpt[r] # "queued"
  BY SetRowsColumns DEF CancelUnsent, In, Unsent
<1> QED
  BY <1>1 DEF In

LEMMA ManualStatusOnly ==
    ASSUME NEW d \in DB, NEW to \in CampaignStatuses
    PROVE  LET e == ManualStatus(d, to)
           IN  /\ Columns(d, e)
               /\ e.status = IF to = "running" /\ d.sendAt THEN "scheduled" ELSE to
               /\ to \in {"draft", "paused"} => Round(d, e)
               /\ to # "cancelled" => e.rcpt = d.rcpt
               /\ \A r \in Recipients : \/ e.rcpt[r] = d.rcpt[r]
                                        \/ d.rcpt[r] \in Unsent /\ e.rcpt[r] = "cancelled"
<1> DEFINE fresh == to \in {"running", "scheduled", "cancelled"}
           moved == [d EXCEPT
                       !.status    = IF to = "running" /\ d.sendAt THEN "scheduled" ELSE to,
                       !.retryMode = IF fresh THEN FALSE ELSE @,
                       !.selected  = IF fresh THEN {} ELSE @]
           rows == In(d, Unsent) \cap Private
<1>1. /\ moved \in DB /\ moved.rcpt = d.rcpt /\ Columns(d, moved)
      /\ moved.status = IF to = "running" /\ d.sendAt THEN "scheduled" ELSE to
      /\ to \in {"draft", "paused"} => Round(d, moved)
  BY DEF DB, CampaignStatuses, Columns, Round
<1>2. ManualStatus(d, to) =
        IF to = "cancelled" THEN SetRows(moved, rows, "cancelled") ELSE moved
  BY DEF ManualStatus
<1>3. \A r \in rows : r \in Recipients /\ d.rcpt[r] \in Unsent
  BY DEF In
<1> HIDE DEF moved, rows
<1>4. LET e == SetRows(moved, rows, "cancelled")
      IN  /\ Columns(moved, e) /\ e.status = moved.status
          /\ \A r \in Recipients : e.rcpt[r] = IF r \in rows THEN "cancelled" ELSE moved.rcpt[r]
  BY <1>1, SetRowsColumns
<1>5. CASE to = "cancelled"
  BY <1>1, <1>2, <1>3, <1>4, <1>5 DEF Columns
<1>6. CASE to # "cancelled"
  BY <1>1, <1>2, <1>6
<1> QED
  BY <1>5, <1>6

LEMMA RetrySelectedOnly ==
    ASSUME NEW d \in DB, NEW chosen
    PROVE  LET e == RetrySelected(d, chosen)
           IN  Columns(d, e) /\ e.rcpt = d.rcpt /\ e.retryMode /\ e.status = "running"
BY DEF RetrySelected, DB, Columns

LEMMA UnsubscribePoolOnly ==
    ASSUME NEW d \in DB, NEW r \in Recipients
    PROVE  LET e == UnsubscribePool(d, r)
           IN  /\ e.counted = d.counted /\ e.deliverable = d.deliverable \ {r}
               /\ e.sentToday = d.sentToday /\ Round(d, e) /\ Only(d, e, r)
               /\ \/ e.rcpt[r] = d.rcpt[r]
                  \/ d.rcpt[r] \in Unsent /\ e.rcpt[r] = "cancelled"
<1> DEFINE rows == {r} \cap In(d, Unsent)
           s == SetRows(d, rows, "cancelled")
<1>1. /\ s \in DB /\ Columns(d, s) /\ Round(d, s)
      /\ \A q \in Recipients : s.rcpt[q] = IF q \in rows THEN "cancelled" ELSE d.rcpt[q]
  BY SetRowsFacts, SetRowsColumns DEF RecipientStatuses
<1>2. \A q \in rows : q = r /\ d.rcpt[q] \in Unsent
  BY DEF In
<1>3. UnsubscribePool(d, r) = [s EXCEPT !.deliverable = @ \ {r}]
  BY DEF UnsubscribePool
<1> HIDE DEF s, rows
<1>4. LET t == [s EXCEPT !.deliverable = @ \ {r}]
      IN  /\ t.counted = s.counted /\ t.deliverable = s.deliverable \ {r} /\ Round(s, t)
          /\ t.rcpt = s.rcpt /\ t.sentToday = s.sentToday
  BY <1>1 DEF DB, Round
<1> QED
  BY <1>1, <1>2, <1>3, <1>4 DEF Columns, Round, Only

\* A recipient who leaves the counts or cannot be delivered to any more.
LEMMA RemoveOnly ==
    ASSUME NEW d \in DB, NEW r
    PROVE  \A e \in {Remove(d, r), [d EXCEPT !.deliverable = @ \ {r}]} :
             /\ e.deliverable = d.deliverable \ {r} /\ e.rcpt = d.rcpt /\ e.fails = d.fails
             /\ e.sentToday = d.sentToday /\ Round(d, e) /\ e.status = d.status
BY DEF Remove, DB, Round

-----------------------------------------------------------------------------
(* Pipes. *)

LEMMA StopFacts ==
    ASSUME NEW p \in Pipe, NEW why \in Reasons \ {"none"}, NEW withErrors \in BOOLEAN
    PROVE  LET q == Stop(p, why, withErrors)
           IN  q \in Pipe /\ q.live = p.live /\ q.wg = p.wg
BY DEF Stop, Pipe, PipeRecord

LEMMA DoneFacts ==
    ASSUME NEW p \in Pipe
    PROVE  LET q == Done(p)
           IN  q \in Pipe /\ q.live = p.live /\ q.wg = p.wg - 1
BY DEF Done, Pipe, PipeRecord

LEMMA MessageDoneFacts ==
    ASSUME NEW p \in Pipe
    PROVE  LET q == MessageDone(p)
           IN  q \in Pipe /\ q.live = p.live /\ q.wg = p.wg - 1
<1>1. ASSUME NEW d \in Pipe
      PROVE  LET q == [d EXCEPT !.progress = TRUE]
             IN  q \in Pipe /\ q.live = d.live /\ q.wg = d.wg
  BY DEF Pipe, PipeRecord
<1> QED
  BY <1>1, DoneFacts DEF MessageDone

LEMMA OnErrorFacts ==
    ASSUME NEW p \in Pipe
    PROVE  LET q == OnError(p)
           IN  q \in Pipe /\ q.live = p.live /\ q.wg = p.wg
<1> DEFINE c == [p EXCEPT !.errors = @ + 1]
<1>1. c \in Pipe /\ c.live = p.live /\ c.wg = p.wg
  BY DEF Pipe, PipeRecord
<1>2. OnError(p) = IF MaxSendErrors > 0 /\ c.errors >= MaxSendErrors
                   THEN Stop(c, "pause", TRUE) ELSE c
  BY DEF OnError
<1> HIDE DEF c
<1>3. LET q == Stop(c, "pause", TRUE)
      IN  q \in Pipe /\ q.live = p.live /\ q.wg = p.wg
  BY <1>1, StopFacts DEF Reasons
<1> QED
  BY <1>1, <1>2, <1>3

LEMMA NotRunningFacts ==
    ASSUME NEW p \in Pipe
    PROVE  LET q == NotRunning(p)
           IN  /\ q \in Pipe /\ q.live = p.live /\ q.wg = p.wg /\ q.manual = p.manual
               /\ q.deferred = p.deferred /\ q.stopped = p.stopped /\ q.reason = p.reason
               /\ q.withErrors = p.withErrors /\ q.progress = p.progress
               /\ q.early = (p.early \/ db.status # "running")
BY DEF NotRunning, Pipe, PipeRecord

LEMMA EarlyFacts ==
    ASSUME NEW p \in Pipe
    PROVE  LET q == [p EXCEPT !.early = TRUE]
           IN  q \in Pipe /\ q.live = p.live /\ q.wg = p.wg
BY DEF Pipe, PipeRecord

LEMMA StopCampaignFacts ==
    ASSUME NEW p \in Pipe, NEW why \in Reasons \ {"none"}
    PROVE  LET q == StopCampaign(p, why)
           IN  q \in Pipe /\ q.live = p.live /\ q.wg = p.wg
<1> DEFINE s == Stop(p, why, FALSE)
           t == [s EXCEPT !.withErrors = FALSE, !.reason = why, !.manual = TRUE]
<1>1. s \in Pipe /\ s.live = p.live /\ s.wg = p.wg
  BY StopFacts
<1>2. StopCampaign(p, why) \in {p, t}
  BY DEF StopCampaign
<1> HIDE DEF s
<1>3. t \in Pipe /\ t.live = s.live /\ t.wg = s.wg
  BY <1>1 DEF Pipe, PipeRecord
<1> QED
  BY <1>1, <1>2, <1>3

LEMMA NewPipeFacts ==
    /\ NoPipe \in Pipe /\ ~NoPipe.live /\ NoPipe.wg = 0
    /\ NewPipe \in Pipe /\ NewPipe.live /\ NewPipe.wg = 1
BY DEF NoPipe, NewPipe, UnusedPipe, Pipe, PipeRecord, Reasons

\* A batch is bounded by a natural number, and a deferral asks for nobody.
LEMMA BatchLimitFacts ==
    ASSUME NEW sentToday \in Nat, NEW queued \in Nat, NEW left \in SmtpAnswers
    PROVE  LET limit == BatchLimit(sentToday, queued, left)
           IN  limit.n \in Nat /\ (limit.deferred => limit.n = 0)
BY StoreAssumption, SenderAssumption
DEF BatchLimit, Least, StoreAssumption, SenderAssumption

LEMMA RecipientsFinite ==
    /\ IsFiniteSet(Recipients)
    /\ \A S \in SUBSET Recipients : IsFiniteSet(S) /\ Cardinality(S) \in Nat
BY StoreAssumption, FS_Union, FS_Subset, FS_CardinalityType
DEF StoreAssumption, Recipients

-----------------------------------------------------------------------------
(* Types. *)

LEMMA SpendFacts ==
    ASSUME TypeOK,
           NEW what \in {"day", "ops", "unsubs", "removals", "smtp", "faults", "crashes"},
           Spend(what)
    PROVE  /\ used' \in Uses
           /\ used'[what] = used[what] + 1
           /\ used'.smtp = used.smtp + IF what = "smtp" THEN 1 ELSE 0
           /\ used'.ops = used.ops + IF what = "ops" THEN 1 ELSE 0
BY DEF TypeOK, Spend, Uses

LEMMA ScannerType ==
    ASSUME TypeOK, Scanner
    PROVE  TypeOK'
<1>1. CASE ScanSelect
  BY <1>1 DEF ScanSelect, TypeOK, Scans, DB
<1>2. CASE ScanClaim
  BY <1>2, StatusFacts DEF ScanClaim, TypeOK, Scans
<1>3. CASE ScanReplyInvalid
  BY <1>3, StartFailureFacts, SpendFacts DEF ScanReplyInvalid, TypeOK, Scans, FaultLeft
<1>4. CASE ScanReset
  BY <1>4, ResetPrivateQueuedFacts, ExhaustRetriesFacts DEF ScanReset, TypeOK, Scans
<1>5. CASE ScanSync
  BY <1>5 DEF ScanSync, TypeOK, Scans
<1>6. CASE ScanFinish
  BY <1>6, StatusFacts DEF ScanFinish, TypeOK, Scans
<1>7. CASE ScanStart
  BY <1>7, NewPipeFacts DEF ScanStart, TypeOK, Scans, Scheds
<1>8. CASE ScanStartFull
  BY <1>8, NewPipeFacts, StopFacts, DoneFacts, SpendFacts DEF ScanStartFull, TypeOK, Scans, Reasons
<1>9. CASE ScanStartFails
  BY <1>9, StartFailureFacts, SpendFacts DEF ScanStartFails, TypeOK, Scans, NoSenderOrFault
<1> QED
  BY <1>1, <1>2, <1>3, <1>4, <1>5, <1>6, <1>7, <1>8, <1>9 DEF Scanner

LEMMA ReleaseSchedType ==
    ASSUME NEW p \in Pipe, ReleaseSched(p)
    PROVE  pipe' \in Pipe /\ sched' \in Scheds /\ claim' \in Claims
BY DoneFacts DEF ReleaseSched, Scheds, Claims, NoClaim

LEMMA SchedulerType ==
    ASSUME TypeOK, Scheduler
    PROVE  TypeOK'
<1>1. CASE SchedStopped
  BY <1>1, ReleaseSchedType DEF SchedStopped, TypeOK
<1>2. CASE SchedRead
  <2> DEFINE none == db.status # "running" \/ Counted(db, Unsent) = {}
             queued == Cardinality(Counted(db, {"queued"}))
             limit(left) == BatchLimit(db.sentToday, queued, left)
  <2>1. CASE none
    BY <1>2, <2>1, NotRunningFacts, ReleaseSchedType DEF SchedRead, TypeOK
  <2>2. CASE ~none
    <3>1. queued \in Nat /\ db.sentToday \in Nat
      BY RecipientsFinite DEF Counted, In, TypeOK, DB
    <3>2. PICK left \in SmtpAnswers :
            /\ sched' = IF limit(left).deferred THEN "defer"
                        ELSE IF limit(left).n = 0 THEN "waiting" ELSE "claim"
            /\ claim' = IF limit(left).n = 0 THEN NoClaim
                        ELSE [n |-> limit(left).n, hadQueued |-> queued > 0, batch |-> {}]
            /\ pipe' = pipe
      BY <1>2, <2>2 DEF SchedRead
    <3>3. limit(left).n \in Nat
      BY <3>1, BatchLimitFacts
    <3> HIDE DEF queued, limit
    <3> DEFINE taken == queued > 0
    <3>4. taken \in BOOLEAN
      OBVIOUS
    <3> HIDE DEF taken
    <3>5. sched' \in Scheds /\ claim' \in Claims
      BY <3>2, <3>3, <3>4 DEF Scheds, Claims, NoClaim, taken
    <3> QED
      BY <1>2, <3>2, <3>5 DEF SchedRead, TypeOK
  <2> QED
    BY <2>1, <2>2
<1>3. CASE SchedClaim
  <2>1. PICK batch \in SUBSET Recipients :
          /\ IsClaim(db, claim.n, batch)
          /\ db' = Claim(db, batch)
          /\ IF batch # {}
             THEN /\ sched' = "push"
                  /\ claim' = [claim EXCEPT !.batch = batch]
                  /\ pipe' = pipe
             ELSE IF claim.hadQueued
                  THEN sched' = "waiting" /\ claim' = NoClaim /\ pipe' = pipe
                  ELSE ReleaseSched(NotRunning(pipe))
    BY <1>3 DEF SchedClaim
  <2>2. claim.n \in Nat /\ db \in DB
    BY DEF TypeOK, Claims
  <2>3. db' \in DB
    BY <2>1, <2>2, IsClaimFacts, ClaimFacts
  <2>4. pipe' \in Pipe /\ sched' \in Scheds /\ claim' \in Claims
    <3>1. CASE batch # {}
      BY <2>1, <3>1 DEF TypeOK, Scheds, Claims
    <3>2. CASE batch = {}
      <4>1. \/ sched' = "waiting" /\ claim' = NoClaim /\ pipe' = pipe
            \/ ReleaseSched(NotRunning(pipe))
        BY <2>1, <3>2, Zenon
      <4>2. NoClaim \in Claims
        BY DEF NoClaim, Claims
      <4> QED
        BY <4>1, <4>2, NotRunningFacts, ReleaseSchedType DEF TypeOK, Scheds
    <3> QED
      BY <3>1, <3>2
  <2> QED
    BY <1>3, <2>3, <2>4 DEF SchedClaim, TypeOK
<1>4. CASE SchedFails
  <2>1. pipe' \in Pipe /\ sched' \in Scheds /\ claim' \in Claims
    BY <1>4, ReleaseSchedType, StopFacts DEF SchedFails, TypeOK, Reasons
  <2>2. ASSUME NEW batch \in SUBSET Recipients, IsClaim(db, claim.n, batch)
        PROVE  Claim(db, batch \cap Private) \in DB
    <3>1. batch \in SUBSET In(db, Waiting)
      BY <2>2, IsClaimFacts DEF TypeOK, Claims
    <3> QED
      BY <3>1, ClaimFacts DEF TypeOK
  <2>3. db' \in DB
    BY <1>4, <2>2 DEF SchedFails, TypeOK
  <2>4. used' \in Uses
    BY <1>4, SpendFacts DEF SchedFails
  <2> QED
    BY <1>4, <2>1, <2>3, <2>4 DEF SchedFails, TypeOK
<1>5. CASE SchedNoSender
  BY <1>5, ReleaseSchedType, StopFacts, SpendFacts DEF SchedNoSender, TypeOK, Reasons
<1>6. CASE SchedDefer
  <2>1. used.day + 1 \in Nat
    BY DEF TypeOK, Uses
  <2>2. [pipe EXCEPT !.deferred = TRUE] \in Pipe
    BY DEF TypeOK, Pipe, PipeRecord
  <2>3. Stop(pipe, "pause", FALSE) \in Pipe
    BY StopFacts DEF TypeOK, Reasons
  <2>4. pipe' \in Pipe /\ sched' \in Scheds /\ claim' \in Claims
    BY <1>6, <2>2, <2>3, ReleaseSchedType DEF SchedDefer
  <2>5. db' \in DB
    BY <1>6, <2>1, DeferFacts DEF SchedDefer, TypeOK
  <2> QED
    BY <1>6, <2>4, <2>5 DEF SchedDefer, TypeOK
<1>7. CASE SchedDeferFails
  BY <1>7, EarlyFacts, ReleaseSchedType, SpendFacts DEF SchedDeferFails, TypeOK
<1>8. CASE SchedPush
  BY <1>8 DEF SchedPush, TypeOK, Claims, Pipe, PipeRecord, Msgs
<1>9. CASE SchedRenderFails
  <2>1. PICK r \in claim.batch, recorded \in BOOLEAN, released \in BOOLEAN :
          LET failed == IF recorded THEN RecordFailure(db, r) ELSE db
              broken == ~(recorded /\ released)
          IN  /\ db' = IF released THEN MarkPending(failed, r) ELSE failed
              /\ pipe' = OnError(IF broken THEN Stop(pipe, "pause", TRUE) ELSE pipe)
              /\ claim' = [claim EXCEPT !.batch = @ \ {r}]
    BY <1>9 DEF SchedRenderFails
  <2>2. r \in Recipients /\ claim' \in Claims
    BY <2>1 DEF TypeOK, Claims
  <2>3. db' \in DB
    BY <2>1, <2>2, RecordFailureFacts, MarkPendingFacts DEF TypeOK
  <2>4. Stop(pipe, "pause", TRUE) \in Pipe
    BY StopFacts DEF TypeOK, Reasons
  <2>5. pipe' \in Pipe
    BY <2>1, <2>4, OnErrorFacts DEF TypeOK
  <2> QED
    BY <1>9, <2>2, <2>3, <2>5, SpendFacts DEF SchedRenderFails, TypeOK
<1>10. CASE SchedAbandon
  BY <1>10, ReleaseSchedType DEF SchedAbandon, TypeOK
<1>11. CASE SchedRequeue
  BY <1>11 DEF SchedRequeue, TypeOK, Scheds, Claims, NoClaim
<1>12. CASE SchedRequeueFull
  BY <1>12, ReleaseSchedType, StopFacts, SpendFacts DEF SchedRequeueFull, TypeOK, Reasons
<1>13. CASE SchedWake
  BY <1>13 DEF SchedWake, TypeOK, Scheds, Pipe, PipeRecord
<1>14. CASE SchedStopWaiting
  BY <1>14, ReleaseSchedType DEF SchedStopWaiting, TypeOK
<1> QED
  BY <1>1, <1>2, <1>3, <1>4, <1>5, <1>6, <1>7, <1>8, <1>9, <1>10, <1>11, <1>12, <1>13, <1>14 DEF Scheduler

LEMMA WorkerType ==
    ASSUME TypeOK, NEW r \in Recipients, Worker(r)
    PROVE  TypeOK'
<1>1. CASE WorkerTake(r)
  BY <1>1, MessageDoneFacts DEF WorkerTake, TypeOK, Msgs
<1>2. CASE WorkerAccepted(r)
  BY <1>2 DEF WorkerAccepted, TypeOK, Msgs
<1>3. CASE WorkerSent(r)
  <2>1. db' \in DB
    BY <1>3, MarkSentFacts DEF WorkerSent, TypeOK
  <2>2. tail' \in Tails
    BY <1>3 DEF WorkerSent, TypeOK, Tails
  <2> QED
    BY <1>3, <2>1, <2>2 DEF WorkerSent, TypeOK, Msgs
<1>4. CASE WorkerSentFails(r)
  BY <1>4, MessageDoneFacts, StopFacts, SpendFacts DEF WorkerSentFails, TypeOK, Msgs, Reasons
<1>5. CASE WorkerFailed(r)
  BY <1>5, RecordFailureFacts DEF WorkerFailed, TypeOK, Msgs
<1>6. CASE WorkerFailedUnrecorded(r)
  BY <1>6, StopFacts, SpendFacts DEF WorkerFailedUnrecorded, TypeOK, Msgs, Reasons
<1>7. CASE WorkerBlocked(r)
  <2>1. db' \in DB
    BY <1>7, RecordFailureFacts DEF WorkerBlocked, TypeOK
  <2>2. used' \in Uses
    BY <1>7, SpendFacts DEF WorkerBlocked, NoSenderOrFault, TypeOK
  <2>3. \A why \in {"pause", "smtp"} : Stop(pipe, why, FALSE) \in Pipe
    BY StopFacts DEF TypeOK, Reasons
  <2>4. pipe' \in Pipe
    BY <1>7, <2>3, MessageDoneFacts DEF WorkerBlocked
  <2> QED
    BY <1>7, <2>1, <2>2, <2>4 DEF WorkerBlocked, TypeOK, Msgs
<1>8. CASE WorkerCancelled(r)
  BY <1>8, MessageDoneFacts DEF WorkerCancelled, TypeOK, Msgs
<1>9. CASE WorkerRelease(r)
  <2>1. db' \in DB
    BY <1>9, MarkPendingFacts DEF WorkerRelease, TypeOK
  <2>2. tail' \in Tails
    BY <1>9 DEF WorkerRelease, TypeOK, Tails
  <2> QED
    BY <1>9, <2>1, <2>2 DEF WorkerRelease, TypeOK, Msgs
<1>10. CASE WorkerReleaseFails(r)
  BY <1>10, MessageDoneFacts, StopFacts, OnErrorFacts, SpendFacts DEF WorkerReleaseFails, TypeOK, Msgs, Reasons
<1>11. CASE WorkerQuota(r)
  BY <1>11 DEF WorkerQuota, TypeOK, Msgs
<1>12. CASE WorkerDefer(r)
  <2> DEFINE p == [pipe EXCEPT !.deferred = TRUE]
  <2>1. used.day + 1 \in Nat
    BY DEF TypeOK, Uses
  <2>2. db' \in DB
    BY <1>12, <2>1, DeferFacts DEF WorkerDefer, TypeOK
  <2>3. p \in Pipe
    BY DEF TypeOK, Pipe, PipeRecord
  <2>4. pipe' \in {MessageDone(pipe), MessageDone(Stop(pipe, "deferred", FALSE)),
                   MessageDone(Stop(p, "deferred", FALSE)),
                   MessageDone(Stop(pipe, "pause", FALSE))}
    BY <1>12 DEF WorkerDefer
  <2> HIDE DEF p
  <2>5. pipe' \in Pipe
    BY <2>3, <2>4, MessageDoneFacts, StopFacts DEF TypeOK, Reasons
  <2> QED
    BY <1>12, <2>2, <2>5 DEF WorkerDefer, TypeOK, Msgs
<1>13. CASE WorkerDeferFails(r)
  BY <1>13, MessageDoneFacts, SpendFacts DEF WorkerDeferFails, TypeOK, Msgs
<1> QED
  BY <1>1, <1>2, <1>3, <1>4, <1>5, <1>6, <1>7, <1>8, <1>9, <1>10, <1>11, <1>12, <1>13 DEF Worker

LEMMA WorkerTailType ==
    ASSUME TypeOK, WorkerTail
    PROVE  TypeOK'
<1>1. CASE WorkerDone
  BY <1>1, MessageDoneFacts DEF WorkerDone, TypeOK, Tails
<1>2. CASE WorkerError
  BY <1>2, MessageDoneFacts, OnErrorFacts DEF WorkerError, TypeOK, Tails
<1>3. CASE WorkerMediaError
  <2>1. tail' \in Tails
    BY <1>3 DEF WorkerMediaError, TypeOK, Tails
  <2>2. pipe' \in Pipe
    BY <1>3, MessageDoneFacts, StopFacts DEF WorkerMediaError, TypeOK, Reasons
  <2> QED
    BY <1>3, <2>1, <2>2, SpendFacts DEF WorkerMediaError, TypeOK
<1> QED
  BY <1>1, <1>2, <1>3 DEF WorkerTail

LEMMA HalfwayFacts ==
    ASSUME TypeOK, NEW d \in Halfway
    PROVE  d \in DB /\ Settling(db, d) /\ d.status = db.status
<1>1. In(db, {"queued"}) \cap Private \subseteq In(db, Unsent)
      /\ In(db, Unsent) \cap Private \subseteq In(db, Unsent)
  BY DEF In, Unsent
<1>2. Settling(db, db)
  BY SameRows
<1> QED
  BY <1>1, <1>2, ResetPrivateQueuedFacts, ResetQueuedFacts, SetUnsentFacts
  DEF Halfway, TypeOK, Waiting, RecipientStatuses

LEMMA CleanupType ==
    ASSUME TypeOK, Cleanup
    PROVE  TypeOK'
<1>1. CASE CleanStart
  BY <1>1 DEF CleanStart, TypeOK, Cleans
<1>2. CASE CleanDecide
  BY <1>2 DEF CleanDecide, TypeOK, Cleans, Pipe, PipeRecord, Reasons
<1>3. CASE CleanErrors
  BY <1>3, ResetQueuedFacts, StatusFacts DEF CleanErrors, TypeOK, Cleans, Waiting
<1>4. CASE CleanErrorsDone
  BY <1>4, NewPipeFacts DEF CleanErrorsDone, TypeOK, Cleans, CleanReturn
<1>5. CASE CleanPause
  BY <1>5, NewPipeFacts, ResetQueuedFacts DEF CleanPause, TypeOK, Cleans, CleanReturn, Waiting
<1>6. CASE CleanDefer
  BY <1>6, NewPipeFacts, ResetQueuedFacts DEF CleanDefer, TypeOK, Cleans, CleanReturn, Waiting
<1>7. CASE CleanCancel
  BY <1>7, NewPipeFacts, CancelUnsentFacts DEF CleanCancel, TypeOK, Cleans, CleanReturn
<1>8. CASE CleanSmtp
  BY <1>8, NewPipeFacts, StartFailureFacts DEF CleanSmtp, TypeOK, Cleans, CleanReturn
<1>9. CASE CleanFinish
  BY <1>9, NewPipeFacts, StatusFacts DEF CleanFinish, TypeOK, Cleans, CleanReturn
<1>10. CASE CleanFails
  BY <1>10, NewPipeFacts, HalfwayFacts, SpendFacts DEF CleanFails, TypeOK, Cleans, CleanReturn
<1> QED
  BY <1>1, <1>2, <1>3, <1>4, <1>5, <1>6, <1>7, <1>8, <1>9, <1>10 DEF Cleanup

LEMMA UsersType ==
    ASSUME TypeOK, Users
    PROVE  TypeOK'
<1>1. CASE \E to \in CampaignStatuses : UserStatus(to)
  BY <1>1, ManualStatusFacts, SpendFacts DEF UserStatus, TypeOK
<1>2. CASE UserStop
  BY <1>2, StopCampaignFacts DEF UserStop, TypeOK, Reasons
<1>3. CASE UserRetry
  BY <1>3, RetrySelectedFacts, SpendFacts DEF UserRetry, TypeOK
<1>4. CASE Undeliverable
  BY <1>4, SpendFacts DEF Undeliverable, TypeOK, DB
<1>5. CASE RemoveRecipient
  BY <1>5, RemoveFacts, SpendFacts DEF RemoveRecipient, TypeOK, DB
<1>6. CASE PoolUnsubscribe
  BY <1>6, UnsubscribePoolFacts, SpendFacts DEF PoolUnsubscribe, TypeOK, Recipients
<1>7. CASE SmtpRemove
  BY <1>7, PauseForSMTPFacts, SpendFacts DEF SmtpRemove, TypeOK
<1>8. CASE SmtpStop
  BY <1>8, StopCampaignFacts DEF SmtpStop, TypeOK, Reasons
<1> QED
  BY <1>1, <1>2, <1>3, <1>4, <1>5, <1>6, <1>7, <1>8 DEF Users

LEMMA TypeInit ==
    ASSUME Init
    PROVE  TypeOK
<1>1. db \in DB
  <2>1. /\ {"draft", "scheduled", "running"} \subseteq CampaignStatuses
        /\ {[r \in Recipients |-> "pending"]} \subseteq [Recipients -> RecipientStatuses]
        /\ {[r \in Recipients |-> 0]} \subseteq [Recipients -> Nat]
    BY DEF CampaignStatuses, RecipientStatuses
  <2>2. /\ db.status \in CampaignStatuses /\ db.sendAt \in BOOLEAN
        /\ db.resumeDay = 0 /\ db.retryMode \in BOOLEAN /\ db.sentToday = 0
        /\ db.rcpt \in [Recipients -> RecipientStatuses]
        /\ db.fails \in [Recipients -> Nat]
        /\ db.selected = {} /\ db.counted = Recipients /\ db.deliverable = Recipients
    BY <2>1 DEF Init
  <2>3. db = [status |-> db.status, sendAt |-> db.sendAt, resumeDay |-> db.resumeDay,
              retryMode |-> db.retryMode, rcpt |-> db.rcpt, fails |-> db.fails,
              selected |-> db.selected, counted |-> db.counted,
              deliverable |-> db.deliverable, sentToday |-> db.sentToday]
    BY DEF Init
  <2> QED
    BY <2>2, <2>3 DEF DB
<1>2. /\ claim \in Claims /\ tail \in Tails /\ used \in Uses
      /\ scan \in [at : Scans, from : CampaignStatuses]
  BY DEF Init, Claims, NoClaim, Tails, NoTail, Uses, Scans, CampaignStatuses
<1> QED
  BY <1>1, <1>2, NewPipeFacts DEF Init, TypeOK, Scheds, NoMsgs, Msgs, Cleans

LEMMA TypeStep ==
    ASSUME TypeOK, [Next]_vars
    PROVE  TypeOK'
<1>1. CASE NextDay
  BY <1>1, SpendFacts DEF NextDay, TypeOK, DB
<1>2. CASE Crash
  BY <1>2, NewPipeFacts, SpendFacts
  DEF Crash, TypeOK, Scheds, Claims, NoClaim, NoMsgs, Msgs, NoTail, Tails, Cleans, Scans
<1>3. CASE UNCHANGED vars
  BY <1>3 DEF vars, TypeOK
<1> QED
  BY <1>1, <1>2, <1>3, ScannerType, SchedulerType, WorkerType, WorkerTailType,
     CleanupType, UsersType
  DEF Next

\* Every variable keeps its type.
THEOREM TypeCorrect == Spec => []TypeOK
BY TypeInit, TypeStep, PTL DEF Spec

-----------------------------------------------------------------------------
(* What the steps write. *)

\* How the background changes the status.
BackgroundStep ==
    \/ db'.status = db.status
    \/ db.status = "running"
    \/ db.status \in {"scheduled", "deferred"} /\ db'.status = "running"
    \/ db'.status = "finished" /\ scan.at = "finish"

\* Everything a background step guarantees of the database and of the users' part.
BackgroundWrites ==
    /\ Settles(db, db')
    /\ db.status # "running" => ClaimsNobody(db, db')
    /\ BackgroundStep
    /\ used'.smtp = used.smtp /\ used'.ops = used.ops
    /\ user' = user /\ smtp' = smtp

LEMMA Unwritten ==
    ASSUME db' = db
    PROVE  Settles(db, db') /\ ClaimsNobody(db, db') /\ BackgroundStep /\ Settling(db, db') /\ ReopensOnly(db, db', {})
BY SameRows DEF BackgroundStep, Settling

LEMMA SpendElsewhere ==
    ASSUME TypeOK, NEW what \in {"day", "unsubs", "removals", "faults", "crashes"}, Spend(what)
    PROVE  used'.smtp = used.smtp /\ used'.ops = used.ops
BY DEF TypeOK, Spend, Uses

LEMMA SpendByUser ==
    ASSUME TypeOK
    PROVE  /\ Spend("ops") => used'.ops = used.ops + 1 /\ used'.smtp = used.smtp
           /\ Spend("smtp") => used'.smtp = used.smtp + 1 /\ used'.ops = used.ops
BY DEF TypeOK, Spend, Uses

LEMMA ScannerWrites ==
    ASSUME TypeOK, Scanner
    PROVE  BackgroundWrites
<1> USE DEF BackgroundWrites
<1>1. CASE ScanSelect
  BY <1>1, Unwritten DEF ScanSelect
<1>2. CASE ScanClaim
  BY <1>2, Unwritten, StatusFacts, SameRows DEF ScanClaim, BackgroundStep, TypeOK, Settling
<1>3. CASE ScanReplyInvalid
  BY <1>3, StartFailureFacts, SpendElsewhere DEF ScanReplyInvalid, BackgroundStep, TypeOK, Settling
<1>4. CASE ScanReset
  BY <1>4, ResetPrivateQueuedFacts, ExhaustRetriesFacts DEF ScanReset, BackgroundStep, TypeOK, Settling, Settles, ClaimsNobody
<1>5. CASE ScanSync
  BY <1>5, Unwritten DEF ScanSync
<1>6. CASE ScanFinish
  BY <1>6, StatusFacts, SameRows DEF ScanFinish, BackgroundStep, TypeOK, Settling
<1>7. CASE ScanStart
  BY <1>7, Unwritten DEF ScanStart
<1>8. CASE ScanStartFull
  BY <1>8, Unwritten, SpendElsewhere DEF ScanStartFull
<1>9. CASE ScanStartFails
  BY <1>9, StartFailureFacts, SpendElsewhere DEF ScanStartFails, BackgroundStep, TypeOK, Settling, NoSenderOrFault
<1> QED
  BY <1>1, <1>2, <1>3, <1>4, <1>5, <1>6, <1>7, <1>8, <1>9 DEF Scanner

LEMMA SchedulerWrites ==
    ASSUME TypeOK, Scheduler
    PROVE  BackgroundWrites
<1> USE DEF BackgroundWrites
<1>1. CASE SchedStopped
  BY <1>1, Unwritten DEF SchedStopped
<1>2. CASE SchedRead
  BY <1>2, Unwritten DEF SchedRead
<1>3. CASE SchedClaim
  BY <1>3, IsClaimFacts, ClaimFacts DEF SchedClaim, BackgroundStep, TypeOK, Claims
<1>4. CASE SchedFails
  <2>1. ASSUME NEW batch \in SUBSET Recipients, IsClaim(db, claim.n, batch),
               db' = Claim(db, batch \cap Private)
        PROVE  /\ Settles(db, db') /\ BackgroundStep
               /\ db.status # "running" => ClaimsNobody(db, db')
    <3>1. /\ batch \cap Private \in SUBSET In(db, Waiting)
          /\ db.status # "running" => batch \cap Private = {}
      BY <2>1, IsClaimFacts DEF TypeOK, Claims
    <3> QED
      BY <2>1, <3>1, ClaimFacts DEF TypeOK, BackgroundStep
  <2>2. Settles(db, db') /\ BackgroundStep /\ (db.status # "running" => ClaimsNobody(db, db'))
    BY <1>4, <2>1, Unwritten DEF SchedFails
  <2> QED
    BY <1>4, <2>2, SpendElsewhere DEF SchedFails
<1>5. CASE SchedNoSender
  BY <1>5, Unwritten, SpendElsewhere DEF SchedNoSender
<1>6. CASE SchedDefer
  <2>1. db' = db \/ (db.status = "running" /\ db' = Defer(db, used.day + 1))
    BY <1>6 DEF SchedDefer
  <2>2. used.day + 1 \in Nat
    BY DEF TypeOK, Uses
  <2>3. Settles(db, db') /\ BackgroundStep /\ (db.status # "running" => ClaimsNobody(db, db'))
    BY <2>1, <2>2, Unwritten, DeferFacts DEF TypeOK, BackgroundStep, Settling
  <2> QED
    BY <1>6, <2>3 DEF SchedDefer
<1>7. CASE SchedDeferFails
  BY <1>7, Unwritten, SpendElsewhere DEF SchedDeferFails
<1>8. CASE SchedPush
  BY <1>8, Unwritten DEF SchedPush
<1>9. CASE SchedRenderFails
  <2>1. PICK r \in claim.batch, recorded \in BOOLEAN, released \in BOOLEAN :
          LET failed == IF recorded THEN RecordFailure(db, r) ELSE db
          IN  db' = IF released THEN MarkPending(failed, r) ELSE failed
    BY <1>9 DEF SchedRenderFails
  <2> DEFINE failed == IF recorded THEN RecordFailure(db, r) ELSE db
  <2>2. r \in Recipients
    BY DEF TypeOK, Claims
  <2>3. /\ failed \in DB /\ failed.status = db.status
        /\ Settles(db, failed) /\ ClaimsNobody(db, failed)
    BY <2>2, RecordFailureFacts, SameRows DEF TypeOK, Settling
  <2>4. db' = IF released THEN MarkPending(failed, r) ELSE failed
    BY <2>1
  <2> HIDE DEF failed
  <2>5. Settles(db, db') /\ ClaimsNobody(db, db') /\ db'.status = db.status
    BY <2>2, <2>3, <2>4, MarkPendingFacts DEF Settling, Settles, ClaimsNobody
  <2> QED
    BY <1>9, <2>5, SpendElsewhere DEF SchedRenderFails, BackgroundStep
<1>10. CASE SchedAbandon
  BY <1>10, Unwritten DEF SchedAbandon
<1>11. CASE SchedRequeue
  BY <1>11, Unwritten DEF SchedRequeue
<1>12. CASE SchedRequeueFull
  BY <1>12, Unwritten, SpendElsewhere DEF SchedRequeueFull
<1>13. CASE SchedWake
  BY <1>13, Unwritten DEF SchedWake
<1>14. CASE SchedStopWaiting
  BY <1>14, Unwritten DEF SchedStopWaiting
<1> QED
  BY <1>1, <1>2, <1>3, <1>4, <1>5, <1>6, <1>7, <1>8, <1>9, <1>10, <1>11, <1>12, <1>13, <1>14 DEF Scheduler

LEMMA WorkerWrites ==
    ASSUME TypeOK, NEW r \in Recipients, Worker(r)
    PROVE  BackgroundWrites
<1> USE DEF BackgroundWrites
<1>1. CASE WorkerTake(r)
  BY <1>1, Unwritten DEF WorkerTake
<1>2. CASE WorkerAccepted(r)
  BY <1>2, Unwritten DEF WorkerAccepted
<1>3. CASE WorkerSent(r)
  BY <1>3, MarkSentFacts DEF WorkerSent, BackgroundStep, TypeOK, Settling
<1>4. CASE WorkerSentFails(r)
  BY <1>4, Unwritten, SpendElsewhere DEF WorkerSentFails
<1>5. CASE WorkerFailed(r)
  BY <1>5, RecordFailureFacts DEF WorkerFailed, BackgroundStep, TypeOK
<1>6. CASE WorkerFailedUnrecorded(r)
  BY <1>6, Unwritten, SpendElsewhere DEF WorkerFailedUnrecorded
<1>7. CASE WorkerBlocked(r)
  BY <1>7, RecordFailureFacts, SpendElsewhere DEF WorkerBlocked, BackgroundStep, TypeOK, NoSenderOrFault
<1>8. CASE WorkerCancelled(r)
  BY <1>8, Unwritten DEF WorkerCancelled
<1>9. CASE WorkerRelease(r)
  BY <1>9, MarkPendingFacts DEF WorkerRelease, BackgroundStep, TypeOK, Settling
<1>10. CASE WorkerReleaseFails(r)
  BY <1>10, Unwritten, SpendElsewhere DEF WorkerReleaseFails
<1>11. CASE WorkerQuota(r)
  BY <1>11, Unwritten DEF WorkerQuota
<1>12. CASE WorkerDefer(r)
  <2>1. db' = db \/ (db.status = "running" /\ db' = Defer(db, used.day + 1))
    BY <1>12 DEF WorkerDefer
  <2>2. used.day + 1 \in Nat
    BY DEF TypeOK, Uses
  <2>3. Settles(db, db') /\ BackgroundStep /\ (db.status # "running" => ClaimsNobody(db, db'))
    BY <2>1, <2>2, Unwritten, DeferFacts DEF TypeOK, BackgroundStep, Settling
  <2> QED
    BY <1>12, <2>3 DEF WorkerDefer
<1>13. CASE WorkerDeferFails(r)
  BY <1>13, Unwritten, SpendElsewhere DEF WorkerDeferFails
<1> QED
  BY <1>1, <1>2, <1>3, <1>4, <1>5, <1>6, <1>7, <1>8, <1>9, <1>10, <1>11, <1>12, <1>13 DEF Worker

LEMMA WorkerTailWrites ==
    ASSUME TypeOK, WorkerTail
    PROVE  BackgroundWrites
<1> USE DEF BackgroundWrites
<1>1. CASE WorkerDone
  BY <1>1, Unwritten DEF WorkerDone
<1>2. CASE WorkerError
  BY <1>2, Unwritten DEF WorkerError
<1>3. CASE WorkerMediaError
  BY <1>3, Unwritten, SpendElsewhere DEF WorkerMediaError
<1> QED
  BY <1>1, <1>2, <1>3 DEF WorkerTail

LEMMA CleanupWrites ==
    ASSUME TypeOK, Cleanup
    PROVE  BackgroundWrites
<1> USE DEF BackgroundWrites
<1>1. CASE CleanStart
  BY <1>1, Unwritten DEF CleanStart
<1>2. CASE CleanDecide
  BY <1>2, Unwritten DEF CleanDecide
<1>3. CASE CleanErrors
  BY <1>3, Unwritten, ResetQueuedFacts, StatusFacts, SameRows
  DEF CleanErrors, BackgroundStep, TypeOK, Settling, Settles, ClaimsNobody, Waiting
<1>4. CASE CleanErrorsDone
  BY <1>4, Unwritten DEF CleanErrorsDone
<1>5. CASE CleanPause
  BY <1>5, ResetQueuedFacts DEF CleanPause, BackgroundStep, TypeOK, Settling, Waiting
<1>6. CASE CleanDefer
  BY <1>6, ResetQueuedFacts DEF CleanDefer, BackgroundStep, TypeOK, Settling, Waiting
<1>7. CASE CleanCancel
  BY <1>7, CancelUnsentFacts DEF CleanCancel, BackgroundStep, TypeOK, Settling
<1>8. CASE CleanSmtp
  BY <1>8, Unwritten, StartFailureFacts DEF CleanSmtp, BackgroundStep, TypeOK, Settling
<1>9. CASE CleanFinish
  BY <1>9, Unwritten, StatusFacts, SameRows DEF CleanFinish, BackgroundStep, TypeOK, Settling
<1>10. CASE CleanFails
  BY <1>10, HalfwayFacts, SpendElsewhere DEF CleanFails, BackgroundStep, TypeOK, Settling
<1> QED
  BY <1>1, <1>2, <1>3, <1>4, <1>5, <1>6, <1>7, <1>8, <1>9, <1>10 DEF Cleanup

LEMMA UsersWrites ==
    ASSUME TypeOK, Users
    PROVE  /\ Settles(db, db') /\ ClaimsNobody(db, db')
           /\ db'.status = db.status \/ ByUser
<1> USE DEF TypeOK, ByUser, Settling
<1>1. CASE \E to \in CampaignStatuses : UserStatus(to)
  BY <1>1, ManualStatusFacts, SpendByUser DEF UserStatus, Uses
<1>2. CASE UserStop
  BY <1>2, Unwritten DEF UserStop
<1>3. CASE UserRetry
  BY <1>3, RetrySelectedFacts, SameRows, SpendByUser DEF UserRetry, Uses
<1>4. CASE Undeliverable
  <2>1. db'.rcpt = db.rcpt /\ db'.fails = db.fails /\ db'.status = db.status
    BY <1>4 DEF Undeliverable, DB
  <2> QED
    BY <2>1, SameRows
<1>5. CASE RemoveRecipient
  BY <1>5, RemoveFacts, SameRows DEF RemoveRecipient, DB
<1>6. CASE PoolUnsubscribe
  BY <1>6, UnsubscribePoolFacts DEF PoolUnsubscribe, Recipients
<1>7. CASE SmtpRemove
  BY <1>7, PauseForSMTPFacts, SpendByUser DEF SmtpRemove, Uses
<1>8. CASE SmtpStop
  BY <1>8, Unwritten DEF SmtpStop
<1> QED
  BY <1>1, <1>2, <1>3, <1>4, <1>5, <1>6, <1>7, <1>8 DEF Users

LEMMA NextDayWrites ==
    ASSUME TypeOK, NextDay
    PROVE  BackgroundWrites /\ db'.rcpt = db.rcpt /\ db'.fails = db.fails
<1>1. db'.rcpt = db.rcpt /\ db'.fails = db.fails /\ db'.status = db.status
  BY DEF NextDay, TypeOK, DB
<1> QED
  BY <1>1, SameRows, SpendElsewhere DEF BackgroundWrites, BackgroundStep, Settling, NextDay

LEMMA NextWrites ==
    ASSUME TypeOK, [Next]_vars
    PROVE  /\ Settles(db, db')
           /\ db.status # "running" => ClaimsNobody(db, db')
           /\ BackgroundStep \/ ByUser
<1>1. CASE Users
  BY <1>1, UsersWrites DEF BackgroundStep
<1>2. CASE Crash
  BY <1>2, Unwritten DEF Crash
<1>3. CASE UNCHANGED vars
  BY <1>3, Unwritten DEF vars
<1> QED
  BY <1>1, <1>2, <1>3, ScannerWrites, SchedulerWrites, WorkerWrites, WorkerTailWrites,
     CleanupWrites, NextDayWrites
  DEF Next, BackgroundWrites

\* sent and failed are final, whoever writes late (the guards of markCampaignMessageSent,
\* MarkPending and every bulk update).
THEOREM SettledCorrect == Spec => SettledForever
<1>1. TypeOK /\ [Next]_vars =>
        [\A r \in Recipients :
            /\ db.rcpt[r] = "sent" => db'.rcpt[r] = "sent"
            /\ db.rcpt[r] = "failed" => db'.rcpt[r] \in {"failed", "sent"}]_vars
  BY NextWrites DEF Settles
<1> QED
  BY <1>1, TypeCorrect, PTL DEF Spec, SettledForever

\* Only users move a campaign against the background's transitions.
THEOREM BackgroundCorrect == Spec => BackgroundStatus
<1>1. TypeOK /\ [Next]_vars =>
        [db'.status # db.status /\ ~ByUser =>
            \/ db.status = "running"
            \/ db.status \in {"scheduled", "deferred"} /\ db'.status = "running"
            \/ db'.status = "finished" /\ scan.at = "finish"]_vars
  BY NextWrites DEF BackgroundStep
<1> QED
  BY <1>1, TypeCorrect, PTL DEF Spec, BackgroundStatus

-----------------------------------------------------------------------------
(* Counting references. *)

Counts == WaitGroupExact /\ PipeAlone

Rows == NoOverlap /\ RetryBound /\ HeldRows /\ AttemptsLeft

LEMMA OutstandingFacts ==
    ASSUME TypeOK
    PROVE  /\ InFlight \in SUBSET Recipients
           /\ IsFiniteSet(InFlight)
           /\ Cardinality(InFlight) \in Nat
           /\ tail.ok \in Nat /\ tail.error \in Nat
           /\ Outstanding \in Nat
           /\ pipe.wg \in Int
<1>1. InFlight \in SUBSET Recipients
  BY DEF InFlight
<1>2. IsFiniteSet(InFlight) /\ Cardinality(InFlight) \in Nat
  BY <1>1, RecipientsFinite
<1>3. tail.ok \in Nat /\ tail.error \in Nat /\ pipe.wg \in Int
  BY DEF TypeOK, Tails, Pipe, PipeRecord
<1> QED
  BY <1>1, <1>2, <1>3 DEF Outstanding

\* No reference left: nobody works for the campaign.
LEMMA NobodyLeft ==
    ASSUME TypeOK, Outstanding = 0
    PROVE  sched = "none" /\ InFlight = {} /\ tail.ok = 0 /\ tail.error = 0
<1>1. sched = "none" /\ Cardinality(InFlight) = 0 /\ tail.ok = 0 /\ tail.error = 0
  BY OutstandingFacts DEF Outstanding
<1> QED
  BY <1>1, OutstandingFacts, FS_EmptySet

\* Somebody is left: the pipe is registered and cleanup has not begun.
LEMMA SomebodyLeft ==
    ASSUME TypeOK, Counts, sched # "none" \/ InFlight # {} \/ tail.ok > 0 \/ tail.error > 0
    PROVE  pipe.live /\ clean = "none" /\ pipe.wg > 0 /\ scan.at = "idle"
<1>1. Outstanding # 0
  BY NobodyLeft, OutstandingFacts
<1> QED
  BY <1>1, OutstandingFacts DEF Counts, WaitGroupExact, PipeAlone

\* While a campaign is with the scanner or a pipe with its cleanup, nobody is.
LEMMA Quiet ==
    ASSUME TypeOK, Counts, scan.at # "idle" \/ clean # "none"
    PROVE  sched = "none" /\ InFlight = {} /\ claim.batch = {}
           /\ tail.ok = 0 /\ tail.error = 0 /\ pipe.wg = 0
BY NobodyLeft DEF Counts, WaitGroupExact, PipeAlone

LEMMA SettledMessage ==
    ASSUME TypeOK, NEW r \in Recipients, msg[r] # "none", msg' = [msg EXCEPT ![r] = "none"]
    PROVE  /\ InFlight' = InFlight \ {r}
           /\ Cardinality(InFlight') = Cardinality(InFlight) - 1
           /\ InFlight # {}
<1>1. InFlight' = InFlight \ {r} /\ r \in InFlight
  BY DEF TypeOK, InFlight
<1> QED
  BY <1>1, OutstandingFacts, FS_RemoveElement

LEMMA MovedMessage ==
    ASSUME TypeOK, NEW r \in Recipients, msg[r] # "none",
           NEW m \in Msgs \ {"none"}, msg' = [msg EXCEPT ![r] = m]
    PROVE  InFlight' = InFlight /\ InFlight # {}
BY DEF TypeOK, InFlight

LEMMA NewMessage ==
    ASSUME TypeOK, NEW r \in Recipients, msg[r] = "none", msg' = [msg EXCEPT ![r] = "queued"]
    PROVE  /\ InFlight' = InFlight \cup {r}
           /\ Cardinality(InFlight') = Cardinality(InFlight) + 1
<1>1. InFlight' = InFlight \cup {r} /\ r \notin InFlight
  BY DEF TypeOK, InFlight
<1> QED
  BY <1>1, OutstandingFacts, FS_AddElement

\* A step that touches no reference.
LEMMA CountsKept ==
    ASSUME TypeOK, Counts,
           pipe'.live = pipe.live, pipe'.wg = pipe.wg,
           sched' = sched \/ (sched # "none" /\ sched' # "none"),
           sched' # "push" => claim'.batch = {},
           InFlight' = InFlight, tail' = tail, clean' = clean,
           scan'.at # "idle" => scan.at # "idle" \/ ~pipe.live
    PROVE  Counts'
BY DEF Counts, WaitGroupExact, PipeAlone, Outstanding

\* The scheduler gives its reference up.
LEMMA SchedReleased ==
    ASSUME TypeOK, Counts, sched # "none",
           NEW p \in Pipe, p.live = pipe.live, p.wg = pipe.wg, ReleaseSched(p),
           msg' = msg, tail' = tail, clean' = clean, scan' = scan
    PROVE  Counts'
<1>1. pipe'.live = pipe.live /\ pipe'.wg = pipe.wg - 1 /\ sched' = "none" /\ claim'.batch = {}
  BY DoneFacts DEF ReleaseSched, NoClaim
<1>2. InFlight' = InFlight
  BY DEF InFlight
<1> QED
  BY <1>1, <1>2, SomebodyLeft, OutstandingFacts
  DEF Counts, WaitGroupExact, PipeAlone, Outstanding

\* A worker settles a message and reports it.
LEMMA MessageReleased ==
    ASSUME TypeOK, Counts, NEW r \in Recipients,
           msg[r] # "none", msg' = [msg EXCEPT ![r] = "none"],
           pipe'.live = pipe.live, pipe'.wg = pipe.wg - 1,
           sched' = sched, claim' = claim, tail' = tail, clean' = clean, scan' = scan
    PROVE  Counts'
<1>1. Cardinality(InFlight') = Cardinality(InFlight) - 1 /\ InFlight # {}
  BY SettledMessage
<1>2. pipe.live /\ clean = "none" /\ scan.at = "idle"
  BY <1>1, SomebodyLeft
<1> QED
  BY <1>1, <1>2, OutstandingFacts DEF Counts, WaitGroupExact, PipeAlone, Outstanding

\* A worker settles a message and will report it.
LEMMA MessageToTail ==
    ASSUME TypeOK, Counts, NEW r \in Recipients,
           msg[r] # "none", msg' = [msg EXCEPT ![r] = "none"],
           tail'.ok + tail'.error = tail.ok + tail.error + 1,
           tail'.ok \in Nat, tail'.error \in Nat,
           pipe' = pipe, sched' = sched, claim' = claim, clean' = clean, scan' = scan
    PROVE  Counts'
<1>1. Cardinality(InFlight') = Cardinality(InFlight) - 1 /\ InFlight # {}
  BY SettledMessage
<1>2. pipe.live /\ clean = "none" /\ scan.at = "idle"
  BY <1>1, SomebodyLeft
<1> QED
  BY <1>1, <1>2, OutstandingFacts DEF Counts, WaitGroupExact, PipeAlone, Outstanding

\* A worker reports.
LEMMA TailReleased ==
    ASSUME TypeOK, Counts,
           tail.ok + tail.error > 0, tail'.ok + tail'.error = tail.ok + tail.error - 1,
           tail'.ok \in Nat, tail'.error \in Nat,
           pipe'.live = pipe.live, pipe'.wg = pipe.wg - 1,
           msg' = msg, sched' = sched, claim' = claim, clean' = clean, scan' = scan
    PROVE  Counts'
<1>1. InFlight' = InFlight
  BY DEF InFlight
<1>2. tail.ok > 0 \/ tail.error > 0
  BY OutstandingFacts
<1> QED
  BY <1>1, <1>2, SomebodyLeft, OutstandingFacts
  DEF Counts, WaitGroupExact, PipeAlone, Outstanding

LEMMA ScannerCounts ==
    ASSUME TypeOK, Counts, Scanner
    PROVE  Counts'
<1> USE DEF InFlight
<1>1. CASE ScanSelect
  BY <1>1, CountsKept DEF ScanSelect, TypeOK, Counts, PipeAlone
<1>2. CASE ScanClaim
  BY <1>2, CountsKept DEF ScanClaim, TypeOK, Counts, PipeAlone
<1>3. CASE ScanReplyInvalid
  BY <1>3, CountsKept DEF ScanReplyInvalid, TypeOK, Counts, PipeAlone
<1>4. CASE ScanReset
  BY <1>4, CountsKept DEF ScanReset, TypeOK, Counts, PipeAlone
<1>5. CASE ScanSync
  BY <1>5, CountsKept DEF ScanSync, TypeOK, Counts, PipeAlone
<1>6. CASE ScanFinish
  BY <1>6, CountsKept DEF ScanFinish, TypeOK, Counts, PipeAlone
<1>7. CASE ScanStartFails
  BY <1>7, CountsKept DEF ScanStartFails, TypeOK, Counts, PipeAlone
<1>8. CASE ScanStart
  <2>1. sched = "none" /\ InFlight = {} /\ tail.ok = 0 /\ tail.error = 0 /\ claim.batch = {}
        /\ clean = "none"
    BY <1>8, Quiet DEF ScanStart, Counts, PipeAlone, WaitGroupExact
  <2>2. InFlight' = {} /\ pipe'.wg = 1 /\ pipe'.live /\ sched' = "queued"
        /\ tail' = tail /\ claim' = claim /\ clean' = clean /\ scan'.at = "idle"
    BY <1>8, <2>1, NewPipeFacts DEF ScanStart, TypeOK
  <2> HIDE DEF InFlight
  <2> QED
    BY <2>1, <2>2, FS_EmptySet DEF Counts, PipeAlone, WaitGroupExact, Outstanding
<1>9. CASE ScanStartFull
  <2>1. sched = "none" /\ InFlight = {} /\ tail.ok = 0 /\ tail.error = 0 /\ claim.batch = {}
        /\ clean = "none"
    BY <1>9, Quiet DEF ScanStartFull, Counts, PipeAlone, WaitGroupExact
  <2>2. pipe'.wg = 0
    <3> DEFINE q == Stop(NewPipe, "pause", FALSE)
    <3>1. q \in Pipe /\ q.wg = 1 /\ pipe' = Done(q)
      BY <1>9, NewPipeFacts, StopFacts DEF ScanStartFull, Reasons
    <3> HIDE DEF q
    <3> QED
      BY <3>1, DoneFacts
  <2>3. InFlight' = {} /\ sched' = sched
        /\ tail' = tail /\ claim' = claim /\ clean' = clean /\ scan'.at = "idle"
    BY <1>9, <2>1 DEF ScanStartFull, TypeOK
  <2> HIDE DEF InFlight
  <2> QED
    BY <2>1, <2>2, <2>3, FS_EmptySet DEF Counts, PipeAlone, WaitGroupExact, Outstanding
<1> QED
  BY <1>1, <1>2, <1>3, <1>4, <1>5, <1>6, <1>7, <1>8, <1>9 DEF Scanner

LEMMA SchedulerCounts ==
    ASSUME TypeOK, Counts, NoOverlap, Scheduler
    PROVE  Counts'
<1>1. \A why \in {"pause", "smtp"} :
        LET q == Stop(pipe, why, FALSE)
        IN  q \in Pipe /\ q.live = pipe.live /\ q.wg = pipe.wg
  BY StopFacts DEF TypeOK, Reasons
<1>2. pipe \in Pipe
  BY DEF TypeOK
<1>3. CASE SchedStopped
  BY <1>3, <1>2, SchedReleased DEF SchedStopped
<1>4. CASE SchedDeferFails
  BY <1>4, <1>2, EarlyFacts, SchedReleased DEF SchedDeferFails
<1>5. CASE SchedAbandon
  BY <1>5, <1>2, SchedReleased DEF SchedAbandon
<1>6. CASE SchedStopWaiting
  BY <1>6, <1>2, SchedReleased DEF SchedStopWaiting
<1>7. CASE SchedFails
  BY <1>7, <1>1, SchedReleased DEF SchedFails
<1>8. CASE SchedNoSender
  BY <1>8, <1>1, SchedReleased DEF SchedNoSender
<1>9. CASE SchedRequeueFull
  BY <1>9, <1>1, SchedReleased DEF SchedRequeueFull
<1>10. CASE SchedRead
  <2>1. CASE ReleaseSched(NotRunning(pipe))
    BY <1>10, <2>1, <1>2, NotRunningFacts, SchedReleased DEF SchedRead
  <2>2. CASE ~ReleaseSched(NotRunning(pipe))
    <3>1. sched # "none" /\ sched' \in {"defer", "waiting", "claim"} /\ claim'.batch = {}
          /\ pipe' = pipe
      BY <1>10, <2>2 DEF SchedRead, NoClaim
    <3> QED
      BY <1>10, <3>1, CountsKept DEF SchedRead, InFlight
  <2> QED
    BY <2>1, <2>2
<1>11. CASE SchedClaim
  <2>1. CASE ReleaseSched(NotRunning(pipe))
    BY <1>11, <2>1, <1>2, NotRunningFacts, SchedReleased DEF SchedClaim
  <2>2. CASE ~ReleaseSched(NotRunning(pipe))
    <3>1. /\ sched # "none" /\ pipe' = pipe
          /\ sched' = "push" \/ (sched' = "waiting" /\ claim'.batch = {})
      BY <1>11, <2>2 DEF SchedClaim, NoClaim
    <3> QED
      BY <1>11, <3>1, CountsKept DEF SchedClaim, InFlight
  <2> QED
    BY <2>1, <2>2
<1>12. CASE SchedDefer
  <2>1. LET q == [pipe EXCEPT !.deferred = TRUE]
        IN  q \in Pipe /\ q.live = pipe.live /\ q.wg = pipe.wg
    BY <1>2 DEF Pipe, PipeRecord
  <2>2. sched # "none" /\ msg' = msg /\ tail' = tail /\ clean' = clean /\ scan' = scan
    BY <1>12 DEF SchedDefer
  <2>3. \/ ReleaseSched([pipe EXCEPT !.deferred = TRUE])
        \/ ReleaseSched(Stop(pipe, "pause", FALSE))
    BY <1>12 DEF SchedDefer
  <2> QED
    BY <1>1, <2>1, <2>2, <2>3, SchedReleased
<1>13. CASE SchedPush
  <2>1. PICK r \in claim.batch :
          /\ msg' = [msg EXCEPT ![r] = "queued"]
          /\ pipe' = [pipe EXCEPT !.wg = @ + 1]
    BY <1>13 DEF SchedPush
  <2>2. r \in Recipients /\ msg[r] = "none"
    BY <2>1 DEF TypeOK, Claims, NoOverlap, InFlight
  <2>3. Cardinality(InFlight') = Cardinality(InFlight) + 1
    BY <2>1, <2>2, NewMessage
  <2>4. pipe'.wg = pipe.wg + 1 /\ pipe'.live = pipe.live
    BY <2>1, <1>2 DEF Pipe, PipeRecord
  <2>5. sched = "push" /\ sched' = sched /\ tail' = tail /\ clean' = clean /\ scan' = scan
    BY <1>13 DEF SchedPush
  <2>6. pipe.live /\ clean = "none" /\ scan.at = "idle"
    BY <2>5, SomebodyLeft
  <2> QED
    BY <2>3, <2>4, <2>5, <2>6, OutstandingFacts
    DEF Counts, WaitGroupExact, PipeAlone, Outstanding
<1>14. CASE SchedRenderFails
  <2>1. LET q == Stop(pipe, "pause", TRUE)
        IN  q \in Pipe /\ q.live = pipe.live /\ q.wg = pipe.wg
    BY StopFacts DEF TypeOK, Reasons
  <2>2. pipe' = OnError(pipe) \/ pipe' = OnError(Stop(pipe, "pause", TRUE))
    BY <1>14 DEF SchedRenderFails
  <2>3. pipe'.live = pipe.live /\ pipe'.wg = pipe.wg
    BY <1>2, <2>1, <2>2, OnErrorFacts
  <2> QED
    BY <1>14, <2>3, CountsKept DEF SchedRenderFails, InFlight
<1>15. CASE SchedRequeue
  BY <1>15, CountsKept DEF SchedRequeue, InFlight, NoClaim
<1>16. CASE SchedWake
  <2>1. pipe'.live = pipe.live /\ pipe'.wg = pipe.wg
    BY <1>16, <1>2 DEF SchedWake, Pipe, PipeRecord
  <2> QED
    BY <1>16, <2>1, CountsKept DEF SchedWake, InFlight, Counts, PipeAlone
<1> QED
  BY <1>3, <1>4, <1>5, <1>6, <1>7, <1>8, <1>9, <1>10, <1>11, <1>12, <1>13, <1>14, <1>15, <1>16 DEF Scheduler

LEMMA WorkerCounts ==
    ASSUME TypeOK, Counts, NEW r \in Recipients, Worker(r)
    PROVE  Counts'
<1>1. \A p \in Pipe : MessageDone(p).live = p.live /\ MessageDone(p).wg = p.wg - 1
  BY MessageDoneFacts
<1>2. \A why \in {"pause", "smtp", "deferred"}, b \in BOOLEAN :
        LET q == Stop(pipe, why, b)
        IN  q \in Pipe /\ q.live = pipe.live /\ q.wg = pipe.wg
  BY StopFacts DEF TypeOK, Reasons
<1>3. pipe \in Pipe
  BY DEF TypeOK
<1>4. CASE WorkerTake(r)
  <2>1. CASE pipe.stopped
    BY <1>4, <1>1, <1>3, <2>1, MessageReleased DEF WorkerTake
  <2>2. CASE ~pipe.stopped
    BY <1>4, <2>2, MovedMessage, CountsKept DEF WorkerTake, Msgs, Counts, PipeAlone
  <2> QED
    BY <2>1, <2>2
<1>5. CASE WorkerAccepted(r)
  BY <1>5, MovedMessage, CountsKept DEF WorkerAccepted, Msgs, Counts, PipeAlone
<1>6. CASE WorkerSent(r)
  <2>1. tail'.ok = tail.ok + 1 /\ tail'.error = tail.error
    BY <1>6 DEF WorkerSent, TypeOK, Tails
  <2>2. /\ tail'.ok + tail'.error = tail.ok + tail.error + 1
        /\ tail'.ok \in Nat /\ tail'.error \in Nat
    BY <2>1, OutstandingFacts
  <2>3. /\ msg[r] # "none" /\ msg' = [msg EXCEPT ![r] = "none"]
        /\ pipe' = pipe /\ sched' = sched /\ claim' = claim /\ clean' = clean /\ scan' = scan
    BY <1>6 DEF WorkerSent
  <2> QED
    BY <2>2, <2>3, MessageToTail
<1>7. CASE WorkerSentFails(r)
  BY <1>7, <1>1, <1>2, MessageReleased DEF WorkerSentFails
<1>8. CASE WorkerFailed(r)
  BY <1>8, MovedMessage, CountsKept DEF WorkerFailed, Msgs, Counts, PipeAlone
<1>9. CASE WorkerFailedUnrecorded(r)
  BY <1>9, <1>2, MovedMessage, CountsKept DEF WorkerFailedUnrecorded, Msgs, Counts, PipeAlone
<1>10. CASE WorkerBlocked(r)
  BY <1>10, <1>1, <1>2, MessageReleased DEF WorkerBlocked
<1>11. CASE WorkerCancelled(r)
  BY <1>11, <1>1, <1>3, MessageReleased DEF WorkerCancelled
<1>12. CASE WorkerRelease(r)
  <2>1. tail'.ok = tail.ok /\ tail'.error = tail.error + 1
    BY <1>12 DEF WorkerRelease, TypeOK, Tails
  <2>2. /\ tail'.ok + tail'.error = tail.ok + tail.error + 1
        /\ tail'.ok \in Nat /\ tail'.error \in Nat
    BY <2>1, OutstandingFacts
  <2>3. /\ msg[r] # "none" /\ msg' = [msg EXCEPT ![r] = "none"]
        /\ pipe' = pipe /\ sched' = sched /\ claim' = claim /\ clean' = clean /\ scan' = scan
    BY <1>12 DEF WorkerRelease
  <2> QED
    BY <2>2, <2>3, MessageToTail
<1>13. CASE WorkerReleaseFails(r)
  <2>1. LET q == OnError(Stop(pipe, "pause", TRUE))
        IN  q \in Pipe /\ q.live = pipe.live /\ q.wg = pipe.wg
    BY <1>2, OnErrorFacts
  <2> QED
    BY <1>13, <1>1, <2>1, MessageReleased DEF WorkerReleaseFails
<1>14. CASE WorkerQuota(r)
  BY <1>14, MovedMessage, CountsKept DEF WorkerQuota, Msgs, Counts, PipeAlone
<1>15. CASE WorkerDefer(r)
  <2> DEFINE p == [pipe EXCEPT !.deferred = TRUE]
  <2>1. p \in Pipe /\ p.live = pipe.live /\ p.wg = pipe.wg
    BY <1>3 DEF Pipe, PipeRecord
  <2>2. \/ pipe' = MessageDone(pipe)
        \/ pipe' = MessageDone(Stop(pipe, "deferred", FALSE))
        \/ pipe' = MessageDone(Stop(p, "deferred", FALSE))
        \/ pipe' = MessageDone(Stop(pipe, "pause", FALSE))
    BY <1>15 DEF WorkerDefer
  <2> HIDE DEF p
  <2>3. LET q == Stop(p, "deferred", FALSE)
        IN  q \in Pipe /\ q.live = pipe.live /\ q.wg = pipe.wg
    BY <2>1, StopFacts DEF Reasons
  <2>4. pipe'.live = pipe.live /\ pipe'.wg = pipe.wg - 1
    BY <1>1, <1>2, <1>3, <2>2, <2>3
  <2> QED
    BY <1>15, <2>4, MessageReleased DEF WorkerDefer
<1>16. CASE WorkerDeferFails(r)
  BY <1>16, <1>1, <1>3, MessageReleased DEF WorkerDeferFails
<1> QED
  BY <1>4, <1>5, <1>6, <1>7, <1>8, <1>9, <1>10, <1>11, <1>12, <1>13, <1>14, <1>15, <1>16
  DEF Worker

LEMMA WorkerTailCounts ==
    ASSUME TypeOK, Counts, WorkerTail
    PROVE  Counts'
<1>1. \A p \in Pipe : MessageDone(p).live = p.live /\ MessageDone(p).wg = p.wg - 1
  BY MessageDoneFacts
<1>2. CASE WorkerDone
  <2>1. tail'.ok = tail.ok - 1 /\ tail'.error = tail.error
    BY <1>2 DEF WorkerDone, TypeOK, Tails
  <2>2. pipe'.live = pipe.live /\ pipe'.wg = pipe.wg - 1
    BY <1>1, <1>2 DEF WorkerDone, TypeOK
  <2> QED
    BY <1>2, <2>1, <2>2, TailReleased, OutstandingFacts DEF WorkerDone
<1>3. CASE WorkerError
  <2>1. tail'.error = tail.error - 1 /\ tail'.ok = tail.ok
    BY <1>3 DEF WorkerError, TypeOK, Tails
  <2>2. pipe'.live = pipe.live /\ pipe'.wg = pipe.wg - 1
    BY <1>1, <1>3, OnErrorFacts DEF WorkerError, TypeOK
  <2> QED
    BY <1>3, <2>1, <2>2, TailReleased, OutstandingFacts DEF WorkerError
<1>4. CASE WorkerMediaError
  <2>1. tail'.error = tail.error - 1 /\ tail'.ok = tail.ok
    BY <1>4 DEF WorkerMediaError, TypeOK, Tails
  <2>2. pipe'.live = pipe.live /\ pipe'.wg = pipe.wg - 1
    BY <1>1, <1>4, StopFacts, ZenonT(40) DEF WorkerMediaError, TypeOK, Reasons
  <2> QED
    BY <1>4, <2>1, <2>2, TailReleased, OutstandingFacts DEF WorkerMediaError
<1> QED
  BY <1>2, <1>3, <1>4 DEF WorkerTail

LEMMA CleanupCounts ==
    ASSUME TypeOK, Counts, Cleanup
    PROVE  Counts'
<1>1. CASE CleanStart
  BY <1>1 DEF CleanStart, Counts, WaitGroupExact, PipeAlone, Outstanding, InFlight
<1>2. CASE ~CleanStart
  <2>1. clean # "none"
    BY <1>2 DEF Cleanup, CleanDecide, CleanErrors, CleanErrorsDone, CleanPause, CleanDefer,
                CleanCancel, CleanSmtp, CleanFinish, CleanFails
  <2>2. pipe' = pipe \/ (pipe' = NoPipe /\ clean' = "none")
    BY <1>2 DEF Cleanup, CleanDecide, CleanErrors, CleanErrorsDone, CleanPause, CleanDefer,
                CleanCancel, CleanSmtp, CleanFinish, CleanFails, CleanReturn
  <2>3. /\ sched' = sched /\ claim' = claim /\ msg' = msg /\ tail' = tail /\ scan' = scan
    BY <1>2 DEF Cleanup, CleanDecide, CleanErrors, CleanErrorsDone, CleanPause, CleanDefer,
                CleanCancel, CleanSmtp, CleanFinish, CleanFails
  <2>4. Outstanding' = 0 /\ pipe.live /\ scan.at = "idle" /\ pipe.wg = 0
    BY <2>1, <2>3 DEF Counts, WaitGroupExact, PipeAlone, Outstanding, InFlight
  <2> QED
    BY <2>2, <2>3, <2>4, NewPipeFacts DEF Counts, WaitGroupExact, PipeAlone
<1> QED
  BY <1>1, <1>2

LEMMA UsersCounts ==
    ASSUME TypeOK, Counts, Users
    PROVE  Counts'
<1>1. /\ pipe' = pipe \/ pipe' = StopCampaign(pipe, "pause")
                      \/ pipe' = StopCampaign(pipe, "cancelled")
      /\ UNCHANGED <<sched, claim, msg, tail, clean, scan>>
  BY DEF Users, UserStatus, UserStop, UserRetry, Undeliverable, RemoveRecipient,
         PoolUnsubscribe, SmtpRemove, SmtpStop
<1>2. pipe'.live = pipe.live /\ pipe'.wg = pipe.wg
  BY <1>1, StopCampaignFacts DEF TypeOK, Reasons
<1> QED
  BY <1>1, <1>2, CountsKept DEF InFlight, Counts, PipeAlone

LEMMA NextCounts ==
    ASSUME TypeOK, Counts, NoOverlap, [Next]_vars
    PROVE  Counts'
<1>1. CASE NextDay
  BY <1>1, CountsKept DEF NextDay, InFlight, Counts, PipeAlone
<1>2. CASE Crash
  <2>1. InFlight' = {}
    BY <1>2 DEF Crash, InFlight, NoMsgs
  <2>2. /\ pipe' = NoPipe /\ sched' = "none" /\ claim'.batch = {} /\ clean' = "none"
        /\ tail'.ok = 0 /\ tail'.error = 0
    BY <1>2 DEF Crash, NoClaim, NoTail
  <2>3. scan'.at = "idle"
    BY <1>2 DEF Crash, TypeOK
  <2> QED
    BY <2>1, <2>2, <2>3, NewPipeFacts, FS_EmptySet
    DEF Counts, WaitGroupExact, PipeAlone, Outstanding
<1>3. CASE UNCHANGED vars
  BY <1>3, CountsKept DEF vars, InFlight, Counts, PipeAlone
<1> QED
  BY <1>1, <1>2, <1>3, ScannerCounts, SchedulerCounts, WorkerCounts, WorkerTailCounts,
     CleanupCounts, UsersCounts
  DEF Next

-----------------------------------------------------------------------------
(* Who is held, and how often whoever is held has been tried. *)

\* A step that holds nobody new, tries nobody and gives no held row back.
HoldsNobody ==
    /\ claim'.batch \subseteq claim.batch
    /\ \A r \in Recipients :
         /\ msg'[r] # "none" => msg[r] # "none"
         /\ msg'[r] \in {"queued", "sending"} => msg[r] \in {"queued", "sending"}
    /\ db'.fails = db.fails
    /\ used'.smtp = 0 => used.smtp = 0 /\ ReopensOnly(db, db', {})

LEMMA RowsKept ==
    ASSUME TypeOK, Rows, HoldsNobody
    PROVE  Rows'
<1>1. InFlight' \subseteq InFlight /\ InFlight \in SUBSET Recipients
  BY DEF HoldsNobody, InFlight
<1>2. claim.batch \in SUBSET Recipients
  BY DEF TypeOK, Claims
<1>3. NoOverlap' /\ RetryBound'
  BY <1>1 DEF Rows, HoldsNobody, NoOverlap, RetryBound
<1>4. HeldRows'
  BY <1>1, <1>2 DEF Rows, HoldsNobody, HeldRows, ReopensOnly
<1>5. AttemptsLeft'
  BY <1>2 DEF Rows, HoldsNobody, AttemptsLeft
<1> QED
  BY <1>3, <1>4, <1>5 DEF Rows

\* Nobody is held after the step, and nobody was tried in it.
LEMMA RowsQuiet ==
    ASSUME TypeOK, Rows, InFlight' = {}, claim'.batch = {}, db'.fails = db.fails
    PROVE  Rows'
<1>1. \A r \in Recipients : msg'[r] = "none"
  BY DEF InFlight
<1> QED
  BY <1>1 DEF Rows, NoOverlap, RetryBound, HeldRows, AttemptsLeft

\* One recipient, held by a message or by a batch but not by both, is tried and fails;
\* it is held no longer, or by a message that only has to be released.
LEMMA RowsTried ==
    ASSUME TypeOK, Rows, NEW r \in Recipients,
           r \in claim.batch \/ msg[r] = "sending",
           claim'.batch = claim.batch \ {r},
           msg'[r] \in {"none", "failed"}, msg'[r] = "failed" => msg[r] # "none",
           \A q \in Recipients \ {r} : msg'[q] = msg[q],
           db'.fails = [db.fails EXCEPT ![r] = @ + 1],
           used'.smtp = used.smtp,
           ReopensOnly(db, db', {}) \/ (ReopensOnly(db, db', {r}) /\ msg'[r] = "none")
    PROVE  Rows'
<1>1. /\ db.fails \in [Recipients -> Nat] /\ claim.batch \in SUBSET Recipients
      /\ MaxRetries \in Nat
  BY StoreAssumption DEF TypeOK, DB, Claims, StoreAssumption
<1>2. db.fails[r] <= MaxRetries
  BY DEF Rows, AttemptsLeft
<1>3. InFlight' \subseteq InFlight /\ (r \in InFlight' => msg'[r] = "failed")
  BY DEF InFlight
<1>4. NoOverlap'
  BY <1>3 DEF Rows, NoOverlap
<1>5. RetryBound'
  BY <1>1, <1>2 DEF Rows, RetryBound
<1>6. HeldRows'
  BY <1>1, <1>3 DEF Rows, HeldRows, ReopensOnly, InFlight
<1>7. AttemptsLeft'
  BY <1>1 DEF Rows, AttemptsLeft
<1> QED
  BY <1>4, <1>5, <1>6, <1>7 DEF Rows

LEMMA SpendSmtp ==
    ASSUME TypeOK
    PROVE  /\ \A what \in {"day", "ops", "unsubs", "removals", "faults", "crashes"} :
                Spend(what) => used'.smtp = used.smtp
           /\ Spend("smtp") => used'.smtp > 0
BY DEF TypeOK, Spend, Uses

LEMMA ScannerRows ==
    ASSUME TypeOK, Counts, Rows, Scanner
    PROVE  Rows'
<1>1. CASE ScanSelect
  BY <1>1, Unwritten, RowsKept DEF ScanSelect, HoldsNobody, Settling
<1>2. CASE ~ScanSelect
  <2>1. scan.at # "idle" /\ msg' = msg /\ claim' = claim
    BY <1>2 DEF Scanner, ScanClaim, ScanReplyInvalid, ScanReset, ScanSync, ScanFinish,
                ScanStart, ScanStartFull, ScanStartFails
  <2>2. \/ db' = db \/ db' = SetRunning(db) \/ db' = ForceFinished(db)
        \/ db' = StartFailure(db, scan.from)
        \/ db' = ExhaustRetries(ResetPrivateQueued(db))
    BY <1>2 DEF Scanner, ScanClaim, ScanReplyInvalid, ScanReset, ScanSync, ScanFinish,
                ScanStart, ScanStartFull, ScanStartFails
  <2>3. db'.fails = db.fails
    BY <2>2, StatusFacts, StartFailureFacts, ResetPrivateQueuedFacts, ExhaustRetriesFacts
    DEF TypeOK, Settling
  <2> QED
    BY <2>1, <2>3, Quiet, RowsQuiet DEF InFlight
<1> QED
  BY <1>1, <1>2

LEMMA SchedulerRows ==
    ASSUME TypeOK, Counts, Rows, Halted, Scheduler
    PROVE  Rows'
<1>1. claim.batch \in SUBSET Recipients /\ claim.n \in Nat /\ db \in DB
  BY DEF TypeOK, Claims
<1>2. ASSUME db' = db, msg' = msg, claim' = NoClaim \/ claim'.batch = {}, used'.smtp = used.smtp
      PROVE  Rows'
  BY <1>2, Unwritten, RowsKept DEF HoldsNobody, Settling, NoClaim
<1>3. CASE SchedStopped
  BY <1>2, <1>3 DEF SchedStopped, ReleaseSched
<1>4. CASE SchedRead
  <2>1. claim' = NoClaim \/ claim'.batch = {}
    BY <1>4 DEF SchedRead, ReleaseSched
  <2> QED
    BY <1>2, <1>4, <2>1 DEF SchedRead
<1>5. CASE SchedClaim
  <2>1. PICK batch \in SUBSET Recipients :
          /\ IsClaim(db, claim.n, batch)
          /\ db' = Claim(db, batch)
          /\ claim'.batch = batch
    <3>1. PICK batch \in SUBSET Recipients :
            /\ IsClaim(db, claim.n, batch)
            /\ db' = Claim(db, batch)
            /\ batch # {} => claim' = [claim EXCEPT !.batch = batch]
            /\ batch = {} => claim' = NoClaim
      BY <1>5 DEF SchedClaim, ReleaseSched
    <3>2. claim'.batch = batch
      BY <3>1 DEF TypeOK, Claims, NoClaim
    <3> QED
      BY <3>1, <3>2
  <2>2. /\ batch \in SUBSET In(db, Waiting)
        /\ batch # {} => db.status = "running"
        /\ \A r \in batch : db.fails[r] <= MaxRetries
    BY <1>1, <2>1, IsClaimFacts
  <2>3. /\ ReopensOnly(db, db', {}) /\ db'.fails = db.fails
        /\ \A r \in batch : db'.rcpt[r] = "queued"
    BY <1>1, <2>1, <2>2, ClaimFacts
  <2>4. used' = used /\ msg' = msg /\ claim.batch = {} /\ InFlight' = InFlight
    BY <1>5 DEF SchedClaim, Counts, PipeAlone, InFlight
  <2>5. batch # {} => used.smtp = 0
    BY <2>2 DEF Halted, TypeOK, Uses
  <2>6. batch \cap InFlight = {}
    BY <2>2, <2>5 DEF Rows, HeldRows, In
  <2>7. NoOverlap' /\ RetryBound'
    BY <2>1, <2>3, <2>4, <2>6 DEF Rows, NoOverlap, RetryBound
  <2>8. HeldRows'
    BY <2>1, <2>3, <2>4 DEF Rows, HeldRows, ReopensOnly, InFlight, Waiting
  <2>9. AttemptsLeft'
    BY <2>1, <2>2, <2>3, <2>4 DEF Rows, AttemptsLeft
  <2> QED
    BY <2>7, <2>8, <2>9 DEF Rows
<1>6. CASE SchedFails
  <2>1. db' = db \/ \E batch \in SUBSET Recipients :
                      IsClaim(db, claim.n, batch) /\ db' = Claim(db, batch \cap Private)
    BY <1>6 DEF SchedFails
  <2>2. ASSUME NEW batch \in SUBSET Recipients, IsClaim(db, claim.n, batch)
        PROVE  batch \cap Private \in SUBSET In(db, Waiting)
    BY <1>1, <2>2, IsClaimFacts
  <2>3. ReopensOnly(db, db', {}) /\ db'.fails = db.fails
    BY <1>1, <2>1, <2>2, ClaimFacts, Unwritten DEF Settling
  <2>4. claim'.batch = {} /\ msg' = msg /\ used'.smtp = used.smtp
    BY <1>6, SpendSmtp DEF SchedFails, ReleaseSched, NoClaim
  <2> QED
    BY <2>3, <2>4, RowsKept DEF HoldsNobody
<1>7. CASE SchedNoSender
  BY <1>2, <1>7, SpendSmtp DEF SchedNoSender, ReleaseSched
<1>8. CASE SchedDefer
  <2>1. db' = db \/ db' = Defer(db, used.day + 1)
    BY <1>8 DEF SchedDefer
  <2>2. ReopensOnly(db, db', {}) /\ db'.fails = db.fails
    <3>1. used.day + 1 \in Nat
      BY DEF TypeOK, Uses
    <3> QED
      BY <1>1, <2>1, <3>1, DeferFacts, Unwritten DEF Settling
  <2>3. claim'.batch = {} /\ msg' = msg /\ used' = used
    <3>1. claim' = NoClaim
      BY <1>8, Zenon DEF SchedDefer, ReleaseSched
    <3> QED
      BY <1>8, <3>1 DEF SchedDefer, NoClaim
  <2> QED
    BY <2>2, <2>3, RowsKept DEF HoldsNobody
<1>9. CASE SchedDeferFails
  BY <1>2, <1>9, SpendSmtp DEF SchedDeferFails, ReleaseSched
<1>10. CASE SchedPush
  <2>1. PICK r \in claim.batch :
          /\ msg' = [msg EXCEPT ![r] = "queued"]
          /\ claim' = [claim EXCEPT !.batch = @ \ {r}]
    BY <1>10 DEF SchedPush
  <2>2. db' = db /\ used' = used /\ claim'.batch = claim.batch \ {r} /\ r \in Recipients
    BY <1>1, <1>10, <2>1 DEF SchedPush, TypeOK, Claims
  <2>3. InFlight' = InFlight \cup {r}
    BY <2>1, <2>2 DEF TypeOK, InFlight
  <2>4. NoOverlap' /\ RetryBound'
    BY <2>2, <2>3 DEF Rows, NoOverlap, RetryBound
  <2>5. HeldRows'
    BY <2>1, <2>2, <2>3 DEF Rows, HeldRows
  <2>6. AttemptsLeft'
    BY <2>1, <2>2 DEF Rows, AttemptsLeft, TypeOK
  <2> QED
    BY <2>4, <2>5, <2>6 DEF Rows
<1>11. CASE SchedRenderFails
  <2>1. PICK r \in claim.batch, recorded \in BOOLEAN, released \in BOOLEAN :
          /\ LET failed == IF recorded THEN RecordFailure(db, r) ELSE db
             IN  db' = IF released THEN MarkPending(failed, r) ELSE failed
          /\ claim' = [claim EXCEPT !.batch = @ \ {r}]
    BY <1>11 DEF SchedRenderFails
  <2> DEFINE failed == IF recorded THEN RecordFailure(db, r) ELSE db
  <2>2. r \in Recipients /\ msg[r] = "none"
    BY <1>1 DEF Rows, NoOverlap, InFlight
  <2>3. /\ failed \in DB /\ ReopensOnly(db, failed, {})
        /\ IF recorded THEN failed.fails = [db.fails EXCEPT ![r] = @ + 1]
                       ELSE failed.fails = db.fails
    BY <1>1, <2>2, RecordFailureFacts, SameRows DEF Settling
  <2>4. db' = IF released THEN MarkPending(failed, r) ELSE failed
    BY <2>1
  <2>5. msg' = msg /\ used'.smtp = used.smtp /\ claim'.batch = claim.batch \ {r}
    BY <1>11, <2>1, SpendSmtp DEF SchedRenderFails, TypeOK, Claims
  <2> HIDE DEF failed
  <2>6. /\ ReopensOnly(db, db', {r})
        /\ db'.fails = failed.fails
    BY <2>2, <2>3, <2>4, MarkPendingFacts DEF ReopensOnly, Settling
  <2>7. CASE recorded
    BY <2>2, <2>3, <2>5, <2>6, <2>7, RowsTried
  <2>8. CASE ~recorded
    <3>1. InFlight' = InFlight /\ r \notin InFlight
      BY <2>2, <2>5 DEF InFlight
    <3>2. db'.fails = db.fails
      BY <2>3, <2>6, <2>8
    <3>3. NoOverlap' /\ RetryBound'
      BY <2>5, <3>1, <3>2 DEF Rows, NoOverlap, RetryBound
    <3>4. HeldRows'
      BY <1>1, <2>5, <2>6, <3>1 DEF Rows, HeldRows, ReopensOnly, InFlight
    <3>5. AttemptsLeft'
      BY <2>5, <3>2 DEF Rows, AttemptsLeft
    <3> QED
      BY <3>3, <3>4, <3>5 DEF Rows
  <2> QED
    BY <2>7, <2>8
<1>12. CASE SchedAbandon
  BY <1>2, <1>12 DEF SchedAbandon, ReleaseSched
<1>13. CASE SchedRequeue
  BY <1>2, <1>13 DEF SchedRequeue
<1>14. CASE SchedRequeueFull
  BY <1>2, <1>14, SpendSmtp DEF SchedRequeueFull, ReleaseSched
<1>15. CASE SchedWake
  BY <1>2, <1>15 DEF SchedWake, Counts, PipeAlone
<1>16. CASE SchedStopWaiting
  BY <1>2, <1>16 DEF SchedStopWaiting, ReleaseSched
<1> QED
  BY <1>3, <1>4, <1>5, <1>6, <1>7, <1>8, <1>9, <1>10, <1>11, <1>12, <1>13, <1>14, <1>15,
     <1>16
  DEF Scheduler

LEMMA WorkerRows ==
    ASSUME TypeOK, Rows, NEW r \in Recipients, Worker(r)
    PROVE  Rows'
<1>1. db \in DB /\ msg \in [Recipients -> Msgs]
  BY DEF TypeOK
<1>2. ASSUME NEW m \in {"none", "sending", "accepted", "failed", "quota"},
             m = "sending" => msg[r] \in {"queued", "sending"}, msg[r] # "none",
             msg' = [msg EXCEPT ![r] = m], claim' = claim, used'.smtp = used.smtp,
             ReopensOnly(db, db', {}), db'.fails = db.fails
      PROVE  Rows'
  BY <1>1, <1>2, RowsKept DEF HoldsNobody
<1>3. ASSUME msg[r] = "sending", NEW m \in {"none", "failed"},
             msg' = [msg EXCEPT ![r] = m], claim' = claim, used'.smtp = used.smtp,
             db' = RecordFailure(db, r)
      PROVE  Rows'
  <2>1. r \notin claim.batch
    BY <1>3 DEF Rows, NoOverlap, InFlight
  <2>2. ReopensOnly(db, db', {}) /\ db'.fails = [db.fails EXCEPT ![r] = @ + 1]
    BY <1>1, <1>3, RecordFailureFacts
  <2>3. claim'.batch = claim.batch \ {r} /\ msg'[r] = m
        /\ \A q \in Recipients \ {r} : msg'[q] = msg[q]
    BY <1>1, <1>3, <2>1 DEF TypeOK, Claims
  <2> QED
    BY <1>3, <2>2, <2>3, RowsTried
<1>4. ASSUME db' = db PROVE ReopensOnly(db, db', {}) /\ db'.fails = db.fails
  BY <1>4, Unwritten DEF Settling
<1>5. CASE WorkerTake(r)
  <2>1. CASE pipe.stopped
    BY <1>2, <1>4, <1>5, <2>1 DEF WorkerTake
  <2>2. CASE ~pipe.stopped
    BY <1>2, <1>4, <1>5, <2>2 DEF WorkerTake
  <2> QED
    BY <2>1, <2>2
<1>6. CASE WorkerAccepted(r)
  BY <1>2, <1>4, <1>6 DEF WorkerAccepted
<1>7. CASE WorkerSent(r)
  BY <1>1, <1>2, <1>7, MarkSentFacts DEF WorkerSent, Settling
<1>8. CASE WorkerSentFails(r)
  BY <1>2, <1>4, <1>8, SpendSmtp DEF WorkerSentFails
<1>9. CASE WorkerFailed(r)
  BY <1>3, <1>9 DEF WorkerFailed
<1>10. CASE WorkerFailedUnrecorded(r)
  BY <1>2, <1>4, <1>10, SpendSmtp DEF WorkerFailedUnrecorded
<1>11. CASE WorkerBlocked(r)
  BY <1>3, <1>11, SpendSmtp DEF WorkerBlocked, NoSenderOrFault
<1>12. CASE WorkerCancelled(r)
  BY <1>2, <1>4, <1>12 DEF WorkerCancelled
<1>13. CASE WorkerRelease(r)
  <2>1. ReopensOnly(db, db', {r}) /\ db'.fails = db.fails
    BY <1>1, <1>13, MarkPendingFacts DEF WorkerRelease, Settling
  <2>2. r \notin claim.batch /\ claim' = claim /\ used' = used /\ msg[r] = "failed"
        /\ msg' = [msg EXCEPT ![r] = "none"]
    BY <1>13 DEF WorkerRelease, Rows, NoOverlap, InFlight
  <2>3. InFlight' = InFlight \ {r}
    BY <1>1, <2>2 DEF InFlight
  <2>4. NoOverlap' /\ RetryBound'
    BY <2>1, <2>2, <2>3 DEF Rows, NoOverlap, RetryBound
  <2>5. HeldRows'
    BY <2>1, <2>2, <2>3 DEF Rows, HeldRows, ReopensOnly, InFlight, TypeOK, Claims
  <2>6. AttemptsLeft'
    BY <1>1, <2>1, <2>2 DEF Rows, AttemptsLeft
  <2> QED
    BY <2>4, <2>5, <2>6 DEF Rows
<1>14. CASE WorkerReleaseFails(r)
  BY <1>2, <1>4, <1>14, SpendSmtp DEF WorkerReleaseFails
<1>15. CASE WorkerQuota(r)
  BY <1>2, <1>4, <1>15 DEF WorkerQuota
<1>16. CASE WorkerDefer(r)
  <2>1. db' = db \/ db' = Defer(db, used.day + 1)
    BY <1>16 DEF WorkerDefer
  <2>2. used.day + 1 \in Nat
    BY DEF TypeOK, Uses
  <2>3. ReopensOnly(db, db', {}) /\ db'.fails = db.fails
    BY <1>1, <1>4, <2>1, <2>2, DeferFacts DEF Settling
  <2> QED
    BY <1>2, <1>16, <2>3 DEF WorkerDefer
<1>17. CASE WorkerDeferFails(r)
  BY <1>2, <1>4, <1>17, SpendSmtp DEF WorkerDeferFails
<1> QED
  BY <1>5, <1>6, <1>7, <1>8, <1>9, <1>10, <1>11, <1>12, <1>13, <1>14, <1>15, <1>16, <1>17
  DEF Worker

LEMMA WorkerTailRows ==
    ASSUME TypeOK, Rows, WorkerTail
    PROVE  Rows'
<1>1. /\ db' = db /\ msg' = msg /\ claim' = claim /\ used'.smtp = used.smtp
  BY SpendSmtp DEF WorkerTail, WorkerDone, WorkerError, WorkerMediaError
<1> QED
  BY <1>1, Unwritten, RowsKept DEF HoldsNobody, Settling

LEMMA CleanupRows ==
    ASSUME TypeOK, Counts, Rows, Cleanup
    PROVE  Rows'
<1>1. CASE CleanStart
  BY <1>1, Unwritten, RowsKept DEF CleanStart, HoldsNobody, Settling
<1>2. CASE ~CleanStart
  <2>1. clean # "none" /\ msg' = msg /\ claim' = claim
    BY <1>2 DEF Cleanup, CleanDecide, CleanErrors, CleanErrorsDone, CleanPause, CleanDefer,
                CleanCancel, CleanSmtp, CleanFinish, CleanFails
  <2>2. \/ db' = db \/ db' = PauseRunning(ResetQueued(db, "pending"))
        \/ db' = ResetQueued(db, "pending") \/ db' = ResetQueued(db, "deferred")
        \/ db' = CancelUnsent(db) \/ db' = StartFailure(db, "running")
        \/ db' = FinishRunning(db) \/ db' \in Halfway
    BY <1>2 DEF Cleanup, CleanDecide, CleanErrors, CleanErrorsDone, CleanPause, CleanDefer,
                CleanCancel, CleanSmtp, CleanFinish, CleanFails
  <2>3. db \in DB /\ {"pending", "deferred"} = Waiting
    BY DEF TypeOK, Waiting
  <2>4. PauseRunning(ResetQueued(db, "pending")).fails = db.fails
    BY <2>3, ResetQueuedFacts, StatusFacts DEF Settling
  <2>5. db'.fails = db.fails
    BY <2>2, <2>3, <2>4, ResetQueuedFacts, CancelUnsentFacts, StartFailureFacts, StatusFacts,
       HalfwayFacts, SMTT(30)
    DEF Settling
  <2> QED
    BY <2>1, <2>5, Quiet, RowsQuiet DEF InFlight
<1> QED
  BY <1>1, <1>2

LEMMA UsersRows ==
    ASSUME TypeOK, Rows, Users
    PROVE  Rows'
<1>1. msg' = msg /\ claim' = claim /\ db \in DB
  BY DEF Users, UserStatus, UserStop, UserRetry, Undeliverable, RemoveRecipient,
         PoolUnsubscribe, SmtpRemove, SmtpStop, TypeOK
<1>2. ASSUME db'.fails = db.fails,
             used'.smtp > 0 \/ (used'.smtp = used.smtp /\ ReopensOnly(db, db', {}))
      PROVE  Rows'
  BY <1>1, <1>2, RowsKept DEF HoldsNobody
<1>3. CASE \E to \in CampaignStatuses : UserStatus(to)
  BY <1>1, <1>2, <1>3, ManualStatusFacts, SpendSmtp DEF UserStatus, Settling
<1>4. CASE UserStop
  BY <1>2, <1>4, Unwritten DEF UserStop, Settling
<1>5. CASE UserRetry
  BY <1>1, <1>2, <1>5, RetrySelectedFacts, SameRows, SpendSmtp DEF UserRetry
<1>6. CASE Undeliverable
  <2>1. db'.rcpt = db.rcpt /\ db'.fails = db.fails
    BY <1>1, <1>6 DEF Undeliverable, DB
  <2> QED
    BY <1>2, <1>6, <2>1, SameRows, SpendSmtp DEF Undeliverable
<1>7. CASE RemoveRecipient
  BY <1>1, <1>2, <1>7, RemoveFacts, SameRows, SpendSmtp DEF RemoveRecipient, DB
<1>8. CASE PoolUnsubscribe
  BY <1>1, <1>2, <1>8, UnsubscribePoolFacts, SpendSmtp DEF PoolUnsubscribe, Settling, Recipients
<1>9. CASE SmtpRemove
  BY <1>1, <1>2, <1>9, PauseForSMTPFacts, SpendSmtp DEF SmtpRemove, Settling
<1>10. CASE SmtpStop
  BY <1>2, <1>10, Unwritten DEF SmtpStop, Settling
<1> QED
  BY <1>3, <1>4, <1>5, <1>6, <1>7, <1>8, <1>9, <1>10 DEF Users

LEMMA NextRows ==
    ASSUME TypeOK, Counts, Rows, Halted, [Next]_vars
    PROVE  Rows'
<1>1. CASE NextDay
  BY <1>1, NextDayWrites, SameRows, RowsKept
  DEF NextDay, HoldsNobody, BackgroundWrites
<1>2. CASE Crash
  BY <1>2, RowsQuiet DEF Crash, NoMsgs, NoClaim, InFlight
<1>3. CASE UNCHANGED vars
  BY <1>3, Unwritten, RowsKept DEF vars, HoldsNobody, Settling
<1> QED
  BY <1>1, <1>2, <1>3, ScannerRows, SchedulerRows, WorkerRows, WorkerTailRows, CleanupRows,
     UsersRows
  DEF Next

-----------------------------------------------------------------------------
(* Halted campaigns. *)

LEMMA NextHalted ==
    ASSUME TypeOK, Halted, [Next]_vars
    PROVE  Halted'
<1>1. ASSUME BackgroundWrites PROVE Halted'
  BY <1>1 DEF BackgroundWrites, BackgroundStep, Halted
<1>2. CASE Users
  <2>1. MaxSmtpRemovals \in Nat /\ MaxUserOps \in Nat
        /\ (MaxSmtpRemovals = 0 \/ MaxUserOps = 0)
    BY SenderAssumption, OneMessageAssumption DEF SenderAssumption, OneMessageAssumption
  <2>2. used.smtp \in Nat /\ used.ops \in Nat /\ db \in DB
    BY DEF TypeOK, Uses
  <2>3. OpLeft => used.smtp = 0
    BY <2>1, <2>2 DEF OpLeft, Halted
  <2>4. CASE \E to \in CampaignStatuses : UserStatus(to)
    BY <2>2, <2>3, <2>4, ManualStatusFacts, SpendByUser DEF UserStatus, StatusLockFree, Halted
  <2>5. CASE UserStop \/ SmtpStop
    BY <2>5 DEF UserStop, SmtpStop, Halted
  <2>6. CASE UserRetry
    BY <2>2, <2>3, <2>6, SpendByUser DEF UserRetry, StatusLockFree, Halted
  <2>7. CASE Undeliverable
    <3>1. db'.status = db.status
      BY <2>2, <2>7 DEF Undeliverable, DB
    <3> QED
      BY <2>7, <3>1, SpendByUser DEF Undeliverable, Halted
  <2>8. CASE RemoveRecipient
    BY <2>2, <2>8, RemoveFacts, SpendSmtp DEF RemoveRecipient, DB, Halted
  <2>9. CASE PoolUnsubscribe
    BY <2>2, <2>9, UnsubscribePoolFacts, SpendSmtp DEF PoolUnsubscribe, Recipients, Halted
  <2>10. CASE SmtpRemove
    BY <2>1, <2>2, <2>10, PauseForSMTPFacts, SpendByUser DEF SmtpRemove, Halted, Active
  <2> QED
    BY <1>2, <2>4, <2>5, <2>6, <2>7, <2>8, <2>9, <2>10 DEF Users
<1>3. CASE Crash
  BY <1>3, SpendSmtp DEF Crash, Halted
<1>4. CASE UNCHANGED vars
  BY <1>4 DEF vars, Halted
<1> QED
  BY <1>1, <1>2, <1>3, <1>4, ScannerWrites, SchedulerWrites, WorkerWrites, WorkerTailWrites,
     CleanupWrites, NextDayWrites
  DEF Next

-----------------------------------------------------------------------------
(* The invariant. *)

LEMMA CoreInit ==
    ASSUME Init
    PROVE  Core
<1>1. TypeOK
  BY TypeInit
<1>2. InFlight = {} /\ claim.batch = {}
  BY DEF Init, InFlight, NoMsgs, NoClaim
<1>3. /\ sched = "none" /\ clean = "none" /\ scan.at = "idle" /\ user = "idle" /\ smtp = "idle"
      /\ tail.ok = 0 /\ tail.error = 0 /\ ~pipe.live /\ pipe.wg = 0 /\ used.smtp = 0
  BY DEF Init, NoTail, NoPipe, UnusedPipe
<1>4. \A r \in Recipients : db.fails[r] = 0 /\ msg[r] = "none"
  BY DEF Init, NoMsgs
<1>5. WaitGroupExact /\ PipeAlone
  BY <1>2, <1>3, FS_EmptySet DEF WaitGroupExact, PipeAlone, Outstanding
<1>6. NoOverlap /\ RetryBound /\ HeldRows /\ AttemptsLeft
  BY <1>2, <1>4, StoreAssumption DEF NoOverlap, RetryBound, HeldRows, AttemptsLeft, StoreAssumption
<1>7. Halted
  BY <1>3, SenderAssumption DEF Halted, SenderAssumption
<1> QED
  BY <1>1, <1>5, <1>6, <1>7 DEF Core

LEMMA CoreStep ==
    ASSUME Core, [Next]_vars
    PROVE  Core'
<1>1. TypeOK /\ Counts /\ Rows /\ Halted
  BY DEF Core, Counts, Rows
<1>2. TypeOK'
  BY <1>1, TypeStep
<1>3. Counts'
  BY <1>1, NextCounts DEF Rows
<1>4. Rows'
  BY <1>1, NextRows
<1>5. Halted'
  BY <1>1, NextHalted
<1> QED
  BY <1>2, <1>3, <1>4, <1>5 DEF Core, Counts, Rows

\* The inductive invariant: the wait group counts every reference, and whoever is
\* claimed or on the way can neither be claimed again nor run out of attempts.
THEOREM CoreCorrect == Spec => []Core
BY CoreInit, CoreStep, PTL DEF Spec

\* The wait group of a pipe counts its scheduler reference and its messages exactly
\* (pipe.newMessage, messageDone, Run, waitForProgress), and cleanup begins only
\* when nobody is left.
THEOREM WaitGroupCorrect == Spec => []WaitGroupExact
<1>1. Core => WaitGroupExact
  BY DEF Core
<1> QED
  BY <1>1, CoreCorrect, PTL

\* Nobody is claimed while an earlier claim of the same recipient is on its way
\* (NextCustomers against the workers, cleanup and the reset of NextCampaigns).
THEOREM NoOverlapCorrect == Spec => []NoOverlap
<1>1. Core => NoOverlap
  BY DEF Core
<1> QED
  BY <1>1, CoreCorrect, PTL

\* No recipient fails more often than the first delivery and MaxRetries retries
\* allow, through pauses, crashes and targeted retries (RecordCampaignFailure).
THEOREM RetryBoundCorrect == Spec => []RetryBound
<1>1. Core => RetryBound
  BY DEF Core
<1> QED
  BY <1>1, CoreCorrect, PTL

\* Between a manual status change and its stop signal nobody is claimed
\* (WithCampaignStatusChange, pauseUserRunningCampaigns).
THEOREM OneStopCorrect == Spec => OneStopOperation
<1>1. Core /\ [Next]_vars =>
        [user # "idle" \/ smtp # "idle" => In(db', {"queued"}) \subseteq In(db, {"queued"})]_vars
  <2> SUFFICES ASSUME Core, [Next]_vars, user # "idle" \/ smtp # "idle"
               PROVE  In(db', {"queued"}) \subseteq In(db, {"queued"})
    OBVIOUS
  <2>1. TypeOK /\ Halted
    BY DEF Core
  <2>2. db.status # "running"
    BY <2>1 DEF Halted, TypeOK
  <2> QED
    BY <2>1, <2>2, NextWrites DEF ClaimsNobody, In
<1> QED
  BY <1>1, CoreCorrect, PTL DEF Spec, OneStopOperation

-----------------------------------------------------------------------------
(* Pipes. *)

\* What scheduler and workers make of a pipe: they may stop it for the reasons whys, and
\* the first stop stands.
Later(p, q, whys) ==
    /\ q.live = p.live /\ q.manual = p.manual
    /\ p.deferred => q.deferred
    /\ p.early => q.early
    /\ p.stopped => q.stopped /\ q.reason = p.reason /\ q.withErrors = p.withErrors
    /\ ~q.stopped => q.withErrors = p.withErrors
    /\ q.reason \in {p.reason} \cup whys

Automatic == {"pause", "deferred", "smtp"}

LEMMA LaterStop ==
    ASSUME NEW p \in Pipe, NEW q \in Pipe, NEW whys \in SUBSET Automatic, Later(p, q, whys),
           NEW why \in whys, NEW withErrors \in BOOLEAN
    PROVE  LET s == Stop(q, why, withErrors)
           IN  s \in Pipe /\ Later(p, s, whys) /\ s.stopped
BY DEF Later, Stop, Pipe, PipeRecord, Reasons, Automatic

LEMMA LaterDone ==
    ASSUME NEW p \in Pipe, NEW q \in Pipe, NEW whys \in SUBSET Automatic, Later(p, q, whys)
    PROVE  /\ LET d == Done(q) IN d \in Pipe /\ Later(p, d, whys)
           /\ LET d == MessageDone(q) IN d \in Pipe /\ Later(p, d, whys) /\ d.progress
<1>1. Done(q) \in Pipe /\ Later(p, Done(q), whys)
  BY DEF Later, Done, Pipe, PipeRecord
<1>2. ASSUME NEW e \in Pipe, Later(p, e, whys)
      PROVE  LET d == [e EXCEPT !.progress = TRUE]
             IN  d \in Pipe /\ Later(p, d, whys) /\ d.progress
  BY <1>2 DEF Later, Pipe, PipeRecord
<1> QED
  BY <1>1, <1>2 DEF MessageDone

LEMMA LaterError ==
    ASSUME NEW p \in Pipe, NEW q \in Pipe, NEW whys \in SUBSET Automatic, Later(p, q, whys),
           "pause" \in whys
    PROVE  LET e == OnError(q)
           IN  e \in Pipe /\ Later(p, e, whys)
<1> DEFINE c == [q EXCEPT !.errors = @ + 1]
<1>1. c \in Pipe /\ Later(p, c, whys)
  BY DEF Later, Pipe, PipeRecord
<1>2. OnError(q) = c \/ OnError(q) = Stop(c, "pause", TRUE)
  BY DEF OnError
<1> HIDE DEF c
<1> QED
  BY <1>1, <1>2, LaterStop

LEMMA LaterSame ==
    ASSUME NEW p \in Pipe, NEW whys
    PROVE  Later(p, p, whys)
BY DEF Later

\* How scheduler and workers change the pipe of the campaign.
PipeStep ==
    /\ Later(pipe, pipe', Automatic)
    /\ pipe'.reason = "smtp" => pipe.reason = "smtp" \/ used'.faults > 0 \/ used.smtp > 0

LEMMA LaterNotRunning ==
    ASSUME NEW p \in Pipe, NEW whys
    PROVE  NotRunning(p) \in Pipe /\ Later(p, NotRunning(p), whys)
BY NotRunningFacts DEF Later

LEMMA LaterEarly ==
    ASSUME NEW p \in Pipe, NEW whys
    PROVE  LET q == [p EXCEPT !.early = TRUE] IN q \in Pipe /\ Later(p, q, whys)
BY DEF Later, Pipe, PipeRecord

LEMMA PipeStepAuto ==
    ASSUME Later(pipe, pipe', {"pause", "deferred"})
    PROVE  PipeStep
BY DEF Later, PipeStep, Automatic

LEMMA SpendFault ==
    ASSUME TypeOK, Spend("faults")
    PROVE  used'.faults > 0 /\ used'.faults = used.faults + 1
BY DEF TypeOK, Spend, Uses

LEMMA SchedulerPipe ==
    ASSUME TypeOK, Scheduler
    PROVE  PipeStep
<1> DEFINE auto == {"pause", "deferred"}
<1>1. pipe \in Pipe /\ auto \in SUBSET Automatic /\ Automatic \in SUBSET Automatic
      /\ Later(pipe, pipe, auto) /\ Later(pipe, pipe, Automatic)
      /\ "pause" \in auto /\ "deferred" \in auto /\ "smtp" \in Automatic
  BY LaterSame DEF TypeOK, Automatic
<1> HIDE DEF auto
<1>2. ASSUME Later(pipe, pipe', auto) PROVE PipeStep
  BY <1>2, PipeStepAuto DEF auto
<1>3. ASSUME NEW p \in Pipe, Later(pipe, p, auto), ReleaseSched(p) PROVE PipeStep
  BY <1>1, <1>2, <1>3, LaterDone DEF ReleaseSched
<1>4. ASSUME NEW b \in BOOLEAN, ReleaseSched(Stop(pipe, "pause", b)) PROVE PipeStep
  BY <1>1, <1>3, <1>4, LaterStop
<1>5. CASE SchedStopped \/ SchedDeferFails \/ SchedAbandon \/ SchedStopWaiting
  BY <1>1, <1>3, <1>5, LaterEarly DEF SchedStopped, SchedDeferFails, SchedAbandon, SchedStopWaiting
<1>6. CASE SchedRead
  BY <1>1, <1>2, <1>3, <1>6, LaterNotRunning DEF SchedRead
<1>7. CASE SchedClaim
  BY <1>1, <1>2, <1>3, <1>7, LaterNotRunning DEF SchedClaim
<1>8. CASE SchedFails \/ SchedRequeueFull
  BY <1>4, <1>8 DEF SchedFails, SchedRequeueFull
<1>9. CASE SchedNoSender
  <2>1. used'.faults > 0
    BY <1>9, SpendFault DEF SchedNoSender
  <2>2. Later(pipe, pipe', Automatic)
    BY <1>1, <1>9, LaterStop, LaterDone DEF SchedNoSender, ReleaseSched
  <2> QED
    BY <2>1, <2>2 DEF PipeStep
<1>10. CASE SchedDefer
  <2>1. LET p == [pipe EXCEPT !.deferred = TRUE] IN p \in Pipe /\ Later(pipe, p, auto)
    BY <1>1 DEF Later, Pipe, PipeRecord
  <2> QED
    BY <1>3, <1>4, <1>10, <2>1 DEF SchedDefer
<1>11. CASE SchedPush
  <2>1. pipe' = [pipe EXCEPT !.wg = @ + 1]
    BY <1>11 DEF SchedPush
  <2> QED
    BY <1>1, <1>2, <2>1 DEF Later, Pipe, PipeRecord
<1>12. CASE SchedRenderFails
  <2>1. pipe' = OnError(pipe) \/ pipe' = OnError(Stop(pipe, "pause", TRUE))
    BY <1>12 DEF SchedRenderFails
  <2>2. LET p == Stop(pipe, "pause", TRUE) IN p \in Pipe /\ Later(pipe, p, auto)
    BY <1>1, LaterStop
  <2> QED
    BY <1>1, <1>2, <2>1, <2>2, LaterError
<1>13. CASE SchedRequeue
  BY <1>1, <1>2, <1>13 DEF SchedRequeue
<1>14. CASE SchedWake
  <2>1. pipe' = [pipe EXCEPT !.progress = FALSE]
    BY <1>14 DEF SchedWake
  <2> QED
    BY <1>1, <1>2, <2>1 DEF Later, Pipe, PipeRecord
<1> QED
  BY <1>5, <1>6, <1>7, <1>8, <1>9, <1>10, <1>11, <1>12, <1>13, <1>14 DEF Scheduler

\* A worker either leaves its message on the way or reports it.
LEMMA WorkerPipe ==
    ASSUME TypeOK, NEW r \in Recipients, Worker(r)
    PROVE  PipeStep /\ (msg'[r] # "none" \/ pipe'.progress \/ tail'.ok + tail'.error > 0)
<1> DEFINE auto == {"pause", "deferred"}
<1>1. pipe \in Pipe /\ auto \in SUBSET Automatic /\ Automatic \in SUBSET Automatic
      /\ Later(pipe, pipe, auto) /\ Later(pipe, pipe, Automatic)
      /\ "pause" \in auto /\ "deferred" \in auto /\ "smtp" \in Automatic /\ "pause" \in Automatic
  BY LaterSame DEF TypeOK, Automatic
<1> HIDE DEF auto
<1>2. ASSUME Later(pipe, pipe', auto) PROVE PipeStep
  BY <1>2, PipeStepAuto DEF auto
<1>3. ASSUME NEW p \in Pipe, Later(pipe, p, auto), pipe' = MessageDone(p)
      PROVE  PipeStep /\ pipe'.progress
  BY <1>1, <1>2, <1>3, LaterDone
<1>4. \A why \in auto, b \in BOOLEAN :
        Stop(pipe, why, b) \in Pipe /\ Later(pipe, Stop(pipe, why, b), auto)
  BY <1>1, LaterStop
<1>5. CASE WorkerTake(r)
  BY <1>1, <1>2, <1>3, <1>5 DEF WorkerTake, TypeOK
<1>6. CASE WorkerAccepted(r) \/ WorkerFailed(r) \/ WorkerQuota(r)
  BY <1>1, <1>2, <1>6 DEF WorkerAccepted, WorkerFailed, WorkerQuota, TypeOK
<1>7. CASE WorkerSent(r) \/ WorkerRelease(r)
  <2>1. pipe' = pipe /\ tail'.ok + tail'.error > 0
    BY <1>7 DEF WorkerSent, WorkerRelease, TypeOK, Tails
  <2> QED
    BY <1>1, <1>2, <2>1
<1>8. CASE WorkerSentFails(r)
  BY <1>1, <1>3, <1>4, <1>8 DEF WorkerSentFails
<1>9. CASE WorkerFailedUnrecorded(r)
  BY <1>1, <1>2, <1>4, <1>9 DEF WorkerFailedUnrecorded, TypeOK
<1>10. CASE WorkerBlocked(r)
  <2>1. used'.faults > 0 \/ used.smtp > 0
    BY <1>10, SpendFault DEF WorkerBlocked, NoSenderOrFault
  <2>2. \A why \in {"pause", "smtp"} :
          LET s == Stop(pipe, why, FALSE) IN s \in Pipe /\ Later(pipe, s, Automatic)
    BY <1>1, LaterStop
  <2>3. Later(pipe, pipe', Automatic) /\ pipe'.progress
    BY <1>1, <1>10, <2>2, LaterDone DEF WorkerBlocked
  <2> QED
    BY <2>1, <2>3 DEF PipeStep
<1>11. CASE WorkerCancelled(r) \/ WorkerDeferFails(r)
  BY <1>1, <1>3, <1>11 DEF WorkerCancelled, WorkerDeferFails
<1>12. CASE WorkerReleaseFails(r)
  <2>1. LET p == OnError(Stop(pipe, "pause", TRUE)) IN p \in Pipe /\ Later(pipe, p, auto)
    BY <1>1, <1>4, LaterError
  <2> QED
    BY <1>3, <1>12, <2>1 DEF WorkerReleaseFails
<1>13. CASE WorkerDefer(r)
  <2> DEFINE d == [pipe EXCEPT !.deferred = TRUE]
  <2>1. d \in Pipe /\ Later(pipe, d, auto)
    BY <1>1 DEF Later, Pipe, PipeRecord
  <2>2. \/ pipe' = MessageDone(pipe)
        \/ \E why \in {"pause", "deferred"} : pipe' = MessageDone(Stop(pipe, why, FALSE))
        \/ pipe' = MessageDone(Stop(d, "deferred", FALSE))
    BY <1>13 DEF WorkerDefer
  <2> HIDE DEF d
  <2>3. LET p == Stop(d, "deferred", FALSE) IN p \in Pipe /\ Later(pipe, p, auto)
    BY <1>1, <2>1, LaterStop
  <2> QED
    BY <1>1, <1>3, <1>4, <2>2, <2>3 DEF auto
<1> QED
  BY <1>5, <1>6, <1>7, <1>8, <1>9, <1>10, <1>11, <1>12, <1>13 DEF Worker

LEMMA WorkerTailPipe ==
    ASSUME TypeOK, WorkerTail
    PROVE  PipeStep /\ pipe'.progress
<1> DEFINE auto == {"pause", "deferred"}
<1>1. pipe \in Pipe /\ auto \in SUBSET Automatic /\ Later(pipe, pipe, auto) /\ "pause" \in auto
  BY LaterSame DEF TypeOK, Automatic
<1> HIDE DEF auto
<1>2. ASSUME NEW p \in Pipe, Later(pipe, p, auto), pipe' = MessageDone(p)
      PROVE  PipeStep /\ pipe'.progress
  <2>1. Later(pipe, pipe', auto) /\ pipe'.progress
    BY <1>1, <1>2, LaterDone
  <2> QED
    BY <2>1, PipeStepAuto DEF auto
<1>3. LET p == OnError(pipe) IN p \in Pipe /\ Later(pipe, p, auto)
  BY <1>1, LaterError
<1>4. LET p == Stop(pipe, "pause", TRUE) IN p \in Pipe /\ Later(pipe, p, auto)
  BY <1>1, LaterStop
<1>5. \E p \in {pipe, OnError(pipe), Stop(pipe, "pause", TRUE)} : pipe' = MessageDone(p)
  BY DEF WorkerTail, WorkerDone, WorkerError, WorkerMediaError
<1> QED
  BY <1>1, <1>2, <1>3, <1>4, <1>5

-----------------------------------------------------------------------------
(* The database and the bounds. *)

\* No row becomes sent, and none stops being so.
SendsNobody(d, e) == \A r \in Recipients : e.rcpt[r] = "sent" <=> d.rcpt[r] = "sent"

LEMMA KeepsTrans ==
    ASSUME NEW c, NEW d, NEW e, Keeps(c, d), Keeps(d, e)
    PROVE  Keeps(c, e)
BY DEF Keeps, Eases, Columns, Round, Unsent

LEMMA EasesSent ==
    ASSUME NEW d, NEW e, Eases(d, e)
    PROVE  SendsNobody(d, e)
BY DEF Eases, SendsNobody, Unsent

LEMMA ScannerKeeps ==
    ASSUME TypeOK, Scanner
    PROVE  Keeps(db, db') /\ db'.fails = db.fails
<1>1. db \in DB
  BY DEF TypeOK
<1>2. Keeps(db, ExhaustRetries(ResetPrivateQueued(db)))
  <2>1. ResetPrivateQueued(db) \in DB /\ Keeps(db, ResetPrivateQueued(db))
    BY <1>1, ResetPrivateQueuedFacts, ResetKeeps
  <2> QED
    BY <2>1, ResetKeeps, KeepsTrans
<1>3. \/ db' \in {db, SetRunning(db), ForceFinished(db), StartFailure(db, scan.from)}
      \/ db' = ExhaustRetries(ResetPrivateQueued(db))
  BY DEF Scanner, ScanSelect, ScanClaim, ScanReplyInvalid, ScanReset, ScanSync, ScanFinish,
         ScanStart, ScanStartFull, ScanStartFails
<1>4. Keeps(db, db')
  BY <1>1, <1>2, <1>3, SameKeeps, StatusKeeps, HaltKeeps
<1>5. db'.fails = db.fails
  BY <1>1, <1>3, StatusFacts, StartFailureFacts, ResetPrivateQueuedFacts, ExhaustRetriesFacts
  DEF Settling
<1> QED
  BY <1>4, <1>5

\* The scheduler claims whoever is claimable in a running campaign, records who cannot be
\* rendered, and else only defers.
LEMMA SchedulerKeeps ==
    ASSUME TypeOK, Scheduler
    PROVE  \/ Keeps(db, db') /\ db'.fails = db.fails /\ ClaimsNobody(db, db')
           \/ /\ sched = "claim" /\ db.status = "running"
              /\ \E batch \in SUBSET Claimable(db) : db' = Claim(db, batch)
           \/ SchedRenderFails
<1>1. db \in DB /\ used.day + 1 \in Nat
  BY DEF TypeOK, Uses
<1>2. ASSUME db' = db \/ db' = Defer(db, used.day + 1)
      PROVE  Keeps(db, db') /\ db'.fails = db.fails /\ ClaimsNobody(db, db')
  BY <1>1, <1>2, SameKeeps, DeferKeeps, DeferFacts, Unwritten DEF Settling
<1>3. ASSUME NEW batch, IsClaim(db, claim.n, batch)
      PROVE  batch \in SUBSET Claimable(db) /\ (batch # {} => db.status = "running")
  BY <1>3 DEF IsClaim
<1>4. Claim(db, {}) = db
  BY <1>1 DEF Claim, SetRows, DB
<1>5. CASE SchedClaim
  <2>1. PICK batch \in SUBSET Recipients : IsClaim(db, claim.n, batch) /\ db' = Claim(db, batch)
    BY <1>5 DEF SchedClaim
  <2> QED
    BY <1>2, <1>3, <1>4, <1>5, <2>1 DEF SchedClaim
<1>6. CASE SchedFails
  <2>1. CASE db' = db
    BY <1>2, <2>1
  <2>2. CASE sched = "claim" /\ \E batch \in SUBSET Recipients :
               IsClaim(db, claim.n, batch) /\ db' = Claim(db, batch \cap Private)
    <3>1. PICK batch \in SUBSET Recipients :
            IsClaim(db, claim.n, batch) /\ db' = Claim(db, batch \cap Private)
      BY <2>2
    <3>2. batch \cap Private \in SUBSET Claimable(db) /\ (batch # {} => db.status = "running")
      BY <1>3, <3>1
    <3>3. batch = {} => db' = db
      BY <1>4, <3>1
    <3> QED
      BY <1>2, <2>2, <3>1, <3>2, <3>3
  <2> QED
    BY <1>6, <2>1, <2>2 DEF SchedFails
<1>7. CASE ~SchedClaim /\ ~SchedFails /\ ~SchedRenderFails
  <2>1. db' = db \/ db' = Defer(db, used.day + 1)
    BY <1>7 DEF Scheduler, SchedStopped, SchedRead, SchedNoSender, SchedDefer, SchedDeferFails,
                SchedPush, SchedAbandon, SchedRequeue, SchedRequeueFull, SchedWake,
                SchedStopWaiting
  <2> QED
    BY <1>2, <2>1
<1> QED
  BY <1>5, <1>6, <1>7

\* Cleanup gives queued rows back, cancels them or ends the round.
LEMMA CleanupKeeps ==
    ASSUME TypeOK, Cleanup
    PROVE  /\ Columns(db, db')
           /\ db'.fails = db.fails
           /\ \/ Eases(db, db')
              \/ /\ clean = "cancel" /\ Round(db, db')
                 /\ \A r \in Recipients :
                      \/ db'.rcpt[r] = db.rcpt[r]
                      \/ db.rcpt[r] \in Unsent /\ db'.rcpt[r] = "cancelled"
<1> DEFINE Done1 == Columns(db, db') /\ db'.fails = db.fails /\ Eases(db, db')
           private == SetRows(db, In(db, Unsent) \cap Private, "cancelled")
           deferred == SetRows(db, In(db, {"queued"}) \cap Private, "deferred")
<1>1. db \in DB
  BY DEF TypeOK
<1>2. CASE db' \in {CancelUnsent(db), private} /\ clean = "cancel"
  <2>1. private.fails = db.fails
    BY <1>1, SetRowsColumns
  <2> HIDE DEF private
  <2> QED
    BY <1>1, <1>2, <2>1, CancelOnly, CancelUnsentFacts DEF Settling, private
<1>3. CASE \/ db' \in {db, ResetPrivateQueued(db), deferred, StartFailure(db, "running"),
                       FinishRunning(db)}
           \/ db' \in {ResetQueued(db, "pending"), ResetQueued(db, "deferred")}
  <2>1. deferred.fails = db.fails
    BY <1>1, SetRowsColumns
  <2>2. db'.fails = db.fails
    <3> HIDE DEF deferred
    <3> QED
      BY <1>1, <1>3, <2>1, ResetPrivateQueuedFacts, ResetQueuedFacts, StartFailureFacts, StatusFacts
      DEF Settling, Waiting
  <2>3. Columns(db, db') /\ Eases(db, db')
    BY <1>1, <1>3, ResetKeeps, HaltKeeps, StatusKeeps, SameKeeps DEF Keeps, Waiting
  <2> QED
    BY <2>2, <2>3
<1>4. CASE db' = PauseRunning(ResetQueued(db, "pending"))
  <2> DEFINE s == ResetQueued(db, "pending")
  <2>1. s \in DB /\ Keeps(db, s) /\ s.fails = db.fails
    BY <1>1, ResetKeeps, ResetQueuedFacts DEF Waiting, Settling
  <2> HIDE DEF s
  <2>2. Keeps(s, PauseRunning(s)) /\ PauseRunning(s).fails = s.fails
    BY <2>1, StatusKeeps, StatusFacts
  <2>3. Keeps(db, PauseRunning(s)) /\ PauseRunning(s).fails = db.fails
    BY <2>1, <2>2, KeepsTrans
  <2> QED
    BY <1>4, <2>3 DEF s, Keeps
<1>5. \/ db' \in {CancelUnsent(db), private} /\ clean = "cancel"
      \/ db' \in {db, ResetPrivateQueued(db), deferred, StartFailure(db, "running"),
                  FinishRunning(db)}
      \/ db' \in {ResetQueued(db, "pending"), ResetQueued(db, "deferred")}
      \/ db' = PauseRunning(ResetQueued(db, "pending"))
  <2>1. CASE CleanFails
    <3>1. db' \in Halfway /\ clean \in {"pause", "defer", "cancel", "errors", "smtp", "finish"}
      BY <2>1 DEF CleanFails
    <3> QED
      BY <3>1 DEF Halfway
  <2>2. CASE ~CleanFails
    BY <2>2 DEF Cleanup, CleanStart, CleanDecide, CleanErrors, CleanErrorsDone, CleanPause,
                CleanDefer, CleanCancel, CleanSmtp, CleanFinish
  <2> QED
    BY <2>1, <2>2
<1> QED
  BY <1>2, <1>3, <1>4, <1>5

LEMMA WorkerKeeps ==
    ASSUME TypeOK, NEW r \in Recipients, Worker(r)
    PROVE  /\ db'.counted = db.counted /\ db'.deliverable = db.deliverable /\ Round(db, db')
           /\ Keeps(db, db') \/ WorkerSent(r) \/ WorkerRelease(r)
<1>1. db \in DB /\ used.day + 1 \in Nat
  BY DEF TypeOK, Uses
<1>2. CASE WorkerSent(r)
  BY <1>1, <1>2, MarkSentOnly DEF WorkerSent
<1>3. CASE WorkerRelease(r)
  BY <1>1, <1>3, MarkPendingOnly DEF WorkerRelease, Columns
<1>4. CASE ~WorkerSent(r) /\ ~WorkerRelease(r)
  <2>1. db' = db \/ db' = Defer(db, used.day + 1) \/ db' = RecordFailure(db, r)
    BY <1>4 DEF Worker, WorkerTake, WorkerAccepted, WorkerSentFails, WorkerFailed,
                WorkerFailedUnrecorded, WorkerBlocked, WorkerCancelled, WorkerReleaseFails,
                WorkerQuota, WorkerDefer, WorkerDeferFails
  <2>2. Keeps(db, db')
    BY <1>1, <2>1, SameKeeps, DeferKeeps, RecordFailureKeeps
  <2> QED
    BY <2>2 DEF Keeps, Columns
<1> QED
  BY <1>2, <1>3, <1>4

LEMMA UsersKeep ==
    ASSUME TypeOK, Users
    PROVE  /\ db'.sentToday = db.sentToday /\ db'.fails = db.fails
           /\ db'.deliverable \subseteq db.deliverable
           /\ db'.counted = db.counted \/ used'.removals > 0
           /\ db'.counted = db.counted \/ RemoveRecipient
           /\ \A r \in Recipients :
                \/ db'.rcpt[r] = db.rcpt[r]
                \/ db.rcpt[r] \in Unsent /\ db'.rcpt[r] \in {"pending", "deferred", "failed", "cancelled"}
<1>1. db \in DB
  BY DEF TypeOK
<1>2. CASE \E to \in CampaignStatuses : UserStatus(to)
  BY <1>1, <1>2, ManualStatusOnly, ManualStatusFacts DEF UserStatus, Columns, Settling
<1>3. CASE UserStop \/ SmtpStop
  BY <1>3 DEF UserStop, SmtpStop
<1>4. CASE UserRetry
  BY <1>1, <1>4, RetrySelectedOnly, RetrySelectedFacts DEF UserRetry, Columns
<1>5. CASE Undeliverable
  <2>1. PICK r : db' = [db EXCEPT !.deliverable = @ \ {r}]
    BY <1>5 DEF Undeliverable
  <2>2. db'.counted = db.counted
    BY <1>1, <2>1 DEF DB
  <2> QED
    BY <1>1, <2>1, <2>2, RemoveOnly
<1>6. CASE RemoveRecipient
  <2>1. used'.removals > 0
    BY <1>6 DEF RemoveRecipient, Spend, TypeOK, Uses
  <2>2. PICK r : db' = Remove(db, r)
    BY <1>6 DEF RemoveRecipient
  <2> QED
    BY <1>1, <1>6, <2>1, <2>2, RemoveOnly
<1>7. CASE PoolUnsubscribe
  <2>1. PICK r \in Pool : db' = UnsubscribePool(db, r)
    BY <1>7 DEF PoolUnsubscribe
  <2>2. r \in Recipients
    BY DEF Recipients
  <2> QED
    BY <1>1, <2>1, <2>2, UnsubscribePoolOnly, UnsubscribePoolFacts DEF Settling, Only
<1>8. CASE SmtpRemove
  BY <1>1, <1>8, HaltKeeps, PauseForSMTPFacts DEF SmtpRemove, Keeps, Eases, Columns, Settling
<1> QED
  BY <1>2, <1>3, <1>4, <1>5, <1>6, <1>7, <1>8 DEF Users

\* The background spends faults only.
Background == Scanner \/ Scheduler \/ (\E r \in Recipients : Worker(r)) \/ WorkerTail \/ Cleanup

LEMMA BackgroundSpends ==
    ASSUME TypeOK, Background
    PROVE  used' = used \/ (FaultLeft /\ Spend("faults"))
<1>1. CASE Scanner
  BY <1>1 DEF Scanner, ScanSelect, ScanClaim, ScanReplyInvalid, ScanReset, ScanSync, ScanFinish,
              ScanStart, ScanStartFull, ScanStartFails, NoSenderOrFault
<1>2. CASE Scheduler
  BY <1>2 DEF Scheduler, SchedStopped, SchedRead, SchedClaim, SchedFails, SchedNoSender,
              SchedDefer, SchedDeferFails, SchedPush, SchedRenderFails, SchedAbandon,
              SchedRequeue, SchedRequeueFull, SchedWake, SchedStopWaiting
<1>3. CASE \E r \in Recipients : Worker(r)
  BY <1>3 DEF Worker, WorkerTake, WorkerAccepted, WorkerSent, WorkerSentFails, WorkerFailed,
              WorkerFailedUnrecorded, WorkerBlocked, WorkerCancelled, WorkerRelease,
              WorkerReleaseFails, WorkerQuota, WorkerDefer, WorkerDeferFails, NoSenderOrFault
<1>4. CASE WorkerTail
  BY <1>4 DEF WorkerTail, WorkerDone, WorkerError, WorkerMediaError
<1>5. CASE Cleanup
  BY <1>5 DEF Cleanup, CleanStart, CleanDecide, CleanErrors, CleanErrorsDone, CleanPause,
              CleanDefer, CleanCancel, CleanSmtp, CleanFinish, CleanFails
<1> QED
  BY <1>1, <1>2, <1>3, <1>4, <1>5 DEF Background

\* What is spent is spent, within its bound.
LEMMA NextSpends ==
    ASSUME TypeOK, [Next]_vars
    PROVE  /\ used'.ops = used.ops \/ (used'.ops = used.ops + 1 /\ OpLeft)
           /\ used'.unsubs = used.unsubs \/ (used'.unsubs = used.unsubs + 1 /\ used.unsubs < MaxUnsubs)
           /\ used'.removals = used.removals \/ (used'.removals = used.removals + 1 /\ used.removals < MaxRemovals)
           /\ used'.smtp = used.smtp \/ (used'.smtp = used.smtp + 1 /\ used.smtp < MaxSmtpRemovals)
           /\ used'.faults = used.faults \/ (used'.faults = used.faults + 1 /\ FaultLeft)
           /\ used'.crashes = used.crashes \/ used'.crashes = used.crashes + 1
<1>1. \/ used' = used
      \/ Spend("faults") /\ FaultLeft
      \/ Spend("ops") /\ OpLeft
      \/ Spend("unsubs") /\ used.unsubs < MaxUnsubs
      \/ Spend("removals") /\ used.removals < MaxRemovals
      \/ Spend("smtp") /\ used.smtp < MaxSmtpRemovals
      \/ Spend("day") \/ Spend("crashes")
  <2>1. CASE Background
    BY <2>1, BackgroundSpends
  <2>2. CASE Users
    BY <2>2 DEF Users, UserStatus, UserStop, UserRetry, Undeliverable, RemoveRecipient,
                PoolUnsubscribe, SmtpRemove, SmtpStop
  <2>3. CASE NextDay \/ Crash \/ UNCHANGED vars
    BY <2>3 DEF NextDay, Crash, vars
  <2> QED
    BY <2>1, <2>2, <2>3 DEF Next, Background
<1> QED
  BY <1>1 DEF Spend, TypeOK, Uses

\* Only removals take recipients out of the counts, and nobody becomes deliverable.
LEMMA NextCounted ==
    ASSUME TypeOK, [Next]_vars
    PROVE  /\ db'.counted = db.counted \/ used'.removals > 0
           /\ db'.deliverable \subseteq db.deliverable
           /\ db'.counted = db.counted \/ RemoveRecipient
<1>1. db \in DB
  BY DEF TypeOK
<1>2. CASE Scanner
  BY <1>2, ScannerKeeps DEF Keeps, Columns
<1>3. CASE Scheduler
  <2>1. CASE SchedRenderFails
    <3>1. PICK r \in claim.batch, recorded \in BOOLEAN, released \in BOOLEAN :
            LET failed == IF recorded THEN RecordFailure(db, r) ELSE db
            IN  db' = IF released THEN MarkPending(failed, r) ELSE failed
      BY <2>1 DEF SchedRenderFails
    <3> DEFINE failed == IF recorded THEN RecordFailure(db, r) ELSE db
    <3>2. r \in Recipients
      BY DEF TypeOK, Claims
    <3>3. failed \in DB /\ Columns(db, failed)
      BY <1>1, <3>2, RecordFailureFacts, RecordFailureKeeps, SameKeeps DEF Keeps
    <3>4. db' = IF released THEN MarkPending(failed, r) ELSE failed
      BY <3>1
    <3> HIDE DEF failed
    <3> QED
      BY <3>2, <3>3, <3>4, MarkPendingOnly DEF Columns
  <2>2. ASSUME NEW batch, db' = Claim(db, batch) PROVE Columns(db, db')
    BY <1>1, <2>2, ClaimOnly
  <2> QED
    BY <1>3, <2>1, <2>2, SchedulerKeeps DEF Keeps, Columns
<1>4. CASE \E r \in Recipients : Worker(r)
  BY <1>4, WorkerKeeps
<1>5. CASE WorkerTail
  BY <1>5 DEF WorkerTail, WorkerDone, WorkerError, WorkerMediaError
<1>6. CASE Cleanup
  BY <1>6, CleanupKeeps DEF Columns
<1>7. CASE Users
  BY <1>7, UsersKeep
<1>8. CASE NextDay
  BY <1>1, <1>8 DEF NextDay, DB
<1>9. CASE Crash \/ UNCHANGED vars
  BY <1>9 DEF Crash, vars
<1> QED
  BY <1>2, <1>3, <1>4, <1>5, <1>6, <1>7, <1>8, <1>9 DEF Next

LEMMA BoundedStep ==
    ASSUME TypeOK, Counts, Halted, Bounded, [Next]_vars
    PROVE  Bounded'
<1>1. /\ used.ops \in Nat /\ used.unsubs \in Nat /\ used.removals \in Nat /\ used.faults \in Nat
      /\ MaxUserOps \in Nat /\ MaxUnsubs \in Nat /\ MaxRemovals \in Nat /\ MaxFaults \in Nat
  BY SenderAssumption DEF TypeOK, Uses, SenderAssumption
<1>2. /\ used'.ops <= MaxUserOps /\ used'.unsubs <= MaxUnsubs
      /\ used'.removals <= MaxRemovals /\ used'.faults <= MaxFaults
  BY <1>1, NextSpends DEF Bounded, OpLeft, FaultLeft
<1>3. used'.removals = 0 => db'.counted = Recipients
  BY <1>1, NextSpends, NextCounted DEF Bounded
<1>4. db'.deliverable \subseteq db'.counted
  <2>1. CASE RemoveRecipient
    BY <2>1 DEF RemoveRecipient, Remove, Bounded, TypeOK, DB
  <2>2. CASE ~RemoveRecipient
    BY <2>2, NextCounted DEF Bounded
  <2> QED
    BY <2>1, <2>2
<1>5. ASSUME sched' = "claim" PROVE claim'.n > 0
  <2>1. CASE sched' = sched /\ claim' = claim
    BY <1>5, <2>1 DEF Bounded
  <2>2. CASE SchedRead
    <3> DEFINE queued == Cardinality(Counted(db, {"queued"}))
    <3>1. queued \in Nat /\ db.sentToday \in Nat
      BY RecipientsFinite DEF Counted, In, TypeOK, DB
    <3>2. PICK left \in SmtpAnswers :
            LET limit == BatchLimit(db.sentToday, queued, left)
            IN  /\ sched' = IF limit.deferred THEN "defer"
                            ELSE IF limit.n = 0 THEN "waiting" ELSE "claim"
                /\ claim' = IF limit.n = 0 THEN NoClaim
                            ELSE [n |-> limit.n, hadQueued |-> queued > 0, batch |-> {}]
      BY <1>5, <2>2 DEF SchedRead, ReleaseSched
    <3> DEFINE limit == BatchLimit(db.sentToday, queued, left)
    <3>3. limit.n \in Nat
      BY <3>1, BatchLimitFacts
    <3>4. limit.n # 0 /\ claim' = [n |-> limit.n, hadQueued |-> queued > 0, batch |-> {}]
      BY <1>5, <3>2
    <3> HIDE DEF limit, queued
    <3> QED
      BY <3>3, <3>4
  <2>3. \/ sched' = sched /\ claim' = claim
        \/ SchedRead
        \/ sched' # "claim"
    <3>1. CASE Scheduler
      BY <3>1 DEF Scheduler, SchedStopped, SchedClaim, SchedFails, SchedNoSender, SchedDefer,
                  SchedDeferFails, SchedPush, SchedRenderFails, SchedAbandon, SchedRequeue,
                  SchedRequeueFull, SchedWake, SchedStopWaiting, ReleaseSched
    <3>2. CASE Scanner
      BY <3>2 DEF Scanner, ScanSelect, ScanClaim, ScanReplyInvalid, ScanReset, ScanSync,
                  ScanFinish, ScanStart, ScanStartFull, ScanStartFails
    <3>3. CASE \E r \in Recipients : Worker(r)
      BY <3>3 DEF Worker, WorkerTake, WorkerAccepted, WorkerSent, WorkerSentFails,
                  WorkerFailed, WorkerFailedUnrecorded, WorkerBlocked, WorkerCancelled,
                  WorkerRelease, WorkerReleaseFails, WorkerQuota, WorkerDefer, WorkerDeferFails
    <3>4. CASE WorkerTail \/ NextDay \/ Crash \/ UNCHANGED vars
      BY <3>4 DEF WorkerTail, WorkerDone, WorkerError, WorkerMediaError, NextDay, Crash, vars
    <3>5. CASE Cleanup
      BY <3>5 DEF Cleanup, CleanStart, CleanDecide, CleanErrors, CleanErrorsDone, CleanPause,
                  CleanDefer, CleanCancel, CleanSmtp, CleanFinish, CleanFails
    <3>6. CASE Users
      BY <3>6 DEF Users, UserStatus, UserStop, UserRetry, Undeliverable, RemoveRecipient,
                  PoolUnsubscribe, SmtpRemove, SmtpStop
    <3> QED
      BY <3>1, <3>2, <3>3, <3>4, <3>5, <3>6 DEF Next
  <2> QED
    BY <1>5, <2>1, <2>2, <2>3
<1> QED
  BY <1>2, <1>3, <1>4, <1>5 DEF Bounded

-----------------------------------------------------------------------------
(* Pipes obey their stop. *)

LEMMA ObeysAfterPipeStep ==
    ASSUME TypeOK, PipeObeys, PipeStep, pipe.live, clean = "none", clean' = "none"
    PROVE  PipeObeys'
<1>1. pipe'.live
  BY DEF PipeStep, Later
<1>2. pipe'.withErrors => pipe'.stopped
  BY DEF PipeStep, Later, PipeObeys
<1>3. pipe'.manual => pipe'.stopped /\ ~pipe'.withErrors /\ pipe'.reason \in {"pause", "cancelled"}
  BY DEF PipeStep, Later, PipeObeys
<1> QED
  BY <1>1, <1>2, <1>3 DEF PipeObeys

LEMMA UnusedPipeFacts ==
    /\ \A live, wg : LET p == UnusedPipe(live, wg)
                     IN  ~p.withErrors /\ ~p.manual /\ ~p.stopped /\ ~p.deferred
                         /\ p.live = live /\ p.reason = "none"
    /\ LET p == Done(Stop(NewPipe, "pause", FALSE))
       IN  p.live /\ ~p.withErrors /\ ~p.manual /\ p.stopped /\ ~p.deferred /\ p.reason = "pause"
BY DEF UnusedPipe, NewPipe, Done, Stop

LEMMA Unregistered ==
    ASSUME PipeObeys, ~pipe.live
    PROVE  /\ ~pipe.withErrors /\ ~pipe.manual /\ ~pipe.stopped /\ ~pipe.deferred
           /\ pipe.reason = "none"
<1>1. pipe = UnusedPipe(FALSE, 0)
  BY DEF PipeObeys, NoPipe
<1> QED
  BY <1>1, UnusedPipeFacts

LEMMA StopCampaignStands ==
    ASSUME NEW p \in Pipe, NEW why \in {"pause", "cancelled"}, p.live
    PROVE  LET q == StopCampaign(p, why)
           IN  /\ q.live /\ q.stopped /\ q.manual /\ ~q.withErrors /\ q.reason = why
               /\ q.deferred => p.deferred
<1> DEFINE s == Stop(p, why, FALSE)
<1>1. s \in Pipe /\ s.live /\ s.stopped /\ (s.deferred => p.deferred)
  BY DEF Stop, Pipe, PipeRecord, Reasons
<1>2. StopCampaign(p, why) = [s EXCEPT !.withErrors = FALSE, !.reason = why, !.manual = TRUE]
  BY DEF StopCampaign
<1> HIDE DEF s
<1> QED
  BY <1>1, <1>2 DEF Pipe, PipeRecord

LEMMA ObeysStep ==
    ASSUME TypeOK, Counts, PipeObeys, [Next]_vars
    PROVE  PipeObeys'
<1>1. ASSUME pipe' = pipe, clean' = clean \/ clean' # "finish" PROVE PipeObeys'
  BY <1>1 DEF PipeObeys
<1>2. ASSUME pipe' = NoPipe, clean' = "none" PROVE PipeObeys'
  BY <1>2, UnusedPipeFacts DEF PipeObeys, NoPipe
<1>3. CASE Scanner
  <2>1. pipe' = pipe \/ pipe' = NewPipe \/ pipe' = Done(Stop(NewPipe, "pause", FALSE))
    BY <1>3 DEF Scanner, ScanSelect, ScanClaim, ScanReplyInvalid, ScanReset, ScanSync,
                ScanFinish, ScanStart, ScanStartFull, ScanStartFails
  <2>2. clean' = clean
    BY <1>3 DEF Scanner, ScanSelect, ScanClaim, ScanReplyInvalid, ScanReset, ScanSync,
                ScanFinish, ScanStart, ScanStartFull, ScanStartFails
  <2>3. CASE pipe' = NewPipe
    <3>1. pipe'.live /\ ~pipe'.withErrors /\ ~pipe'.manual /\ ~pipe'.deferred
      BY <2>3, UnusedPipeFacts DEF NewPipe
    <3> QED
      BY <3>1 DEF PipeObeys
  <2>4. CASE pipe' = Done(Stop(NewPipe, "pause", FALSE))
    <3>1. pipe'.live /\ ~pipe'.withErrors /\ ~pipe'.manual /\ ~pipe'.deferred
      BY <2>4, UnusedPipeFacts
    <3> QED
      BY <3>1 DEF PipeObeys
  <2> QED
    BY <1>1, <2>1, <2>2, <2>3, <2>4
<1>4. CASE Scheduler
  <2>1. sched # "none" /\ clean' = clean
    BY <1>4 DEF Scheduler, SchedStopped, SchedRead, SchedClaim, SchedFails, SchedNoSender,
                SchedDefer, SchedDeferFails, SchedPush, SchedRenderFails, SchedAbandon,
                SchedRequeue, SchedRequeueFull, SchedWake, SchedStopWaiting
  <2> QED
    BY <1>4, <2>1, SomebodyLeft, SchedulerPipe, ObeysAfterPipeStep
<1>5. CASE \E r \in Recipients : Worker(r)
  <2>1. PICK r \in Recipients : Worker(r)
    BY <1>5
  <2>2. msg[r] # "none" /\ clean' = clean
    BY <2>1 DEF Worker, WorkerTake, WorkerAccepted, WorkerSent, WorkerSentFails,
                WorkerFailed, WorkerFailedUnrecorded, WorkerBlocked, WorkerCancelled,
                WorkerRelease, WorkerReleaseFails, WorkerQuota, WorkerDefer, WorkerDeferFails
  <2>3. InFlight # {}
    BY <2>2 DEF InFlight
  <2> QED
    BY <2>1, <2>2, <2>3, SomebodyLeft, WorkerPipe, ObeysAfterPipeStep
<1>6. CASE WorkerTail
  <2>1. (tail.ok > 0 \/ tail.error > 0) /\ clean' = clean
    BY <1>6 DEF WorkerTail, WorkerDone, WorkerError, WorkerMediaError
  <2> QED
    BY <1>6, <2>1, SomebodyLeft, WorkerTailPipe, ObeysAfterPipeStep
<1>7. CASE Cleanup
  <2>1. \/ pipe' = NoPipe /\ clean' = "none"
        \/ pipe' = pipe /\ (clean' # "finish" \/ (CleanDecide /\ ~pipe.deferred))
    BY <1>7 DEF Cleanup, CleanStart, CleanDecide, CleanErrors, CleanErrorsDone, CleanPause,
                CleanDefer, CleanCancel, CleanSmtp, CleanFinish, CleanFails, CleanReturn, Reasons,
                TypeOK, Pipe, PipeRecord
  <2> QED
    BY <1>1, <1>2, <2>1 DEF PipeObeys
<1>8. CASE Users
  <2>1. \/ pipe' = pipe
        \/ \E why \in {"pause", "cancelled"} : pipe' = StopCampaign(pipe, why)
    BY <1>8 DEF Users, UserStatus, UserStop, UserRetry, Undeliverable, RemoveRecipient,
                PoolUnsubscribe, SmtpRemove, SmtpStop
  <2>2. clean' = clean
    BY <1>8 DEF Users, UserStatus, UserStop, UserRetry, Undeliverable, RemoveRecipient,
                PoolUnsubscribe, SmtpRemove, SmtpStop
  <2>3. ~pipe.live => pipe' = pipe
    BY <2>1 DEF StopCampaign
  <2>4. ASSUME pipe.live, pipe' # pipe PROVE PipeObeys'
    <3>1. PICK why \in {"pause", "cancelled"} : pipe' = StopCampaign(pipe, why)
      BY <2>1, <2>4
    <3>2. /\ pipe'.live /\ pipe'.stopped /\ pipe'.manual /\ ~pipe'.withErrors
          /\ pipe'.reason = why /\ (pipe'.deferred => pipe.deferred)
      BY <2>4, <3>1, StopCampaignStands DEF TypeOK
    <3> QED
      BY <2>2, <3>2 DEF PipeObeys
  <2> QED
    BY <1>1, <2>2, <2>3, <2>4
<1>9. CASE Crash
  BY <1>2, <1>9 DEF Crash
<1>10. CASE NextDay \/ UNCHANGED vars
  BY <1>1, <1>10 DEF NextDay, vars
<1> QED
  BY <1>3, <1>4, <1>5, <1>6, <1>7, <1>8, <1>9, <1>10 DEF Next

-----------------------------------------------------------------------------
(* Every acceptance is accounted for. *)

Lost == used.crashes + used.faults

LEMMA LostFacts ==
    ASSUME TypeOK, [Next]_vars
    PROVE  Lost \in Nat /\ Lost' \in Nat /\ Lost' >= Lost
<1>1. used.crashes \in Nat /\ used.faults \in Nat
  BY DEF TypeOK, Uses
<1> QED
  BY <1>1, NextSpends DEF Lost

\* A step that accepts and forgets nobody.
LEMMA AccountedKept ==
    ASSUME TypeOK, Accounted, [Next]_vars, delivered' = delivered, SendsNobody(db, db'),
           \A r \in Recipients :
             /\ msg[r] = "accepted" => msg'[r] = "accepted"
             /\ r \in claim'.batch => db.rcpt[r] # "sent"
             /\ msg'[r] # "none" => r \in claim.batch \/ msg[r] # "none"
    PROVE  Accounted'
<1> SUFFICES ASSUME NEW r \in Recipients
             PROVE  /\ r \in claim'.batch \/ msg'[r] # "none" => db'.rcpt[r] # "sent"
                    /\ delivered'[r] <= Lost' + IF msg'[r] = "accepted" \/ db'.rcpt[r] = "sent"
                                                THEN 1 ELSE 0
  BY DEF Accounted, Lost
<1>1. delivered[r] <= Lost + IF msg[r] = "accepted" \/ db.rcpt[r] = "sent" THEN 1 ELSE 0
  BY DEF Accounted, Lost
<1>2. delivered[r] \in Nat
  BY DEF TypeOK
<1> QED
  BY <1>1, <1>2, LostFacts DEF Accounted, SendsNobody

LEMMA SchedulerAccounted ==
    ASSUME TypeOK, Rows, Accounted, Scheduler
    PROVE  Accounted'
<1>1. db \in DB /\ claim.batch \in SUBSET Recipients /\ [Next]_vars
  BY DEF TypeOK, Claims, Next
<1>2. delivered' = delivered
  BY DEF Scheduler, SchedStopped, SchedRead, SchedClaim, SchedFails, SchedNoSender,
         SchedDefer, SchedDeferFails, SchedPush, SchedRenderFails, SchedAbandon,
         SchedRequeue, SchedRequeueFull, SchedWake, SchedStopWaiting
<1>3. Claimable(db) \subseteq In(db, Waiting)
  BY DEF Claimable, RetryQueue, In
<1>4. SendsNobody(db, db')
  <2>1. ASSUME NEW batch \in SUBSET Claimable(db), db' = Claim(db, batch)
        PROVE  SendsNobody(db, db')
    BY <1>1, <1>3, <2>1, ClaimOnly DEF SendsNobody, In, Waiting
  <2>2. CASE SchedRenderFails
    <3>1. PICK r \in claim.batch, recorded \in BOOLEAN, released \in BOOLEAN :
            LET failed == IF recorded THEN RecordFailure(db, r) ELSE db
            IN  db' = IF released THEN MarkPending(failed, r) ELSE failed
      BY <2>2 DEF SchedRenderFails
    <3> DEFINE failed == IF recorded THEN RecordFailure(db, r) ELSE db
    <3>2. r \in Recipients
      BY <1>1
    <3>3. failed \in DB /\ SendsNobody(db, failed)
      <4>1. RecordFailure(db, r) \in DB /\ Keeps(db, RecordFailure(db, r))
        BY <1>1, <3>2, RecordFailureFacts, RecordFailureKeeps
      <4>2. SendsNobody(db, RecordFailure(db, r)) /\ SendsNobody(db, db)
        BY <4>1, EasesSent DEF Keeps, SendsNobody
      <4> QED
        BY <1>1, <4>1, <4>2
    <3>4. db' = IF released THEN MarkPending(failed, r) ELSE failed
      BY <3>1
    <3> HIDE DEF failed
    <3> QED
      BY <3>2, <3>3, <3>4, MarkPendingOnly DEF Only, SendsNobody
  <2> QED
    BY <2>1, <2>2, SchedulerKeeps, EasesSent DEF Keeps
<1>5. CASE SchedClaim
  <2>1. PICK batch \in SUBSET Recipients :
          /\ IsClaim(db, claim.n, batch)
          /\ batch # {} => claim' = [claim EXCEPT !.batch = batch]
          /\ batch = {} => claim' = NoClaim
    BY <1>5 DEF SchedClaim, ReleaseSched
  <2>2. claim'.batch = batch
    BY <2>1 DEF TypeOK, Claims, NoClaim
  <2>3. batch \subseteq In(db, Waiting)
    BY <1>3, <2>1 DEF IsClaim
  <2>4. msg' = msg
    BY <1>5 DEF SchedClaim
  <2> QED
    BY <1>1, <1>2, <1>4, <2>2, <2>3, <2>4, AccountedKept DEF In, Waiting
<1>6. CASE SchedPush
  <2>1. PICK r \in claim.batch :
          /\ msg' = [msg EXCEPT ![r] = "queued"]
          /\ claim' = [claim EXCEPT !.batch = @ \ {r}]
    BY <1>6 DEF SchedPush
  <2>2. claim'.batch \subseteq claim.batch /\ r \in Recipients /\ msg[r] = "none"
    BY <1>1, <2>1 DEF TypeOK, Claims, Rows, NoOverlap, InFlight
  <2>3. \A q \in Recipients : /\ msg[q] = "accepted" => msg'[q] = "accepted"
                              /\ msg'[q] # "none" => q \in claim.batch \/ msg[q] # "none"
    BY <2>1, <2>2 DEF TypeOK
  <2> QED
    BY <1>1, <1>2, <1>4, <2>2, <2>3, AccountedKept DEF Accounted
<1>7. CASE ~SchedClaim /\ ~SchedPush
  <2>1. msg' = msg
    BY <1>7 DEF Scheduler, SchedStopped, SchedRead, SchedFails, SchedNoSender,
                SchedDefer, SchedDeferFails, SchedRenderFails, SchedAbandon,
                SchedRequeue, SchedRequeueFull, SchedWake, SchedStopWaiting
  <2>2. claim'.batch \subseteq claim.batch
    <3>1. CASE SchedRenderFails
      BY <3>1 DEF SchedRenderFails, TypeOK, Claims
    <3>2. CASE SchedRead
      BY <3>2 DEF SchedRead, ReleaseSched, NoClaim
    <3>3. CASE SchedWake
      BY <3>3 DEF SchedWake
    <3>4. CASE claim' = NoClaim
      BY <3>4 DEF NoClaim
    <3>5. SchedRenderFails \/ SchedRead \/ SchedWake \/ claim' = NoClaim
      BY <1>7 DEF Scheduler, SchedStopped, SchedFails, SchedNoSender, SchedDefer,
                  SchedDeferFails, SchedAbandon, SchedRequeue, SchedRequeueFull,
                  SchedStopWaiting, ReleaseSched
    <3> QED
      BY <3>1, <3>2, <3>3, <3>4, <3>5
  <2> QED
    BY <1>1, <1>2, <1>4, <2>1, <2>2, AccountedKept DEF Accounted
<1> QED
  BY <1>5, <1>6, <1>7

LEMMA WorkerAccounted ==
    ASSUME TypeOK, Rows, Accounted, NEW r \in Recipients, Worker(r)
    PROVE  Accounted'
<1>1. db \in DB /\ claim.batch \in SUBSET Recipients /\ [Next]_vars
      /\ msg \in [Recipients -> Msgs] /\ delivered \in [Recipients -> Nat]
  BY DEF TypeOK, Claims, Next
<1>2. used.crashes \in Nat /\ used.faults \in Nat
  BY DEF TypeOK, Uses
<1>3. /\ db.rcpt[r] # "sent" \/ (r \notin claim.batch /\ msg[r] = "none")
      /\ delivered[r] <= Lost + IF msg[r] = "accepted" \/ db.rcpt[r] = "sent" THEN 1 ELSE 0
  BY DEF Accounted, Lost
<1>4. CASE WorkerAccepted(r)
  <2>1. delivered'[r] = delivered[r] + 1 /\ msg'[r] = "accepted" /\ db' = db /\ claim' = claim
        /\ Lost' = Lost /\ msg[r] = "sending"
        /\ \A q \in Recipients \ {r} : msg'[q] = msg[q] /\ delivered'[q] = delivered[q]
    BY <1>1, <1>4 DEF WorkerAccepted, Lost
  <2> QED
    BY <1>1, <1>3, <2>1, LostFacts DEF Accounted, Lost
<1>5. CASE WorkerSent(r)
  <2>1. /\ \A q \in Recipients \ {r} : db'.rcpt[q] = db.rcpt[q] /\ msg'[q] = msg[q]
        /\ db'.rcpt[r] = "sent" /\ msg'[r] = "none" /\ msg[r] = "accepted"
        /\ claim' = claim /\ delivered' = delivered /\ Lost' = Lost
    BY <1>1, <1>5, MarkSentOnly DEF WorkerSent, Only, Lost
  <2>2. r \notin claim.batch
    BY <2>1 DEF Rows, NoOverlap, InFlight
  <2> QED
    BY <1>1, <1>3, <2>1, <2>2, LostFacts DEF Accounted, Lost
<1>6. CASE WorkerSentFails(r)
  <2>1. /\ \A q \in Recipients \ {r} : msg'[q] = msg[q]
        /\ db' = db /\ msg'[r] = "none" /\ msg[r] = "accepted"
        /\ claim' = claim /\ delivered' = delivered
    BY <1>1, <1>6 DEF WorkerSentFails
  <2>2. Lost' = Lost + 1
    BY <1>2, <1>6 DEF WorkerSentFails, Spend, TypeOK, Uses, Lost
  <2> SUFFICES ASSUME NEW q \in Recipients
               PROVE  /\ q \in claim'.batch \/ msg'[q] # "none" => db'.rcpt[q] # "sent"
                      /\ delivered'[q] <= Lost' + IF msg'[q] = "accepted" \/ db'.rcpt[q] = "sent"
                                                  THEN 1 ELSE 0
    BY DEF Accounted, Lost
  <2>3. delivered[q] <= Lost + IF msg[q] = "accepted" \/ db.rcpt[q] = "sent" THEN 1 ELSE 0
    BY DEF Accounted, Lost
  <2> QED
    BY <1>1, <2>1, <2>2, <2>3, LostFacts DEF Accounted
<1>7. CASE ~WorkerAccepted(r) /\ ~WorkerSent(r) /\ ~WorkerSentFails(r)
  <2>1. /\ delivered' = delivered /\ claim' = claim /\ msg[r] \notin {"none", "accepted"}
        /\ \A q \in Recipients \ {r} : msg'[q] = msg[q]
    BY <1>1, <1>7 DEF Worker, WorkerTake, WorkerFailed, WorkerFailedUnrecorded, WorkerBlocked,
                WorkerCancelled, WorkerRelease, WorkerReleaseFails, WorkerQuota, WorkerDefer,
                WorkerDeferFails
  <2>2. SendsNobody(db, db')
    <3>1. CASE WorkerRelease(r)
      BY <1>1, <3>1, MarkPendingOnly DEF WorkerRelease, Only, SendsNobody
    <3> QED
      BY <1>7, <3>1, WorkerKeeps, EasesSent DEF Keeps
  <2> QED
    BY <1>1, <2>1, <2>2, AccountedKept DEF Accounted
<1> QED
  BY <1>4, <1>5, <1>6, <1>7

LEMMA AccountedStep ==
    ASSUME TypeOK, Counts, Rows, Accounted, [Next]_vars
    PROVE  Accounted'
<1>1. ASSUME delivered' = delivered, SendsNobody(db, db'), msg' = msg, claim' = claim
      PROVE  Accounted'
  BY <1>1, AccountedKept DEF Accounted
<1>2. CASE Scanner
  <2>1. delivered' = delivered /\ msg' = msg /\ claim' = claim
    BY <1>2 DEF Scanner, ScanSelect, ScanClaim, ScanReplyInvalid, ScanReset, ScanSync,
                ScanFinish, ScanStart, ScanStartFull, ScanStartFails
  <2> QED
    BY <1>1, <1>2, <2>1, ScannerKeeps, EasesSent DEF Keeps
<1>3. CASE Cleanup
  <2>1. delivered' = delivered /\ msg' = msg /\ claim' = claim
    BY <1>3 DEF Cleanup, CleanStart, CleanDecide, CleanErrors, CleanErrorsDone, CleanPause,
                CleanDefer, CleanCancel, CleanSmtp, CleanFinish, CleanFails
  <2>2. SendsNobody(db, db')
    BY <1>3, CleanupKeeps, EasesSent DEF SendsNobody, Unsent
  <2> QED
    BY <1>1, <2>1, <2>2
<1>4. CASE Users
  <2>1. delivered' = delivered /\ msg' = msg /\ claim' = claim
    BY <1>4 DEF Users, UserStatus, UserStop, UserRetry, Undeliverable, RemoveRecipient,
                PoolUnsubscribe, SmtpRemove, SmtpStop
  <2>2. SendsNobody(db, db')
    BY <1>4, UsersKeep DEF SendsNobody, Unsent
  <2> QED
    BY <1>1, <2>1, <2>2
<1>5. CASE WorkerTail \/ NextDay \/ UNCHANGED vars
  <2>1. delivered' = delivered /\ msg' = msg /\ claim' = claim
    BY <1>5 DEF WorkerTail, WorkerDone, WorkerError, WorkerMediaError, NextDay, vars
  <2>2. db'.rcpt = db.rcpt
    BY <1>5 DEF WorkerTail, WorkerDone, WorkerError, WorkerMediaError, NextDay, vars, TypeOK, DB
  <2> QED
    BY <1>1, <2>1, <2>2 DEF SendsNobody
<1>6. CASE Crash
  <2>1. /\ delivered' = delivered /\ db' = db /\ claim'.batch = {}
        /\ \A r \in Recipients : msg'[r] = "none"
    BY <1>6 DEF Crash, NoClaim, NoMsgs
  <2>2. Lost' = Lost + 1
    BY <1>6 DEF Crash, Spend, TypeOK, Uses, Lost
  <2> SUFFICES ASSUME NEW q \in Recipients
               PROVE  /\ q \in claim'.batch \/ msg'[q] # "none" => db'.rcpt[q] # "sent"
                      /\ delivered'[q] <= Lost' + IF msg'[q] = "accepted" \/ db'.rcpt[q] = "sent"
                                                  THEN 1 ELSE 0
    BY DEF Accounted, Lost
  <2>3. delivered[q] <= Lost + IF msg[q] = "accepted" \/ db.rcpt[q] = "sent" THEN 1 ELSE 0
    BY DEF Accounted, Lost
  <2>4. delivered[q] \in Nat
    BY DEF TypeOK
  <2> QED
    BY <2>1, <2>2, <2>3, <2>4, LostFacts
<1> QED
  BY <1>2, <1>3, <1>4, <1>5, <1>6, SchedulerAccounted, WorkerAccounted DEF Next

-----------------------------------------------------------------------------
(* Ended campaigns. *)

\* Who cannot be rendered is recorded, and exhausted or released.
LEMMA RenderFacts ==
    ASSUME TypeOK, SchedRenderFails
    PROVE  \E r \in claim.batch :
             /\ r \in Recipients /\ claim'.batch = claim.batch \ {r} /\ claim'.n = claim.n
             /\ Columns(db, db') /\ Round(db, db') /\ Only(db, db', r) /\ ClaimsNobody(db, db')
             /\ db'.status = db.status
             /\ \A q \in Recipients \ {r} : db'.fails[q] = db.fails[q]
             /\ db'.fails[r] >= db.fails[r]
             /\ db'.fails[r] = db.fails[r] \/ db.rcpt[r] = "cancelled"
                  \/ (db'.rcpt[r] \in Unsent => ~Exhausted(db', r))
             /\ db'.rcpt[r] \in {db.rcpt[r], "failed", "pending"}
<1>1. PICK r \in claim.batch, recorded \in BOOLEAN, released \in BOOLEAN :
        /\ LET failed == IF recorded THEN RecordFailure(db, r) ELSE db
           IN  db' = IF released THEN MarkPending(failed, r) ELSE failed
        /\ claim' = [claim EXCEPT !.batch = @ \ {r}]
  BY DEF SchedRenderFails
<1> DEFINE failed == IF recorded THEN RecordFailure(db, r) ELSE db
<1>2. r \in Recipients /\ db \in DB
  BY DEF TypeOK, Claims
<1>3. LET e == RecordFailure(db, r)
      IN  /\ e \in DB /\ e.status = db.status /\ ClaimsNobody(db, e)
          /\ Columns(db, e) /\ Round(db, e) /\ Only(db, e, r)
          /\ e.rcpt[r] \in {db.rcpt[r], "failed"}
          /\ \A q \in Recipients \ {r} : e.fails[q] = db.fails[q]
          /\ e.fails[r] >= db.fails[r]
          /\ e.rcpt[r] \in Unsent => ~Exhausted(e, r)
  <2> DEFINE e == RecordFailure(db, r)
  <2>1. /\ e \in DB /\ e.status = db.status /\ ClaimsNobody(db, e)
        /\ e.fails = [db.fails EXCEPT ![r] = @ + 1]
    BY <1>2, RecordFailureFacts
  <2>2. Columns(db, e) /\ Round(db, e) /\ Only(db, e, r) /\ (e.rcpt[r] \in Unsent => ~Exhausted(e, r))
    BY <1>2, RecordFailureKeeps DEF Keeps
  <2>3. e.rcpt[r] \in {db.rcpt[r], "failed"}
    <3> DEFINE c == [db EXCEPT !.fails[r] = @ + 1]
    <3>1. c \in DB /\ c.rcpt = db.rcpt
      BY <1>2 DEF DB
    <3>2. e = c \/ e = SetRows(c, {r}, "failed")
      BY DEF RecordFailure
    <3> HIDE DEF c
    <3> QED
      BY <1>2, <3>1, <3>2, SetRowsColumns
  <2>4. db.fails[r] \in Nat
    BY <1>2 DEF DB
  <2> HIDE DEF e
  <2>5. \A q \in Recipients \ {r} : e.fails[q] = db.fails[q]
    BY <1>2, <2>1 DEF DB
  <2>6. e.fails[r] >= db.fails[r]
    BY <1>2, <2>1, <2>4 DEF DB
  <2> QED
    BY <2>1, <2>2, <2>3, <2>5, <2>6 DEF e
<1>4. /\ failed \in DB /\ failed.status = db.status /\ ClaimsNobody(db, failed)
      /\ Columns(db, failed) /\ Round(db, failed) /\ Only(db, failed, r)
      /\ failed.rcpt[r] \in {db.rcpt[r], "failed"}
      /\ \A q \in Recipients \ {r} : failed.fails[q] = db.fails[q]
      /\ failed.fails[r] >= db.fails[r]
      /\ failed.fails[r] = db.fails[r] \/ (failed.rcpt[r] \in Unsent => ~Exhausted(failed, r))
  <2>1. CASE recorded
    BY <1>3, <2>1
  <2>2. CASE ~recorded
    <3>1. db.fails[r] \in Nat
      BY <1>2 DEF DB
    <3> QED
      BY <1>2, <2>2, <3>1 DEF Columns, Round, Only, ClaimsNobody
  <2> QED
    BY <2>1, <2>2
<1>5. db' = IF released THEN MarkPending(failed, r) ELSE failed
  BY <1>1
<1>6. claim'.batch = claim.batch \ {r} /\ claim'.n = claim.n
  BY <1>1 DEF TypeOK, Claims
<1> HIDE DEF failed
<1>7. CASE ~released
  BY <1>2, <1>4, <1>5, <1>6, <1>7
<1>8. CASE released
  <2>1. /\ Columns(failed, db') /\ Round(failed, db') /\ Only(failed, db', r)
        /\ db'.rcpt[r] = IF failed.rcpt[r] \in {"sent", "failed"} THEN failed.rcpt[r] ELSE "pending"
        /\ db'.fails = failed.fails /\ db'.status = failed.status /\ ClaimsNobody(failed, db')
    BY <1>2, <1>4, <1>5, <1>8, MarkPendingOnly, MarkPendingFacts DEF Settling
  <2>2. Exhausted(db', r) <=> Exhausted(failed, r)
    BY <2>1 DEF Exhausted
  <2>3. failed.rcpt[r] \in RecipientStatuses
    BY <1>2, <1>4 DEF DB
  <2>4. db'.fails[r] = db.fails[r] \/ db.rcpt[r] = "cancelled"
          \/ (db'.rcpt[r] \in Unsent => ~Exhausted(db', r))
    BY <1>4, <2>1, <2>2, <2>3 DEF RecipientStatuses, Unsent
  <2>5. Columns(db, db') /\ Round(db, db') /\ Only(db, db', r) /\ ClaimsNobody(db, db')
    BY <1>4, <2>1 DEF Columns, Round, Only, ClaimsNobody
  <2> QED
    BY <1>2, <1>4, <1>6, <2>1, <2>4, <2>5
<1> QED
  BY <1>7, <1>8

\* Whoever fails and remains unsent has an attempt left, unless the row was cancelled.
LEMMA FailsCounted ==
    ASSUME TypeOK, [Next]_vars
    PROVE  \A r \in Recipients :
             /\ db'.fails[r] >= db.fails[r]
             /\ \/ db'.fails[r] = db.fails[r] \/ db.rcpt[r] = "cancelled"
                \/ db'.rcpt[r] \in Unsent => ~Exhausted(db', r)
<1>1. db \in DB /\ db.fails \in [Recipients -> Nat] /\ used.day + 1 \in Nat
  BY DEF TypeOK, DB, Uses
<1>2. Claimable(db) \subseteq In(db, Waiting)
  BY DEF Claimable, RetryQueue, In
<1>3. CASE Scheduler
  <2>1. ASSUME NEW batch \in SUBSET Claimable(db), db' = Claim(db, batch)
        PROVE  db'.fails = db.fails
    BY <1>1, <1>2, <2>1, ClaimFacts
  <2> QED
    BY <1>1, <1>3, <2>1, SchedulerKeeps, RenderFacts
<1>4. CASE \E r \in Recipients : Worker(r)
  <2>1. PICK r \in Recipients : Worker(r)
    BY <1>4
  <2>2. db' = db \/ db' = Defer(db, used.day + 1) \/ db' = MarkSent(db, r) \/ db' = MarkPending(db, r)
        \/ db' = RecordFailure(db, r)
    BY <2>1 DEF Worker, WorkerTake, WorkerAccepted, WorkerSent, WorkerSentFails, WorkerFailed,
                WorkerFailedUnrecorded, WorkerBlocked, WorkerCancelled, WorkerRelease,
                WorkerReleaseFails, WorkerQuota, WorkerDefer, WorkerDeferFails
  <2>3. CASE db' = RecordFailure(db, r)
    <3>1. /\ db'.fails = [db.fails EXCEPT ![r] = @ + 1]
          /\ db'.rcpt[r] \in Unsent => ~Exhausted(db', r)
      BY <1>1, <2>3, RecordFailureFacts, RecordFailureKeeps
    <3> QED
      BY <1>1, <3>1
  <2>4. CASE db' # RecordFailure(db, r)
    <3>1. Defer(db, used.day + 1).fails = db.fails
      BY <1>1, DeferFacts DEF Settling
    <3>2. MarkSent(db, r).fails = db.fails /\ MarkPending(db, r).fails = db.fails
      BY <1>1, MarkSentFacts, MarkPendingFacts DEF Settling
    <3>3. db'.fails = db.fails
      BY <2>2, <2>4, <3>1, <3>2
    <3> QED
      BY <1>1, <3>3
  <2> QED
    BY <2>3, <2>4
<1>5. CASE Scanner \/ Cleanup \/ Users
  BY <1>1, <1>5, ScannerKeeps, CleanupKeeps, UsersKeep
<1>6. CASE WorkerTail \/ NextDay \/ Crash \/ UNCHANGED vars
  <2>1. db'.fails = db.fails
    BY <1>1, <1>6 DEF WorkerTail, WorkerDone, WorkerError, WorkerMediaError, NextDay, Crash, vars, DB
  <2> QED
    BY <1>1, <2>1
<1> QED
  BY <1>3, <1>4, <1>5, <1>6 DEF Next

\* A campaign that ended stays so, and a finished one stays finished.
LEMMA EndedForever ==
    ASSUME TypeOK, [Next]_vars
    PROVE  /\ db.status \in Ended => db'.status \in Ended
           /\ db.status = "finished" => db'.status = "finished"
<1>1. db \in DB
  BY DEF TypeOK
<1>2. ASSUME BackgroundStep
      PROVE  /\ db.status \in Ended => db'.status \in Ended
             /\ db.status = "finished" => db'.status = "finished"
  BY <1>2 DEF BackgroundStep, Ended
<1>3. CASE Users
  <2>1. ASSUME NEW to \in CampaignStatuses, UserStatus(to)
        PROVE  db.status \notin Ended
    BY <2>1 DEF UserStatus, MayBecome, CampaignStatuses, Ended
  <2>2. CASE UserRetry
    BY <2>2 DEF UserRetry, Ended
  <2>3. CASE SmtpRemove
    <3>1. db.status \in Ended => db' = db
      BY <1>1, <2>3, HaltKeeps DEF SmtpRemove, Active, Ended
    <3> QED
      BY <3>1 DEF Ended
  <2>4. CASE UserStop \/ SmtpStop
    BY <2>4 DEF UserStop, SmtpStop
  <2>5. CASE Undeliverable \/ RemoveRecipient
    <3>1. db'.status = db.status
      BY <1>1, <2>5 DEF Undeliverable, RemoveRecipient, Remove, DB
    <3> QED
      BY <3>1
  <2>6. CASE PoolUnsubscribe
    BY <1>1, <2>6, UnsubscribePoolFacts DEF PoolUnsubscribe, Recipients
  <2> QED
    BY <1>3, <2>1, <2>2, <2>3, <2>4, <2>5, <2>6 DEF Users, Ended
<1>4. CASE Crash \/ UNCHANGED vars
  BY <1>4 DEF Crash, vars
<1> QED
  BY <1>2, <1>3, <1>4, ScannerWrites, SchedulerWrites, WorkerWrites, WorkerTailWrites,
     CleanupWrites, NextDayWrites
  DEF Next, BackgroundWrites

\* A pipe, a handler or a cleanup that cancels was told to by a user's cancellation.
LEMMA CancelSource ==
    ASSUME TypeOK, [Next]_vars,
           user' = "cancelled" \/ clean' = "cancel" \/ pipe'.reason = "cancelled"
    PROVE  \/ user = "cancelled" \/ clean = "cancel" \/ pipe.reason = "cancelled"
           \/ UserStatus("cancelled")
<1>1. ASSUME PipeStep, user' = user, clean' = clean
      PROVE  user = "cancelled" \/ clean = "cancel" \/ pipe.reason = "cancelled"
  <2>1. pipe'.reason = "cancelled" => pipe.reason = "cancelled"
    BY <1>1 DEF PipeStep, Later, Automatic
  <2> QED
    BY <1>1, <2>1
<1>2. CASE Scanner
  <2>1. pipe' = pipe \/ pipe' = NewPipe \/ pipe' = Done(Stop(NewPipe, "pause", FALSE))
    BY <1>2 DEF Scanner, ScanSelect, ScanClaim, ScanReplyInvalid, ScanReset, ScanSync,
                ScanFinish, ScanStart, ScanStartFull, ScanStartFails
  <2>2. clean' = clean /\ user' = user
    BY <1>2 DEF Scanner, ScanSelect, ScanClaim, ScanReplyInvalid, ScanReset, ScanSync,
                ScanFinish, ScanStart, ScanStartFull, ScanStartFails
  <2>3. pipe'.reason = "cancelled" => pipe' = pipe
    BY <2>1, UnusedPipeFacts DEF NewPipe
  <2> QED
    BY <2>2, <2>3
<1>3. CASE Scheduler
  <2>1. user' = user /\ clean' = clean
    BY <1>3 DEF Scheduler, SchedStopped, SchedRead, SchedClaim, SchedFails, SchedNoSender,
                SchedDefer, SchedDeferFails, SchedPush, SchedRenderFails, SchedAbandon,
                SchedRequeue, SchedRequeueFull, SchedWake, SchedStopWaiting
  <2> QED
    BY <1>1, <1>3, <2>1, SchedulerPipe
<1>4. CASE \E r \in Recipients : Worker(r)
  <2>1. PICK r \in Recipients : Worker(r)
    BY <1>4
  <2>2. user' = user /\ clean' = clean
    BY <2>1 DEF Worker, WorkerTake, WorkerAccepted, WorkerSent, WorkerSentFails,
                WorkerFailed, WorkerFailedUnrecorded, WorkerBlocked, WorkerCancelled,
                WorkerRelease, WorkerReleaseFails, WorkerQuota, WorkerDefer, WorkerDeferFails
  <2> QED
    BY <1>1, <2>1, <2>2, WorkerPipe
<1>5. CASE WorkerTail
  <2>1. user' = user /\ clean' = clean
    BY <1>5 DEF WorkerTail, WorkerDone, WorkerError, WorkerMediaError
  <2> QED
    BY <1>1, <1>5, <2>1, WorkerTailPipe
<1>6. CASE Cleanup
  <2>1. user' = user /\ (pipe' = pipe \/ pipe' = NoPipe)
    BY <1>6 DEF Cleanup, CleanStart, CleanDecide, CleanErrors, CleanErrorsDone, CleanPause,
                CleanDefer, CleanCancel, CleanSmtp, CleanFinish, CleanFails, CleanReturn
  <2>2. clean' = "cancel" => CleanDecide
    BY <1>6 DEF Cleanup, CleanStart, CleanErrors, CleanErrorsDone, CleanPause,
                CleanDefer, CleanCancel, CleanSmtp, CleanFinish, CleanFails, CleanReturn
  <2>3. CleanDecide /\ clean' = "cancel" => pipe.reason = "cancelled"
    BY DEF CleanDecide, TypeOK, Pipe, PipeRecord, Reasons
  <2> QED
    BY <2>1, <2>2, <2>3, UnusedPipeFacts DEF NoPipe
<1>7. CASE Users
  <2>1. ASSUME NEW to \in CampaignStatuses, UserStatus(to)
        PROVE  pipe' = pipe /\ clean' = clean /\ (user' = "cancelled" => UserStatus("cancelled"))
    BY <2>1 DEF UserStatus
  <2>2. CASE UserStop \/ SmtpStop
    <3>1. user' = "cancelled" => user = "cancelled"
      BY <2>2 DEF UserStop, SmtpStop
    <3>2. clean' = clean
      BY <2>2 DEF UserStop, SmtpStop
    <3>3. PICK why \in {"pause", "cancelled"} :
            pipe' = StopCampaign(pipe, why) /\ (why = "cancelled" => user = "cancelled")
      BY <2>2 DEF UserStop, SmtpStop
    <3>4. pipe' = pipe \/ pipe'.reason = why
      BY <3>3, StopCampaignStands DEF TypeOK, StopCampaign
    <3> QED
      BY <3>1, <3>2, <3>3, <3>4
  <2>3. CASE UserRetry \/ Undeliverable \/ RemoveRecipient \/ PoolUnsubscribe \/ SmtpRemove
    BY <2>3 DEF UserRetry, Undeliverable, RemoveRecipient, PoolUnsubscribe, SmtpRemove
  <2> QED
    BY <1>7, <2>1, <2>2, <2>3 DEF Users
<1>8. CASE Crash
  BY <1>8, UnusedPipeFacts DEF Crash, NoPipe
<1>9. CASE NextDay \/ UNCHANGED vars
  BY <1>9 DEF NextDay, vars
<1> QED
  BY <1>2, <1>3, <1>4, <1>5, <1>6, <1>7, <1>8, <1>9 DEF Next

LEMMA CancelledStatus ==
    ASSUME TypeOK, UserStatus("cancelled")
    PROVE  db'.status = "cancelled"
BY ManualStatusFacts DEF UserStatus, TypeOK, CampaignStatuses

\* In a campaign that has not ended only excluded contacts become cancelled.
LEMMA Uncancelled ==
    ASSUME TypeOK, EndedRows, [Next]_vars, db'.status \notin Ended
    PROVE  \A r \in db'.deliverable : db'.rcpt[r] = "cancelled" => db.rcpt[r] = "cancelled"
<1>1. db \in DB /\ db.deliverable \in SUBSET Recipients
  BY DEF TypeOK, DB
<1>2. db'.deliverable \in SUBSET Recipients /\ db.status \notin Ended
  BY <1>1, NextCounted, EndedForever
<1>3. ASSUME Eases(db, db') PROVE \A r \in db'.deliverable : db'.rcpt[r] = "cancelled" => db.rcpt[r] = "cancelled"
  BY <1>2, <1>3 DEF Eases
<1>4. CASE Scanner
  BY <1>3, <1>4, ScannerKeeps DEF Keeps
<1>5. CASE Scheduler
  <2>1. ASSUME NEW batch, db' = Claim(db, batch)
        PROVE  \A r \in Recipients : db'.rcpt[r] = "cancelled" => db.rcpt[r] = "cancelled"
    BY <1>1, <2>1, ClaimOnly
  <2>2. CASE SchedRenderFails
    BY <1>2, <2>2, RenderFacts DEF Only
  <2> QED
    BY <1>2, <1>3, <1>5, <2>1, <2>2, SchedulerKeeps DEF Keeps
<1>6. CASE \E r \in Recipients : Worker(r)
  <2>1. PICK r \in Recipients : Worker(r)
    BY <1>6
  <2>2. CASE WorkerSent(r) \/ WorkerRelease(r)
    <3>1. Only(db, db', r) /\ (db'.rcpt[r] = "cancelled" => db.rcpt[r] = "cancelled")
      BY <1>1, <2>2, MarkSentOnly, MarkPendingOnly DEF WorkerSent, WorkerRelease
    <3> QED
      BY <1>2, <3>1 DEF Only
  <2> QED
    BY <1>3, <2>1, <2>2, WorkerKeeps DEF Keeps
<1>7. CASE Cleanup
  BY <1>2, <1>3, <1>7, CleanupKeeps DEF EndedRows
<1>8. CASE Users
  <2>1. CASE \E to \in CampaignStatuses : UserStatus(to)
    <3>1. PICK to \in CampaignStatuses : UserStatus(to)
      BY <2>1
    <3>2. db' = ManualStatus(db, to) /\ to # "cancelled"
      BY <3>1, CancelledStatus DEF UserStatus, Ended
    <3>3. db'.rcpt = db.rcpt
      BY <1>1, <3>2, ManualStatusOnly
    <3> QED
      BY <3>3
  <2>2. CASE PoolUnsubscribe
    <3>1. PICK r \in Pool : db' = UnsubscribePool(db, r)
      BY <2>2 DEF PoolUnsubscribe
    <3>2. r \in Recipients
      BY DEF Recipients
    <3>3. db'.deliverable = db.deliverable \ {r} /\ Only(db, db', r)
      BY <1>1, <3>1, <3>2, UnsubscribePoolOnly
    <3> QED
      BY <1>1, <3>3 DEF Only
  <2>3. CASE SmtpRemove
    BY <1>1, <1>3, <2>3, HaltKeeps DEF SmtpRemove, Keeps
  <2>4. CASE UserStop \/ SmtpStop \/ UserRetry \/ Undeliverable \/ RemoveRecipient
    <3>1. db'.rcpt = db.rcpt
      BY <1>1, <2>4 DEF UserStop, SmtpStop, UserRetry, Undeliverable, RemoveRecipient,
                        RetrySelected, Remove, DB
    <3> QED
      BY <3>1
  <2> QED
    BY <1>8, <2>1, <2>2, <2>3, <2>4 DEF Users
<1>9. CASE WorkerTail \/ NextDay \/ Crash \/ UNCHANGED vars
  <2>1. db'.rcpt = db.rcpt
    BY <1>1, <1>9 DEF WorkerTail, WorkerDone, WorkerError, WorkerMediaError, NextDay, Crash, vars, DB
  <2> QED
    BY <2>1
<1> QED
  BY <1>4, <1>5, <1>6, <1>7, <1>8, <1>9 DEF Next

\* Whoever is open was open before.
LEMMA OpenShrinks ==
    ASSUME TypeOK, EndedRows, [Next]_vars, db'.status \notin Ended
    PROVE  Open' \subseteq Open
<1>1. db \in DB /\ db' \in DB
  BY TypeStep DEF TypeOK
<1> SUFFICES ASSUME NEW r \in Open' PROVE r \in Open
  OBVIOUS
<1>2. r \in Recipients /\ r \in db'.deliverable /\ db'.rcpt[r] \in Unsent
  BY DEF Open, In
<1>3. r \in db.deliverable /\ db.rcpt[r] \notin {"sent", "failed"}
  BY <1>2, NextCounted, NextWrites DEF Settles, Unsent
<1>4. db.rcpt[r] # "cancelled"
  BY <1>2, <1>3, EndedForever DEF EndedRows
<1>5. db.rcpt[r] \in Unsent
  BY <1>1, <1>2, <1>3, <1>4 DEF DB, RecipientStatuses, Unsent
<1> QED
  BY <1>2, <1>3, <1>5 DEF Open, In

\* Only a claim holds somebody new.
LEMMA HoldsFewer ==
    ASSUME TypeOK, [Next]_vars, ~SchedClaim, ~SchedPush
    PROVE  /\ claim'.batch \subseteq claim.batch
           /\ \A r \in Recipients :
                /\ msg'[r] # "none" => msg[r] # "none"
                /\ msg'[r] \in {"queued", "sending"} => msg[r] \in {"queued", "sending"}
                /\ msg'[r] = "accepted" => msg[r] \in {"sending", "accepted"}
<1>1. msg \in [Recipients -> Msgs]
  BY DEF TypeOK
<1>2. ASSUME claim' = claim, msg' = msg
      PROVE  /\ claim'.batch \subseteq claim.batch
             /\ \A r \in Recipients :
                  /\ msg'[r] # "none" => msg[r] # "none"
                  /\ msg'[r] \in {"queued", "sending"} => msg[r] \in {"queued", "sending"}
                  /\ msg'[r] = "accepted" => msg[r] \in {"sending", "accepted"}
  BY <1>2
<1>3. CASE Scheduler
  <2>1. msg' = msg
    BY <1>3 DEF Scheduler, SchedStopped, SchedRead, SchedFails, SchedNoSender,
                SchedDefer, SchedDeferFails, SchedRenderFails, SchedAbandon,
                SchedRequeue, SchedRequeueFull, SchedWake, SchedStopWaiting
  <2>2. CASE SchedRenderFails
    <3>1. claim'.batch \subseteq claim.batch
      BY <2>2, RenderFacts
    <3> QED
      BY <2>1, <3>1
  <2>3. CASE SchedRead
    <3>1. claim'.batch = {}
      BY <2>3 DEF SchedRead, ReleaseSched, NoClaim
    <3> QED
      BY <2>1, <3>1
  <2>4. CASE claim' = NoClaim \/ claim' = claim
    BY <2>1, <2>4 DEF NoClaim
  <2>5. SchedRenderFails \/ SchedRead \/ claim' = NoClaim \/ claim' = claim
    BY <1>3 DEF Scheduler, SchedStopped, SchedFails, SchedNoSender, SchedDefer,
                SchedDeferFails, SchedAbandon, SchedRequeue, SchedRequeueFull,
                SchedWake, SchedStopWaiting, ReleaseSched
  <2> QED
    BY <2>2, <2>3, <2>4, <2>5
<1>4. CASE \E r \in Recipients : Worker(r)
  <2>1. PICK r \in Recipients : Worker(r)
    BY <1>4
  <2>2. /\ claim' = claim
        /\ \A q \in Recipients \ {r} : msg'[q] = msg[q]
        /\ msg'[r] # "none" => msg[r] # "none"
        /\ msg'[r] \in {"queued", "sending"} => msg[r] \in {"queued", "sending"}
        /\ msg'[r] = "accepted" => msg[r] \in {"sending", "accepted"}
    BY <1>1, <2>1 DEF Worker, WorkerTake, WorkerAccepted, WorkerSent, WorkerSentFails,
                WorkerFailed, WorkerFailedUnrecorded, WorkerBlocked, WorkerCancelled,
                WorkerRelease, WorkerReleaseFails, WorkerQuota, WorkerDefer, WorkerDeferFails
  <2> QED
    BY <2>2
<1>5. CASE Scanner
  BY <1>2, <1>5 DEF Scanner, ScanSelect, ScanClaim, ScanReplyInvalid, ScanReset, ScanSync,
                    ScanFinish, ScanStart, ScanStartFull, ScanStartFails
<1>6. CASE Cleanup
  BY <1>2, <1>6 DEF Cleanup, CleanStart, CleanDecide, CleanErrors, CleanErrorsDone, CleanPause,
                    CleanDefer, CleanCancel, CleanSmtp, CleanFinish, CleanFails
<1>7. CASE Users
  BY <1>2, <1>7 DEF Users, UserStatus, UserStop, UserRetry, Undeliverable, RemoveRecipient,
                    PoolUnsubscribe, SmtpRemove, SmtpStop
<1>8. CASE WorkerTail \/ NextDay \/ UNCHANGED vars
  BY <1>2, <1>8 DEF WorkerTail, WorkerDone, WorkerError, WorkerMediaError, NextDay, vars
<1>9. CASE Crash
  BY <1>9 DEF Crash, NoClaim, NoMsgs
<1> QED
  BY <1>3, <1>4, <1>5, <1>6, <1>7, <1>8, <1>9 DEF Next

\* A push turns a claim into a message.
LEMMA PushHolds ==
    ASSUME TypeOK, Rows, SchedPush
    PROVE  /\ \E r \in claim.batch :
                /\ r \in Recipients /\ msg[r] = "none" /\ msg' = [msg EXCEPT ![r] = "queued"]
                /\ claim'.batch = claim.batch \ {r}
           /\ db' = db /\ used' = used /\ sched' = sched /\ tail' = tail /\ clean' = clean
           /\ scan' = scan /\ user' = user /\ smtp' = smtp /\ claim'.n = claim.n
           /\ OnTheWay' = OnTheWay /\ Held' = Held
           /\ claim'.batch \cup InFlight' = claim.batch \cup InFlight
<1>1. PICK r \in claim.batch : /\ msg' = [msg EXCEPT ![r] = "queued"]
                               /\ claim' = [claim EXCEPT !.batch = @ \ {r}]
  BY DEF SchedPush
<1>2. /\ r \in Recipients /\ msg[r] = "none"
      /\ claim'.batch = claim.batch \ {r} /\ claim'.n = claim.n
  BY <1>1 DEF TypeOK, Claims, Rows, NoOverlap, InFlight
<1>3. /\ db' = db /\ used' = used /\ sched' = sched /\ tail' = tail /\ clean' = clean
      /\ scan' = scan /\ user' = user /\ smtp' = smtp
  BY DEF SchedPush
<1>4. \A q \in Recipients : msg'[q] = IF q = r THEN "queued" ELSE msg[q]
  BY <1>1 DEF TypeOK
<1>5. OnTheWay' = OnTheWay /\ Held' = Held
  BY <1>2, <1>4 DEF OnTheWay, Held
<1>6. claim'.batch \cup InFlight' = claim.batch \cup InFlight
  BY <1>2, <1>4 DEF InFlight
<1> QED
  BY <1>1, <1>2, <1>3, <1>5, <1>6

\* A claim takes claimable recipients of a running campaign into an empty batch.
LEMMA ClaimHolds ==
    ASSUME TypeOK, Counts, SchedClaim
    PROVE  /\ claim'.batch \in SUBSET Claimable(db) /\ IsClaim(db, claim.n, claim'.batch)
           /\ db' = Claim(db, claim'.batch)
           /\ claim'.batch # {} => db.status = "running"
           /\ msg' = msg /\ claim.batch = {} /\ used' = used /\ sched = "claim"
           /\ sched' = IF claim'.batch # {} THEN "push" ELSE IF claim.hadQueued THEN "waiting" ELSE "none"
           /\ tail' = tail /\ clean' = clean /\ scan' = scan /\ user' = user /\ smtp' = smtp
<1>1. PICK batch \in SUBSET Recipients :
        /\ IsClaim(db, claim.n, batch) /\ db' = Claim(db, batch)
        /\ batch # {} => claim' = [claim EXCEPT !.batch = batch] /\ sched' = "push"
        /\ batch = {} => /\ claim' = NoClaim
                         /\ sched' = IF claim.hadQueued THEN "waiting" ELSE "none"
  BY DEF SchedClaim, ReleaseSched
<1>2. claim'.batch = batch
  <2>1. claim' = [claim EXCEPT !.batch = batch] \/ (batch = {} /\ claim' = NoClaim)
    BY <1>1, Zenon
  <2> QED
    BY <2>1 DEF TypeOK, Claims, NoClaim
<1>3. /\ msg' = msg /\ used' = used /\ sched = "claim" /\ claim.batch = {}
      /\ tail' = tail /\ clean' = clean /\ scan' = scan /\ user' = user /\ smtp' = smtp
  BY DEF SchedClaim, Counts, PipeAlone
<1>4. batch \in SUBSET Claimable(db) /\ (batch # {} => db.status = "running")
  BY <1>1 DEF IsClaim
<1> QED
  BY <1>1, <1>2, <1>3, <1>4

\* Scheduler and workers only defer a running campaign.
LEMMA WorkingStatus ==
    ASSUME TypeOK,
           Scheduler \/ (\E r \in Recipients : Worker(r)) \/ WorkerTail \/ NextDay \/ Crash
             \/ UNCHANGED vars
    PROVE  db'.status = db.status \/ (db.status = "running" /\ db'.status = "deferred")
<1>1. db \in DB /\ used.day + 1 \in Nat
  BY DEF TypeOK, Uses
<1>2. Defer(db, used.day + 1).status = "deferred"
  BY <1>1, DeferFacts
<1>3. ASSUME NEW batch, db' = Claim(db, batch) PROVE db'.status = db.status
  BY <1>1, <1>3, SetRowsColumns DEF Claim
<1>4. CASE Scheduler
  <2>1. \/ db' = db \/ (db.status = "running" /\ db' = Defer(db, used.day + 1))
        \/ SchedRenderFails
        \/ \E batch \in SUBSET Recipients : db' = Claim(db, batch)
    BY <1>4 DEF Scheduler, SchedStopped, SchedRead, SchedClaim, SchedFails, SchedNoSender,
                SchedDefer, SchedDeferFails, SchedPush, SchedAbandon, SchedRequeue,
                SchedRequeueFull, SchedWake, SchedStopWaiting
  <2> QED
    BY <1>2, <1>3, <2>1, RenderFacts
<1>5. CASE \E r \in Recipients : Worker(r)
  <2>1. PICK r \in Recipients : Worker(r)
    BY <1>5
  <2>2. \/ db' = db \/ (db.status = "running" /\ db' = Defer(db, used.day + 1))
        \/ db' = MarkSent(db, r) \/ db' = MarkPending(db, r) \/ db' = RecordFailure(db, r)
    BY <2>1 DEF Worker, WorkerTake, WorkerAccepted, WorkerSent, WorkerSentFails, WorkerFailed,
                WorkerFailedUnrecorded, WorkerBlocked, WorkerCancelled, WorkerRelease,
                WorkerReleaseFails, WorkerQuota, WorkerDefer, WorkerDeferFails
  <2>3. /\ MarkSent(db, r).status = db.status /\ MarkPending(db, r).status = db.status
        /\ RecordFailure(db, r).status = db.status
    BY <1>1, MarkSentFacts, MarkPendingFacts, RecordFailureFacts
  <2> QED
    BY <1>2, <2>2, <2>3
<1>6. CASE WorkerTail \/ NextDay \/ Crash \/ UNCHANGED vars
  BY <1>1, <1>6 DEF WorkerTail, WorkerDone, WorkerError, WorkerMediaError, NextDay, Crash,
                    vars, DB
<1> QED
  BY <1>4, <1>5, <1>6

LEMMA EndedStep ==
    ASSUME TypeOK, Counts, Rows, EndedRows, [Next]_vars
    PROVE  EndedRows'
<1>1. db \in DB /\ db' \in DB
  BY TypeStep DEF TypeOK
<1>2. ASSUME user' = "cancelled" \/ clean' = "cancel" \/ pipe'.reason = "cancelled"
      PROVE  db'.status \in Ended
  BY <1>2, CancelSource, CancelledStatus, EndedForever DEF EndedRows, Ended
<1>3. ASSUME db'.status \notin Ended
      PROVE  /\ \A r \in db'.deliverable : db'.rcpt[r] # "cancelled"
             /\ \A r \in Open' : ~Exhausted(db', r)
  <2>1. db.status \notin Ended /\ db'.deliverable \subseteq db.deliverable
    BY <1>3, EndedForever, NextCounted
  <2>2. \A r \in db'.deliverable : db'.rcpt[r] # "cancelled"
    BY <1>3, <2>1, Uncancelled DEF EndedRows
  <2>3. ASSUME NEW r \in Open' PROVE ~Exhausted(db', r)
    <3>1. r \in Open /\ r \in Recipients /\ db'.rcpt[r] \in Unsent /\ db.rcpt[r] # "cancelled"
      BY <1>3, OpenShrinks DEF Open, In, Unsent
    <3>2. ~Exhausted(db, r)
      BY <2>1, <3>1 DEF EndedRows
    <3>3. db'.fails[r] = db.fails[r] => ~Exhausted(db', r)
      BY <3>2 DEF Exhausted
    <3> QED
      BY <3>1, <3>3, FailsCounted
  <2> QED
    BY <2>2, <2>3
<1>4. ASSUME db'.status = "finished" PROVE claim'.batch = {} /\ InFlight' = {}
  <2>1. CASE SchedPush
    BY <1>4, <2>1, PushHolds DEF EndedRows
  <2>2. CASE SchedClaim
    <3>1. db'.status = db.status
      BY <1>1, <2>2, ClaimHolds, SetRowsColumns DEF Claim
    <3> QED
      BY <1>4, <2>2, <3>1, ClaimHolds DEF EndedRows, InFlight
  <2>3. CASE ~SchedPush /\ ~SchedClaim
    <3>1. InFlight' \subseteq InFlight /\ claim'.batch \subseteq claim.batch
      BY <2>3, HoldsFewer DEF InFlight
    <3>2. CASE db.status = "finished"
      BY <3>1, <3>2 DEF EndedRows
    <3>3. CASE db.status # "finished"
      <4>1. scan.at # "idle" \/ clean # "none"
        <5>1. CASE Scanner
          BY <1>4, <3>3, <5>1 DEF Scanner, ScanSelect, ScanClaim, ScanReplyInvalid, ScanReset,
             ScanSync, ScanFinish, ScanStart, ScanStartFull, ScanStartFails
        <5>2. CASE Cleanup
          BY <1>4, <3>3, <5>2 DEF Cleanup, CleanStart, CleanDecide, CleanErrors, CleanErrorsDone,
             CleanPause, CleanDefer, CleanCancel, CleanSmtp, CleanFinish, CleanFails
        <5>3. CASE Users
          <6>1. ASSUME NEW to \in CampaignStatuses, UserStatus(to) PROVE db'.status # "finished"
            <7>1. to # "finished" /\ db' = ManualStatus(db, to)
              BY <6>1 DEF UserStatus, MayBecome, CampaignStatuses
            <7> QED
              BY <1>1, <7>1, ManualStatusOnly
          <6>2. CASE UserRetry
            BY <1>1, <1>4, <6>2, RetrySelectedOnly DEF UserRetry
          <6>3. CASE SmtpRemove
            BY <1>1, <1>4, <3>3, <6>3, PauseForSMTPFacts, HaltKeeps
            DEF SmtpRemove, PauseForSMTP, ResetQueued, SetRows, DB
          <6>4. CASE PoolUnsubscribe
            BY <1>1, <1>4, <3>3, <6>4, UnsubscribePoolFacts DEF PoolUnsubscribe, Recipients
          <6>5. CASE UserStop \/ SmtpStop \/ Undeliverable \/ RemoveRecipient
            BY <1>1, <1>4, <3>3, <6>5 DEF UserStop, SmtpStop, Undeliverable, RemoveRecipient, Remove, DB
          <6> QED
            BY <1>4, <5>3, <6>1, <6>2, <6>3, <6>4, <6>5 DEF Users
        <5>4. CASE Scheduler \/ (\E r \in Recipients : Worker(r)) \/ WorkerTail \/ NextDay
                   \/ Crash \/ UNCHANGED vars
          BY <1>4, <3>3, <5>4, WorkingStatus
        <5> QED
          BY <5>1, <5>2, <5>3, <5>4 DEF Next
      <4> QED
        BY <3>1, <4>1, Quiet
    <3> QED
      BY <3>2, <3>3
  <2> QED
    BY <2>1, <2>2, <2>3
<1> QED
  BY <1>2, <1>3, <1>4 DEF EndedRows

-----------------------------------------------------------------------------
(* Queued rows. *)

Queued == In(db, {"queued"})
Taken == claim.batch \cup InFlight

LEMMA QueuesNobody ==
    ASSUME TypeOK, [Next]_vars, ~SchedClaim, ~SchedFails
    PROVE  Queued' \subseteq Queued
<1>1. db \in DB
  BY DEF TypeOK
<1>2. ASSUME ClaimsNobody(db, db') PROVE Queued' \subseteq Queued
  BY <1>2 DEF ClaimsNobody, Queued, In
<1>3. ASSUME Eases(db, db') PROVE ClaimsNobody(db, db')
  BY <1>3 DEF Eases, ClaimsNobody
<1>4. CASE Scanner
  BY <1>2, <1>3, <1>4, ScannerKeeps DEF Keeps
<1>5. CASE Scheduler
  <2>1. db' = db \/ db' = Defer(db, used.day + 1) \/ SchedRenderFails
    BY <1>5 DEF Scheduler, SchedStopped, SchedRead, SchedNoSender, SchedDefer, SchedDeferFails,
                SchedPush, SchedAbandon, SchedRequeue, SchedRequeueFull, SchedWake,
                SchedStopWaiting
  <2>2. used.day + 1 \in Nat
    BY DEF TypeOK, Uses
  <2> QED
    BY <1>1, <1>2, <2>1, <2>2, DeferFacts, RenderFacts, Unwritten DEF Settling
<1>6. CASE \E r \in Recipients : Worker(r)
  BY <1>1, <1>2, <1>3, <1>6, WorkerKeeps, MarkSentFacts, MarkPendingFacts
  DEF Keeps, WorkerSent, WorkerRelease, Settling
<1>7. CASE Cleanup
  BY <1>2, <1>3, <1>7, CleanupKeeps DEF ClaimsNobody
<1>8. CASE Users
  BY <1>2, <1>8, UsersWrites
<1>9. CASE WorkerTail \/ NextDay \/ Crash \/ UNCHANGED vars
  <2>1. db'.rcpt = db.rcpt
    BY <1>1, <1>9 DEF WorkerTail, WorkerDone, WorkerError, WorkerMediaError, NextDay, Crash, vars, DB
  <2> QED
    BY <2>1 DEF Queued, In
<1> QED
  BY <1>4, <1>5, <1>6, <1>7, <1>8, <1>9 DEF Next

\* Nothing was lost in the step either.
LEMMA FaultlessStep ==
    ASSUME TypeOK, [Next]_vars, Faultless'
    PROVE  Faultless /\ ~Spend("faults") /\ ~Spend("crashes") /\ used'.faults = 0
<1>1. used.faults \in Nat /\ used.crashes \in Nat
  BY DEF TypeOK, Uses
<1>2. used'.faults = 0 /\ used'.crashes = 0
  BY DEF Faultless
<1>3. Faultless
  BY <1>1, <1>2, NextSpends DEF Faultless
<1>4. ~Spend("faults") /\ ~Spend("crashes")
  BY <1>1, <1>2 DEF Spend, TypeOK, Uses
<1> QED
  BY <1>2, <1>3, <1>4

LEMMA SmtpReason ==
    ASSUME TypeOK, [Next]_vars, Faultless', pipe.reason = "smtp" => used.smtp > 0
    PROVE  pipe'.reason = "smtp" => used'.smtp > 0
<1>1. used.smtp \in Nat /\ used'.smtp \in Nat /\ used'.smtp >= used.smtp
  BY NextSpends DEF TypeOK, Uses
<1>2. ASSUME PipeStep PROVE pipe'.reason = "smtp" => used'.smtp > 0
  BY <1>1, <1>2, FaultlessStep DEF PipeStep
<1>3. CASE Scheduler \/ WorkerTail \/ (\E r \in Recipients : Worker(r))
  BY <1>2, <1>3, SchedulerPipe, WorkerPipe, WorkerTailPipe
<1>4. CASE Scanner
  <2>1. pipe' = pipe \/ pipe' = NewPipe \/ pipe' = Done(Stop(NewPipe, "pause", FALSE))
    BY <1>4 DEF Scanner, ScanSelect, ScanClaim, ScanReplyInvalid, ScanReset, ScanSync,
                ScanFinish, ScanStart, ScanStartFull, ScanStartFails
  <2>2. pipe'.reason = "smtp" => pipe' = pipe
    BY <2>1, UnusedPipeFacts DEF NewPipe
  <2> QED
    BY <1>1, <2>2
<1>5. CASE Cleanup \/ Crash
  <2>1. pipe' = pipe \/ pipe' = NoPipe
    BY <1>5 DEF Cleanup, CleanStart, CleanDecide, CleanErrors, CleanErrorsDone, CleanPause,
                CleanDefer, CleanCancel, CleanSmtp, CleanFinish, CleanFails, CleanReturn, Crash
  <2>2. NoPipe.reason = "none"
    BY DEF NoPipe, UnusedPipe
  <2> QED
    BY <1>1, <2>1, <2>2
<1>6. CASE Users
  <2>1. pipe' = pipe \/ \E why \in {"pause", "cancelled"} : pipe' = StopCampaign(pipe, why)
    BY <1>6 DEF Users, UserStatus, UserStop, UserRetry, Undeliverable, RemoveRecipient,
                PoolUnsubscribe, SmtpRemove, SmtpStop
  <2>2. pipe' = pipe \/ pipe'.reason \in {"pause", "cancelled"}
    BY <2>1, StopCampaignStands DEF TypeOK, StopCampaign
  <2> QED
    BY <1>1, <2>2
<1>7. CASE NextDay \/ UNCHANGED vars
  BY <1>1, <1>7 DEF NextDay, vars
<1> QED
  BY <1>3, <1>4, <1>5, <1>6, <1>7 DEF Next

\* A halt or an end leaves no row queued.
LEMMA EmptyQueue ==
    ASSUME TypeOK, Counts, Halted, PipeObeys, QueuedHeld, [Next]_vars, Faultless',
           \/ used'.smtp > 0
           \/ clean' = "errorsDone"
           \/ MaxUserOps = 0 /\ db'.status \notin Active
    PROVE  Queued' = {}
<1>1. db \in DB /\ Faultless /\ ~Spend("faults") /\ used.smtp \in Nat /\ used.ops \in Nat
  BY FaultlessStep DEF TypeOK, Uses
<1>2. ASSUME Queued = {}, ~SchedClaim PROVE Queued' = {}
  BY <1>1, <1>2, QueuesNobody DEF SchedFails
<1>3. \/ used.smtp > 0 \/ clean = "errorsDone" \/ (MaxUserOps = 0 /\ db.status \notin Active)
      => Queued = {}
  BY <1>1 DEF QueuedHeld, Queued, Active
<1>4. SchedClaim => clean = "none" /\ clean' = clean /\ used' = used /\ db'.status = db.status
  BY <1>1, SomebodyLeft, SetRowsColumns DEF SchedClaim, Claim
<1>5. SchedClaim /\ db.status # "running" => Queued' = Queued
  <2> SUFFICES ASSUME SchedClaim, db.status # "running" PROVE Queued' = Queued
    OBVIOUS
  <2>1. claim'.batch = {} /\ db' = Claim(db, {})
    BY ClaimHolds
  <2> QED
    BY <1>1, <2>1, ClaimOnly DEF Queued, In
<1>6. ASSUME used.smtp > 0 \/ (MaxUserOps = 0 /\ db.status \notin Active)
      PROVE  Queued' = {}
  BY <1>2, <1>3, <1>5, <1>6 DEF Halted, Active
<1>7. CASE clean = "errorsDone"
  BY <1>2, <1>3, <1>4, <1>7
<1>8. ASSUME used.smtp = 0, clean # "errorsDone", MaxUserOps > 0 \/ db.status \in Active
      PROVE  Queued' = {}
  <2>1. ASSUME ~pipe.stopped, scan.at # "idle" \/ clean # "none" PROVE Queued = {}
    <3>1. Queued \subseteq claim.batch \cup InFlight
      BY <1>1, <2>1 DEF QueuedHeld, Queued
    <3> QED
      BY <2>1, <3>1, Quiet
  <2>2. CASE SmtpRemove
    <3>1. MaxUserOps = 0
      BY <2>2, SenderAssumption, OneMessageAssumption DEF SmtpRemove, SenderAssumption, OneMessageAssumption, TypeOK, Uses
    <3>2. db.status \in Active /\ db' = PauseForSMTP(db)
      BY <1>8, <2>2, <3>1 DEF SmtpRemove
    <3> QED
      BY <1>1, <3>2, HaltKeeps DEF Queued
  <2>3. CASE CleanErrors
    <3>1. CASE pipe.withErrors
      <4> DEFINE s == ResetQueued(db, "pending")
      <4>1. s \in DB /\ In(s, {"queued"}) = {}
        BY <1>1, ResetQueuedFacts, ResetKeeps DEF Waiting
      <4>2. db' = PauseRunning(s)
        BY <2>3, <3>1 DEF CleanErrors
      <4> HIDE DEF s
      <4>3. db'.rcpt = s.rcpt
        BY <4>1, <4>2, StatusFacts
      <4> QED
        BY <4>1, <4>3 DEF Queued, In
    <3>2. CASE ~pipe.withErrors
      <4>1. db' = db /\ clean' = "top" /\ used' = used
        BY <2>3, <3>2 DEF CleanErrors
      <4> QED
        BY <1>6, <1>8, <4>1
    <3> QED
      BY <3>1, <3>2
  <2>4. CASE ~SmtpRemove /\ ~CleanErrors
    <3>1. used'.smtp = used.smtp
      <4>1. CASE Background
        BY <1>1, <4>1, BackgroundSpends
      <4>2. CASE Users
        BY <2>4, <4>2, SpendSmtp DEF Users, UserStatus, UserStop, UserRetry, Undeliverable,
           RemoveRecipient, PoolUnsubscribe, SmtpStop
      <4>3. CASE NextDay \/ Crash \/ UNCHANGED vars
        BY <4>3, SpendSmtp DEF NextDay, Crash, vars
      <4> QED
        BY <4>1, <4>2, <4>3 DEF Next, Background
    <3>2. clean' # "errorsDone"
      <4>1. CASE Scanner
        BY <1>8, <4>1 DEF Scanner, ScanSelect, ScanClaim, ScanReplyInvalid, ScanReset, ScanSync,
                    ScanFinish, ScanStart, ScanStartFull, ScanStartFails
      <4>2. CASE Scheduler
        BY <1>8, <4>2 DEF Scheduler, SchedStopped, SchedRead, SchedClaim, SchedFails, SchedNoSender,
                    SchedDefer, SchedDeferFails, SchedPush, SchedRenderFails, SchedAbandon,
                    SchedRequeue, SchedRequeueFull, SchedWake, SchedStopWaiting
      <4>3. CASE \E r \in Recipients : Worker(r)
        BY <1>8, <4>3 DEF Worker, WorkerTake, WorkerAccepted, WorkerSent, WorkerSentFails,
                    WorkerFailed, WorkerFailedUnrecorded, WorkerBlocked, WorkerCancelled,
                    WorkerRelease, WorkerReleaseFails, WorkerQuota, WorkerDefer, WorkerDeferFails
      <4>4. CASE WorkerTail \/ NextDay \/ Crash \/ UNCHANGED vars
        BY <1>8, <4>4 DEF WorkerTail, WorkerDone, WorkerError, WorkerMediaError, NextDay, Crash, vars
      <4>5. CASE Cleanup
        BY <1>1, <1>8, <2>4, <4>5 DEF Cleanup, CleanStart, CleanDecide, CleanErrors, CleanErrorsDone,
           CleanPause, CleanDefer, CleanCancel, CleanSmtp, CleanFinish, CleanFails, CleanReturn,
           TypeOK, Pipe, PipeRecord, Reasons
      <4>6. CASE Users
        BY <1>8, <4>6 DEF Users, UserStatus, UserStop, UserRetry, Undeliverable, RemoveRecipient,
                    PoolUnsubscribe, SmtpRemove, SmtpStop
      <4> QED
        BY <4>1, <4>2, <4>3, <4>4, <4>5, <4>6 DEF Next
    <3>3. MaxUserOps = 0 /\ db'.status \notin Active /\ db.status \in Active
      BY <1>8, <3>1, <3>2
    <3>4. CASE Users
      <4>1. ~OpLeft
        BY <1>1, <3>3 DEF OpLeft
      <4>2. db'.status = db.status
        BY <1>1, <2>4, <3>4, <4>1, UnsubscribePoolFacts DEF Users, UserStatus, UserStop, UserRetry,
           Undeliverable, RemoveRecipient, PoolUnsubscribe, SmtpStop, Remove, DB, Recipients
      <4> QED
        BY <3>3, <4>2
    <3>5. CASE Scanner
      <4>1. \/ db'.status \in Active
            \/ db' = StartFailure(db, scan.from) /\ db.status = "running"
            \/ ScanFinish
        <5>1. LET e == ExhaustRetries(ResetPrivateQueued(db)) IN e.status = db.status
          BY <1>1, ExhaustRetriesFacts, ResetPrivateQueuedFacts
        <5>2. SetRunning(db).status = "running"
          BY <1>1, StatusFacts
        <5> QED
          BY <3>3, <3>5, <5>1, <5>2
          DEF Scanner, ScanSelect, ScanClaim, ScanReplyInvalid, ScanReset, ScanSync,
              ScanStart, ScanStartFull, ScanStartFails, StartFailure, Active
      <4>2. CASE ScanFinish
        <5>1. ~pipe.stopped
          BY <4>2, Unregistered DEF ScanFinish, Counts, PipeAlone
        <5>2. scan.at # "idle"
          BY <4>2 DEF ScanFinish
        <5>3. Queued = {}
          BY <2>1, <5>1, <5>2
        <5>4. db'.rcpt = db.rcpt
          BY <1>1, <4>2, StatusFacts DEF ScanFinish
        <5> QED
          BY <5>3, <5>4 DEF Queued, In
      <4> QED
        BY <1>1, <3>3, <4>1, <4>2, HaltKeeps DEF Queued
    <3>6. CASE Cleanup
      <4>1. \/ db'.status = db.status
            \/ db' = StartFailure(db, "running") /\ db.status = "running"
            \/ CleanFinish
        BY <1>1, <2>4, <3>6, ResetQueuedFacts, CancelUnsentFacts
        DEF Cleanup, CleanStart, CleanDecide, CleanErrorsDone, CleanPause, CleanDefer,
            CleanCancel, CleanSmtp, CleanFails, StartFailure, Waiting
      <4>2. CASE CleanFinish
        <5>1. pipe.stopped => db' = db
          BY <4>2 DEF CleanFinish
        <5>2. ~pipe.stopped /\ clean # "none"
          BY <3>3, <4>2, <5>1 DEF CleanFinish
        <5>3. ~SchedClaim
          BY <5>2, <1>4
        <5> QED
          BY <1>2, <2>1, <5>2, <5>3
      <4> QED
        BY <1>1, <3>3, <4>1, <4>2, HaltKeeps DEF Queued
    <3>7. CASE Scheduler \/ (\E r \in Recipients : Worker(r)) \/ WorkerTail \/ NextDay \/ Crash \/ UNCHANGED vars
      BY <3>3, <3>7, WorkingStatus DEF Active
    <3> QED
      BY <3>4, <3>5, <3>6, <3>7 DEF Next
  <2> QED
    BY <2>2, <2>3, <2>4
<1> QED
  BY <1>1, <1>6, <1>7, <1>8, SenderAssumption DEF SenderAssumption

\* What a worker lets go of is not queued, or its pipe is stopped.
LEMMA WorkerLetsGo ==
    ASSUME TypeOK, NEW r \in Recipients, Worker(r), ~Spend("faults")
    PROVE  msg'[r] # "none" \/ pipe'.stopped \/ db'.rcpt[r] # "queued"
<1>1. db \in DB /\ msg \in [Recipients -> Msgs] /\ pipe \in Pipe
  BY DEF TypeOK
<1>2. \A why, withErrors : Stop(pipe, why, withErrors).stopped
  BY <1>1 DEF Stop, Pipe, PipeRecord
<1>3. \A p \in Pipe : p.stopped => MessageDone(p).stopped
  BY DEF MessageDone, Done, Pipe, PipeRecord
<1>4. \A why \in {"pause", "smtp", "deferred"} : Stop(pipe, why, FALSE) \in Pipe
  BY <1>1, StopFacts DEF Reasons
<1>5. CASE WorkerTake(r)
  BY <1>1, <1>3, <1>5 DEF WorkerTake
<1>6. CASE WorkerAccepted(r) \/ WorkerFailed(r) \/ WorkerQuota(r)
  BY <1>1, <1>6 DEF WorkerAccepted, WorkerFailed, WorkerQuota
<1>7. CASE WorkerSent(r) \/ WorkerRelease(r)
  BY <1>1, <1>7, MarkSentOnly, MarkPendingOnly DEF WorkerSent, WorkerRelease
<1>8. CASE WorkerBlocked(r)
  BY <1>2, <1>3, <1>4, <1>8 DEF WorkerBlocked
<1>9. CASE WorkerCancelled(r)
  BY <1>1, <1>3, <1>9 DEF WorkerCancelled
<1>10. CASE WorkerDefer(r)
  <2> DEFINE d == [pipe EXCEPT !.deferred = TRUE]
  <2>1. d \in Pipe
    BY <1>1 DEF Pipe, PipeRecord
  <2>2. \/ pipe.stopped /\ pipe' = MessageDone(pipe)
        \/ \E why \in {"pause", "deferred"} : pipe' = MessageDone(Stop(pipe, why, FALSE))
        \/ pipe' = MessageDone(Stop(d, "deferred", FALSE))
    BY <1>10 DEF WorkerDefer
  <2> HIDE DEF d
  <2>3. LET s == Stop(d, "deferred", FALSE) IN s \in Pipe /\ s.stopped
    BY <2>1, StopFacts DEF Reasons, Stop, Pipe, PipeRecord
  <2> QED
    BY <1>1, <1>2, <1>3, <1>4, <2>2, <2>3
<1>11. CASE WorkerSentFails(r) \/ WorkerFailedUnrecorded(r) \/ WorkerReleaseFails(r) \/ WorkerDeferFails(r)
  BY <1>11 DEF WorkerSentFails, WorkerFailedUnrecorded, WorkerReleaseFails, WorkerDeferFails
<1> QED
  BY <1>5, <1>6, <1>7, <1>8, <1>9, <1>10, <1>11 DEF Worker

LEMMA QueuedGuarded ==
    ASSUME TypeOK, Counts, Rows, PipeObeys, QueuedHeld, [Next]_vars, Faultless'
    PROVE  pipe'.stopped \/ Queued' \subseteq Taken'
<1>1. db \in DB /\ Faultless /\ ~Spend("faults") /\ pipe \in Pipe /\ msg \in [Recipients -> Msgs]
  BY FaultlessStep DEF TypeOK
<1>2. pipe.stopped \/ Queued \subseteq Taken
  BY <1>1 DEF QueuedHeld, Queued, Taken
<1>3. ASSUME pipe.stopped => pipe'.stopped, Taken \subseteq Taken', ~SchedClaim
      PROVE  pipe'.stopped \/ Queued' \subseteq Taken'
  BY <1>1, <1>2, <1>3, QueuesNobody DEF SchedFails
<1>4. Taken' = Taken \/ claim' # claim \/ msg' # msg
  BY DEF Taken, InFlight
<1>5. CASE Scheduler
  <2>1. pipe.stopped => pipe'.stopped
    BY <1>5, SchedulerPipe DEF PipeStep, Later
  <2>2. CASE SchedClaim
    <3>1. Queued' \subseteq Queued \cup claim'.batch
      BY <1>1, <2>2, ClaimHolds, ClaimOnly DEF Queued, In
    <3>2. Taken' = Taken \cup claim'.batch
      BY <2>2, ClaimHolds DEF Taken, InFlight
    <3> QED
      BY <1>2, <2>1, <3>1, <3>2
  <2>3. CASE SchedPush
    BY <1>3, <2>1, <2>3, PushHolds DEF Taken, SchedClaim, SchedPush
  <2>4. CASE SchedAbandon
    BY <2>1, <2>4 DEF SchedAbandon
  <2>5. CASE ~SchedClaim /\ ~SchedPush /\ ~SchedAbandon
    <3>1. msg' = msg /\ claim.batch = {}
      BY <1>1, <1>5, <2>5 DEF Scheduler, SchedStopped, SchedRead, SchedFails, SchedNoSender,
         SchedDefer, SchedDeferFails, SchedRenderFails, SchedRequeue, SchedRequeueFull,
         SchedWake, SchedStopWaiting, Counts, PipeAlone
    <3> QED
      BY <1>3, <2>1, <2>5, <3>1 DEF Taken, InFlight
  <2> QED
    BY <2>2, <2>3, <2>4, <2>5
<1>6. CASE \E r \in Recipients : Worker(r)
  <2>1. PICK r \in Recipients : Worker(r)
    BY <1>6
  <2>2. PipeStep /\ (msg'[r] # "none" \/ pipe'.stopped \/ db'.rcpt[r] # "queued")
    BY <1>1, <2>1, WorkerPipe, WorkerLetsGo
  <2>3. pipe.stopped => pipe'.stopped
    BY <2>2 DEF PipeStep, Later
  <2>4. claim' = claim /\ (\A q \in Recipients \ {r} : msg'[q] = msg[q]) /\ msg[r] # "none"
    BY <1>1, <2>1 DEF Worker, WorkerTake, WorkerAccepted, WorkerSent, WorkerSentFails, WorkerFailed,
                WorkerFailedUnrecorded, WorkerBlocked, WorkerCancelled, WorkerRelease,
                WorkerReleaseFails, WorkerQuota, WorkerDefer, WorkerDeferFails
  <2>5. Queued' \subseteq Queued
    <3>1. ~SchedClaim /\ ~SchedFails
      <4>1. claim.batch \subseteq Recipients /\ InFlight # {}
        BY <2>4 DEF InFlight, TypeOK, Claims
      <4>2. sched' = sched
        BY <2>1 DEF Worker, WorkerTake, WorkerAccepted, WorkerSent, WorkerSentFails, WorkerFailed,
                WorkerFailedUnrecorded, WorkerBlocked, WorkerCancelled, WorkerRelease,
                WorkerReleaseFails, WorkerQuota, WorkerDefer, WorkerDeferFails
      <4>3. ~SchedFails
        BY <1>1 DEF SchedFails
      <4>4. ~SchedClaim
        BY <4>2 DEF SchedClaim, ReleaseSched
      <4> QED
        BY <4>3, <4>4
    <3> QED
      BY <3>1, QueuesNobody
  <2>6. \A q \in Recipients : q \in Taken => q \in Taken' \/ q = r
    BY <2>4 DEF Taken, InFlight
  <2>7. r \in Taken' \/ pipe'.stopped \/ r \notin Queued'
    BY <2>2 DEF Taken, InFlight, Queued, In
  <2>8. Queued \subseteq Recipients
    BY DEF Queued, In
  <2> QED
    BY <1>2, <2>3, <2>5, <2>6, <2>7, <2>8
<1>7. CASE Scanner
  <2>1. claim' = claim /\ msg' = msg /\ (pipe' = pipe \/ scan.at # "idle") /\ ~SchedClaim
    BY <1>7 DEF Scanner, ScanSelect, ScanClaim, ScanReplyInvalid, ScanReset, ScanSync, ScanFinish,
                ScanStart, ScanStartFull, ScanStartFails, SchedClaim, ReleaseSched
  <2>2. scan.at # "idle" => ~pipe.stopped
    BY Unregistered DEF Counts, PipeAlone
  <2> QED
    BY <1>3, <1>4, <2>1, <2>2
<1>8. CASE Users
  <2>1. claim' = claim /\ msg' = msg /\ ~SchedClaim
    BY <1>8 DEF Users, UserStatus, UserStop, UserRetry, Undeliverable, RemoveRecipient,
                PoolUnsubscribe, SmtpRemove, SmtpStop, SchedClaim, ReleaseSched
  <2>2. pipe' = pipe \/ \E why \in {"pause", "cancelled"} : pipe' = StopCampaign(pipe, why)
    BY <1>8 DEF Users, UserStatus, UserStop, UserRetry, Undeliverable, RemoveRecipient,
                PoolUnsubscribe, SmtpRemove, SmtpStop
  <2>3. pipe.stopped => pipe'.stopped
    BY <1>1, <2>2, StopCampaignStands DEF StopCampaign
  <2> QED
    BY <1>3, <1>4, <2>1, <2>3
<1>9. CASE Cleanup
  <2>1. claim' = claim /\ msg' = msg /\ ~SchedClaim
    BY <1>9 DEF Cleanup, CleanStart, CleanDecide, CleanErrors, CleanErrorsDone, CleanPause,
                CleanDefer, CleanCancel, CleanSmtp, CleanFinish, CleanFails, SchedClaim, ReleaseSched
  <2>2. CASE pipe' = pipe
    BY <1>3, <1>4, <2>1, <2>2
  <2>3. CASE pipe' # pipe
    <3>1. Queued = {} => Queued' = {}
      BY <1>1, <2>1, QueuesNobody DEF SchedFails
    <3>2. ASSUME clean = "errorsDone" \/ used.smtp > 0 PROVE Queued = {}
      BY <1>1, <3>2 DEF QueuedHeld, Queued
    <3>3. CASE CleanErrorsDone
      BY <3>1, <3>2, <3>3 DEF CleanErrorsDone
    <3>4. CASE CleanPause \/ CleanDefer \/ CleanCancel
      BY <1>1, <3>4, ResetKeeps, CancelUnsentQueued
      DEF CleanPause, CleanDefer, CleanCancel, Queued, Waiting
    <3>5. CASE CleanSmtp
      <4>1. pipe.reason = "smtp" /\ db' = StartFailure(db, "running")
        BY <2>3, <3>5 DEF CleanSmtp
      <4>2. Queued = {}
        BY <1>1, <3>2, <4>1 DEF QueuedHeld
      <4> QED
        BY <3>1, <4>2
    <3>6. CASE CleanFinish
      <4>1. ~pipe.stopped /\ clean # "none"
        BY <2>3, <3>6 DEF CleanFinish
      <4>2. Queued = {}
        BY <1>2, <4>1, Quiet DEF Taken
      <4> QED
        BY <3>1, <4>2
    <3> QED
      BY <1>1, <1>9, <2>3, <3>3, <3>4, <3>5, <3>6
      DEF Cleanup, CleanStart, CleanDecide, CleanErrors, CleanFails
  <2> QED
    BY <2>2, <2>3
<1>10. CASE WorkerTail
  <2>1. pipe.stopped => pipe'.stopped
    BY <1>10, WorkerTailPipe DEF PipeStep, Later
  <2>2. claim' = claim /\ msg' = msg /\ ~SchedClaim
    BY <1>10 DEF WorkerTail, WorkerDone, WorkerError, WorkerMediaError, SchedClaim, ReleaseSched
  <2> QED
    BY <1>3, <1>4, <2>1, <2>2
<1>11. CASE NextDay \/ UNCHANGED vars
  BY <1>3, <1>4, <1>11 DEF NextDay, vars, SchedClaim, ReleaseSched
<1>12. ~Crash
  BY FaultlessStep DEF Crash
<1> QED
  BY <1>5, <1>6, <1>7, <1>8, <1>9, <1>10, <1>11, <1>12 DEF Next

LEMMA QueuedStep ==
    ASSUME TypeOK, Counts, Rows, Halted, PipeObeys, QueuedHeld, [Next]_vars
    PROVE  QueuedHeld'
<1> SUFFICES ASSUME Faultless'
             PROVE  /\ pipe'.reason = "smtp" => used'.smtp > 0
                    /\ \/ used'.smtp > 0
                       \/ clean' = "errorsDone"
                       \/ MaxUserOps = 0 /\ db'.status \notin {"running", "scheduled", "deferred"}
                       => In(db', {"queued"}) = {}
                    /\ pipe'.stopped \/ In(db', {"queued"}) \subseteq claim'.batch \cup InFlight'
  BY DEF QueuedHeld
<1>1. Faultless
  BY FaultlessStep
<1>2. pipe'.reason = "smtp" => used'.smtp > 0
  BY <1>1, SmtpReason DEF QueuedHeld
<1>3. \/ used'.smtp > 0
      \/ clean' = "errorsDone"
      \/ MaxUserOps = 0 /\ db'.status \notin {"running", "scheduled", "deferred"}
      => In(db', {"queued"}) = {}
  BY EmptyQueue DEF Active, Queued
<1>4. pipe'.stopped \/ In(db', {"queued"}) \subseteq claim'.batch \cup InFlight'
  BY QueuedGuarded DEF Queued, Taken
<1> QED
  BY <1>2, <1>3, <1>4

-----------------------------------------------------------------------------
(* Whom the scheduler waits for. *)

\* The scheduler counts on messages that were queued before.
Counting == sched = "waiting" \/ (sched = "claim" /\ claim.hadQueued)

\* No claim means a deferral or a day reserved by those queued, and a claim fits into
\* what is left of the day.
LEMMA BatchLimitRoom ==
    ASSUME NEW sentToday \in Nat, NEW queued \in Nat, NEW left \in SmtpAnswers
    PROVE  LET limit == BatchLimit(sentToday, queued, left)
           IN  /\ limit.n = 0 => limit.deferred \/ queued > 0
               /\ limit.n > 0 => sentToday + queued + limit.n <= DailyLimit
<1>1. left \in Int /\ DailyLimit \in Nat \ {0} /\ BatchSize \in Nat \ {0}
  BY SenderAssumption, StoreAssumption DEF SenderAssumption, StoreAssumption
<1> QED
  BY <1>1 DEF BatchLimit, Least

\* While nobody stopped the pipe, whoever is queued and not in the batch is with a worker.
LEMMA QueuedInFlight ==
    ASSUME TypeOK, Counts, QueuedHeld, Faultless, sched # "push", ~pipe.stopped,
           Cardinality(Counted(db, {"queued"})) > 0
    PROVE  InFlight # {}
<1>1. claim.batch = {}
  BY DEF Counts, PipeAlone
<1>2. Queued # {}
  BY FS_EmptySet DEF Counted, Queued
<1> QED
  BY <1>1, <1>2 DEF QueuedHeld, Queued

LEMMA SchedulerReported ==
    ASSUME TypeOK, Counts, QueuedHeld, Reported, Faultless, Scheduler, Counting', ~Spend("faults")
    PROVE  Reporter'
<1>1. CASE SchedRead
  <2>1. pipe' = pipe /\ msg' = msg /\ tail' = tail /\ ~pipe.stopped /\ sched = "queued"
    BY <1>1 DEF SchedRead, ReleaseSched, Counting
  <2> DEFINE queued == Cardinality(Counted(db, {"queued"}))
  <2>2. PICK left \in SmtpAnswers :
          LET limit == BatchLimit(db.sentToday, queued, left)
          IN  /\ sched' = IF limit.deferred THEN "defer"
                          ELSE IF limit.n = 0 THEN "waiting" ELSE "claim"
              /\ claim' = IF limit.n = 0 THEN NoClaim
                          ELSE [n |-> limit.n, hadQueued |-> queued > 0, batch |-> {}]
    BY <1>1 DEF SchedRead, ReleaseSched, Counting
  <2>3. queued \in Nat /\ db.sentToday \in Nat
    BY RecipientsFinite DEF Counted, In, TypeOK, DB
  <2> HIDE DEF queued
  <2>4. queued > 0
    BY <2>2, <2>3, BatchLimitRoom, BatchLimitFacts DEF Counting
  <2>5. InFlight # {}
    BY <2>1, <2>4, QueuedInFlight DEF queued
  <2> QED
    BY <2>1, <2>5 DEF Reporter, InFlight
<1>2. CASE SchedClaim
  <2>1. claim.hadQueued /\ pipe' = pipe /\ msg' = msg /\ tail' = tail /\ sched = "claim"
    BY <1>2 DEF SchedClaim, ReleaseSched, Counting
  <2> QED
    BY <2>1 DEF Reported, Reporter, InFlight
<1> QED
  BY <1>1, <1>2
  DEF Scheduler, SchedStopped, SchedFails, SchedNoSender, SchedDefer, SchedDeferFails, SchedPush,
      SchedRenderFails, SchedAbandon, SchedRequeue, SchedRequeueFull, SchedWake,
      SchedStopWaiting, ReleaseSched, Counting

LEMMA ReportedStep ==
    ASSUME TypeOK, Counts, QueuedHeld, Reported, [Next]_vars
    PROVE  Reported'
<1> SUFFICES ASSUME Faultless', Counting' PROVE Reporter'
  BY DEF Reported, Counting
<1>1. Faultless /\ ~Spend("faults") /\ ~Spend("crashes")
  BY FaultlessStep
<1>2. CASE Scheduler
  BY <1>1, <1>2, SchedulerReported
<1>3. CASE ~Scheduler
  <2>1. CASE Scanner
    <3>1. scan.at # "idle" => sched = "none"
      BY Quiet
    <3>2. ScanSelect
      BY <2>1, <3>1 DEF Scanner, ScanClaim, ScanReplyInvalid, ScanReset, ScanSync, ScanFinish,
         ScanStart, ScanStartFull, ScanStartFails, Counting
    <3> QED
      BY <1>1, <3>2 DEF ScanSelect, Reported, Counting, Reporter, InFlight
  <2>2. ASSUME NEW r \in Recipients, Worker(r) PROVE Reporter'
    BY <2>2, WorkerPipe DEF Reporter, InFlight
  <2>3. CASE WorkerTail
    BY <2>3, WorkerTailPipe DEF Reporter
  <2>4. CASE Cleanup
    <3>1. clean # "none" => sched = "none"
      BY Quiet
    <3>2. CleanStart
      BY <2>4, <3>1 DEF Cleanup, CleanDecide, CleanErrors, CleanErrorsDone, CleanPause,
                CleanDefer, CleanCancel, CleanSmtp, CleanFinish, CleanFails, Counting
    <3> QED
      BY <1>1, <3>2 DEF CleanStart, Reported, Counting, Reporter, InFlight
  <2>5. CASE Users
    <3>1. sched' = sched /\ claim' = claim /\ msg' = msg /\ tail' = tail
      BY <2>5 DEF Users, UserStatus, UserStop, UserRetry, Undeliverable, RemoveRecipient,
                  PoolUnsubscribe, SmtpRemove, SmtpStop
    <3>2. pipe' = pipe \/ \E why \in {"pause", "cancelled"} : pipe' = StopCampaign(pipe, why)
      BY <2>5 DEF Users, UserStatus, UserStop, UserRetry, Undeliverable, RemoveRecipient,
                  PoolUnsubscribe, SmtpRemove, SmtpStop
    <3>3. pipe' = pipe \/ pipe'.stopped
      BY <3>2, StopCampaignStands DEF TypeOK, StopCampaign
    <3>4. Reporter
      BY <1>1, <3>1 DEF Reported, Counting
    <3> QED
      BY <3>1, <3>3, <3>4 DEF Reporter, InFlight
  <2>6. CASE NextDay \/ UNCHANGED vars
    BY <1>1, <2>6 DEF NextDay, vars, Reported, Counting, Reporter, InFlight
  <2>7. ~Crash
    BY <1>1 DEF Crash
  <2> QED
    BY <1>3, <2>1, <2>2, <2>3, <2>4, <2>5, <2>6, <2>7 DEF Next
<1> QED
  BY <1>2, <1>3

-----------------------------------------------------------------------------
(* The order of the round. *)

\* A pipe is undisturbed since it was registered.
LEMMA UndisturbedBefore ==
    ASSUME TypeOK, [Next]_vars, Undisturbed'
    PROVE  Undisturbed \/ ScanStart
<1>1. pipe \in Pipe
  BY DEF TypeOK
<1>2. ASSUME PipeStep PROVE Undisturbed
  BY <1>2 DEF PipeStep, Later, Undisturbed
<1>3. CASE Scheduler \/ WorkerTail \/ (\E r \in Recipients : Worker(r))
  BY <1>2, <1>3, SchedulerPipe, WorkerPipe, WorkerTailPipe
<1>4. CASE Scanner
  <2>1. pipe' = pipe \/ ScanStart \/ pipe' = Done(Stop(NewPipe, "pause", FALSE))
    BY <1>4 DEF Scanner, ScanSelect, ScanClaim, ScanReplyInvalid, ScanReset, ScanSync,
                ScanFinish, ScanStart, ScanStartFull, ScanStartFails
  <2> QED
    BY <2>1, UnusedPipeFacts DEF Undisturbed
<1>5. CASE Cleanup \/ Crash
  <2>1. pipe' = pipe \/ pipe' = NoPipe
    BY <1>5 DEF Cleanup, CleanStart, CleanDecide, CleanErrors, CleanErrorsDone, CleanPause,
                CleanDefer, CleanCancel, CleanSmtp, CleanFinish, CleanFails, CleanReturn, Crash
  <2> QED
    BY <2>1, NewPipeFacts DEF Undisturbed
<1>6. CASE Users
  <2>1. pipe' = pipe \/ \E why \in {"pause", "cancelled"} : pipe' = StopCampaign(pipe, why)
    BY <1>6 DEF Users, UserStatus, UserStop, UserRetry, Undeliverable, RemoveRecipient,
                PoolUnsubscribe, SmtpRemove, SmtpStop
  <2>2. pipe' = pipe \/ pipe'.stopped
    BY <1>1, <2>1, StopCampaignStands DEF StopCampaign
  <2> QED
    BY <2>2 DEF Undisturbed
<1>7. CASE NextDay \/ UNCHANGED vars
  BY <1>7 DEF NextDay, vars, Undisturbed
<1> QED
  BY <1>3, <1>4, <1>5, <1>6, <1>7 DEF Next

\* What the scheduler noted when it left stays noted.
LEMMA EarlyStays ==
    ASSUME TypeOK, [Next]_vars, Undisturbed', ~ScanStart, pipe.early
    PROVE  pipe'.early
<1>1. pipe \in Pipe
  BY DEF TypeOK
<1>2. CASE Scheduler \/ WorkerTail \/ (\E r \in Recipients : Worker(r))
  BY <1>2, SchedulerPipe, WorkerPipe, WorkerTailPipe DEF PipeStep, Later
<1>3. CASE Scanner
  <2>1. pipe' = pipe \/ pipe' = Done(Stop(NewPipe, "pause", FALSE))
    BY <1>3 DEF Scanner, ScanSelect, ScanClaim, ScanReplyInvalid, ScanReset, ScanSync,
                ScanFinish, ScanStartFull, ScanStartFails
  <2> QED
    BY <2>1, UnusedPipeFacts DEF Undisturbed
<1>4. CASE Cleanup \/ Crash
  <2>1. pipe' = pipe \/ pipe' = NoPipe
    BY <1>4 DEF Cleanup, CleanStart, CleanDecide, CleanErrors, CleanErrorsDone, CleanPause,
                CleanDefer, CleanCancel, CleanSmtp, CleanFinish, CleanFails, CleanReturn, Crash
  <2> QED
    BY <2>1, NewPipeFacts DEF Undisturbed
<1>5. CASE Users
  <2>1. pipe' = pipe \/ \E why \in {"pause", "cancelled"} : pipe' = StopCampaign(pipe, why)
    BY <1>5 DEF Users, UserStatus, UserStop, UserRetry, Undeliverable, RemoveRecipient,
                PoolUnsubscribe, SmtpRemove, SmtpStop
  <2>2. pipe' = pipe \/ pipe'.stopped
    BY <1>1, <2>1, StopCampaignStands DEF StopCampaign
  <2> QED
    BY <2>2 DEF Undisturbed
<1>6. CASE NextDay \/ UNCHANGED vars
  BY <1>6 DEF NextDay, vars
<1> QED
  BY <1>2, <1>3, <1>4, <1>5, <1>6 DEF Next

\* A deferral disturbs the pipe.
LEMMA UndisturbedStatus ==
    ASSUME TypeOK, Undisturbed',
           Scheduler \/ (\E r \in Recipients : Worker(r)) \/ WorkerTail \/ NextDay \/ UNCHANGED vars
    PROVE  db'.status = db.status
<1>1. db \in DB /\ pipe \in Pipe
  BY DEF TypeOK
<1> DEFINE d == [pipe EXCEPT !.deferred = TRUE]
<1>2. d \in Pipe /\ d.deferred
  BY <1>1 DEF Pipe, PipeRecord
<1>3. CASE Scheduler
  <2>1. ASSUME NEW batch, db' = Claim(db, batch) PROVE db'.status = db.status
    BY <1>1, <2>1, SetRowsColumns DEF Claim
  <2>2. CASE SchedDefer
    <3>1. db' = db \/ pipe' = Done(d)
      BY <2>2 DEF SchedDefer, ReleaseSched
    <3> HIDE DEF d
    <3>2. Done(d).deferred
      BY <1>2 DEF Done, Pipe, PipeRecord
    <3> QED
      BY <3>1, <3>2 DEF Undisturbed
  <2>3. CASE ~SchedDefer
    <3>1. db' = db \/ SchedRenderFails \/ \E batch \in SUBSET Recipients : db' = Claim(db, batch)
      BY <1>3, <2>3 DEF Scheduler, SchedStopped, SchedRead, SchedClaim, SchedFails, SchedNoSender,
                SchedDeferFails, SchedPush, SchedAbandon, SchedRequeue,
                SchedRequeueFull, SchedWake, SchedStopWaiting
    <3> QED
      BY <2>1, <3>1, RenderFacts
  <2> QED
    BY <2>2, <2>3
<1>4. CASE \E r \in Recipients : Worker(r)
  <2>1. PICK r \in Recipients : Worker(r)
    BY <1>4
  <2>2. \/ db' = db \/ WorkerDefer(r)
        \/ db' = MarkSent(db, r) \/ db' = MarkPending(db, r) \/ db' = RecordFailure(db, r)
    BY <2>1 DEF Worker, WorkerTake, WorkerAccepted, WorkerSent, WorkerSentFails, WorkerFailed,
                WorkerFailedUnrecorded, WorkerBlocked, WorkerCancelled, WorkerRelease,
                WorkerReleaseFails, WorkerQuota, WorkerDeferFails
  <2>3. /\ MarkSent(db, r).status = db.status /\ MarkPending(db, r).status = db.status
        /\ RecordFailure(db, r).status = db.status
    BY <1>1, MarkSentFacts, MarkPendingFacts, RecordFailureFacts
  <2>4. CASE WorkerDefer(r)
    <3>1. db' = db \/ pipe' = MessageDone(Stop(d, "deferred", FALSE))
      BY <2>4 DEF WorkerDefer
    <3> HIDE DEF d
    <3>2. LET s == Stop(d, "deferred", FALSE) IN s \in Pipe /\ s.stopped
      BY <1>2, StopFacts DEF Reasons, Stop, Pipe, PipeRecord
    <3>3. \A p \in Pipe : p.stopped => MessageDone(p).stopped
      BY DEF MessageDone, Done, Pipe, PipeRecord
    <3> QED
      BY <3>1, <3>2, <3>3 DEF Undisturbed
  <2> QED
    BY <2>2, <2>3, <2>4
<1>5. CASE WorkerTail \/ NextDay \/ UNCHANGED vars
  BY <1>1, <1>5 DEF WorkerTail, WorkerDone, WorkerError, WorkerMediaError, NextDay, vars, DB
<1> QED
  BY <1>3, <1>4, <1>5

\* Whoever fails is on the way no more.
LEMMA OnTheWayUnfailed ==
    ASSUME TypeOK, Rows, [Next]_vars
    PROVE  \A r \in OnTheWay' : db'.fails[r] = db.fails[r]
<1>1. db \in DB /\ msg \in [Recipients -> Msgs] /\ claim.batch \subseteq Recipients
  BY DEF TypeOK, Claims
<1>2. OnTheWay' \subseteq Recipients
  BY TypeStep DEF TypeOK, Claims, OnTheWay
<1>3. CASE Scanner \/ Cleanup \/ Users
  BY <1>3, ScannerKeeps, CleanupKeeps, UsersKeep
<1>4. CASE Scheduler
  <2>1. CASE SchedRenderFails
    <3>1. PICK r \in claim.batch : /\ r \in Recipients /\ claim'.batch = claim.batch \ {r}
                                   /\ \A q \in Recipients \ {r} : db'.fails[q] = db.fails[q]
      BY <2>1, RenderFacts
    <3>2. msg' = msg /\ msg[r] = "none"
      BY <2>1, <3>1 DEF SchedRenderFails, Rows, NoOverlap, InFlight
    <3> QED
      BY <1>2, <3>1, <3>2 DEF OnTheWay
  <2>2. CASE \E batch \in SUBSET Claimable(db) : db' = Claim(db, batch)
    BY <1>1, <2>2, SetRowsColumns DEF Claim
  <2> QED
    BY <1>4, <2>1, <2>2, SchedulerKeeps
<1>5. CASE \E r \in Recipients : Worker(r)
  <2>1. PICK r \in Recipients : Worker(r)
    BY <1>5
  <2>2. CASE WorkerFailed(r) \/ WorkerBlocked(r)
    <3>1. msg[r] = "sending" /\ msg'[r] \in {"failed", "none"} /\ claim' = claim
      BY <1>1, <2>2 DEF WorkerFailed, WorkerBlocked
    <3>2. r \notin claim.batch
      BY <3>1 DEF Rows, NoOverlap, InFlight
    <3>3. db' = RecordFailure(db, r)
      BY <2>2 DEF WorkerFailed, WorkerBlocked
    <3>4. db'.fails = [db.fails EXCEPT ![r] = @ + 1]
      BY <1>1, <3>3, RecordFailureFacts
    <3>5. \A q \in Recipients \ {r} : db'.fails[q] = db.fails[q]
      BY <1>1, <3>4 DEF DB
    <3> QED
      BY <1>2, <3>1, <3>2, <3>5 DEF OnTheWay
  <2>3. CASE ~WorkerFailed(r) /\ ~WorkerBlocked(r)
    <3>1. db' = db \/ db' = MarkSent(db, r) \/ db' = MarkPending(db, r) \/ db' = Defer(db, used.day + 1)
      BY <2>1, <2>3 DEF Worker, WorkerTake, WorkerAccepted, WorkerSent, WorkerSentFails,
         WorkerFailedUnrecorded, WorkerCancelled, WorkerRelease, WorkerReleaseFails, WorkerQuota,
         WorkerDefer, WorkerDeferFails
    <3>2. used.day + 1 \in Nat
      BY DEF TypeOK, Uses
    <3>3. /\ MarkSent(db, r).fails = db.fails /\ MarkPending(db, r).fails = db.fails
          /\ Defer(db, used.day + 1).fails = db.fails
      BY <1>1, <3>2, MarkSentFacts, MarkPendingFacts, DeferFacts DEF Settling
    <3> QED
      BY <3>1, <3>3
  <2> QED
    BY <2>2, <2>3
<1>6. CASE WorkerTail \/ NextDay \/ Crash \/ UNCHANGED vars
  BY <1>1, <1>6 DEF WorkerTail, WorkerDone, WorkerError, WorkerMediaError, NextDay, Crash,
                    vars, DB
<1> QED
  BY <1>3, <1>4, <1>5, <1>6 DEF Next

\* While somebody is on the way, scanner and cleanup stand by.
LEMMA QuietOnTheWay ==
    ASSUME TypeOK, Counts, OnTheWay # {}
    PROVE  /\ scan.at = "idle" /\ clean = "none"
           /\ Scanner => ScanSelect
           /\ Cleanup => CleanStart
<1>1. claim.batch \cup InFlight # {}
  BY DEF OnTheWay, InFlight
<1>2. scan.at = "idle" /\ clean = "none"
  BY <1>1, Quiet
<1> QED
  BY <1>2 DEF Scanner, ScanClaim, ScanReplyInvalid, ScanReset, ScanSync, ScanFinish,
     ScanStart, ScanStartFull, ScanStartFails, Cleanup, CleanDecide, CleanErrors,
     CleanErrorsDone, CleanPause, CleanDefer, CleanCancel, CleanSmtp, CleanFinish, CleanFails

\* The pipe of somebody on the way keeps its status unless a user takes over, and no
\* round begins under it.
LEMMA RoundStands ==
    ASSUME TypeOK, Counts, Halted, InOrder, [Next]_vars, Undisturbed', OnTheWay # {}
    PROVE  /\ Undisturbed
           /\ db'.status = "running" \/ user' # "idle" \/ smtp' # "idle"
           /\ db'.status = "running" => db.status = "running" /\ Round(db, db')
<1>1. db \in DB /\ pipe \in Pipe /\ used.smtp \in Nat
  BY DEF TypeOK, Uses
<1>2. scan.at = "idle" /\ clean = "none" /\ (Scanner => ScanSelect) /\ (Cleanup => CleanStart)
  BY QuietOnTheWay
<1>3. Undisturbed
  BY <1>2, UndisturbedBefore DEF ScanStart
<1>4. db.status = "running" \/ user # "idle" \/ smtp # "idle"
  BY <1>3 DEF InOrder
<1>5. user # "idle" \/ smtp # "idle" => db.status # "running"
  BY <1>1 DEF Halted, TypeOK
<1>6. Round(db, db)
  BY DEF Round
<1>7. CASE Scheduler \/ (\E r \in Recipients : Worker(r)) \/ WorkerTail \/ NextDay \/ UNCHANGED vars
  <2>1. db'.status = db.status
    BY <1>7, UndisturbedStatus
  <2>2. user' = user /\ smtp' = smtp
    <3>1. CASE Scheduler
      BY <3>1 DEF Scheduler, SchedStopped, SchedRead, SchedClaim, SchedFails, SchedNoSender,
              SchedDefer, SchedDeferFails, SchedPush, SchedRenderFails, SchedAbandon,
              SchedRequeue, SchedRequeueFull, SchedWake, SchedStopWaiting
    <3>2. CASE \E r \in Recipients : Worker(r)
      BY <3>2 DEF Worker, WorkerTake, WorkerAccepted, WorkerSent, WorkerSentFails, WorkerFailed,
              WorkerFailedUnrecorded, WorkerBlocked, WorkerCancelled, WorkerRelease,
              WorkerReleaseFails, WorkerQuota, WorkerDefer, WorkerDeferFails
    <3>3. CASE WorkerTail \/ NextDay \/ UNCHANGED vars
      BY <3>3 DEF WorkerTail, WorkerDone, WorkerError, WorkerMediaError, NextDay, vars
    <3> QED
      BY <1>7, <3>1, <3>2, <3>3
  <2>3. Round(db, db')
    <3>1. CASE Scheduler
      <4>1. \A batch : Round(db, Claim(db, batch))
        BY <1>1, ClaimOnly
      <4> QED
        BY <3>1, <4>1, SchedulerKeeps, RenderFacts DEF Keeps
    <3>2. CASE \E r \in Recipients : Worker(r)
      BY <3>2, WorkerKeeps
    <3>3. CASE WorkerTail \/ NextDay \/ UNCHANGED vars
      BY <1>1, <3>3 DEF WorkerTail, WorkerDone, WorkerError, WorkerMediaError, NextDay, vars,
                 Round, DB
    <3> QED
      BY <1>7, <3>1, <3>2, <3>3
  <2> QED
    BY <1>3, <1>4, <2>1, <2>2, <2>3
<1>8. CASE Scanner \/ Cleanup
  <2>1. db' = db /\ user' = user /\ smtp' = smtp
    BY <1>2, <1>8 DEF ScanSelect, CleanStart
  <2> QED
    BY <1>3, <1>4, <1>6, <2>1
<1>9. CASE Users
  <2>1. CASE \E to \in CampaignStatuses : UserStatus(to)
    <3>1. PICK to \in CampaignStatuses : UserStatus(to)
      BY <2>1
    <3>2. user = "idle" /\ smtp' = smtp /\ (to \in {"paused", "cancelled"} => user' = to)
      BY <3>1 DEF UserStatus, StatusLockFree
    <3>3. CASE smtp # "idle"
      <4>1. db'.status # "running"
        <5>1. Halted' /\ smtp' = "stop"
          BY <3>2, <3>3, NextHalted DEF TypeOK
        <5>2. used'.smtp > 0
          BY <5>1 DEF Halted
        <5> QED
          BY <5>1, <5>2 DEF Halted
      <4> QED
        BY <1>3, <3>2, <3>3, <4>1
    <3>4. CASE db.status = "running"
      <4>1. to \in {"paused", "cancelled"}
        BY <3>1, <3>4 DEF UserStatus, MayBecome, CampaignStatuses
      <4>2. db'.status = to
        BY <1>1, <3>1, <4>1, ManualStatusOnly DEF UserStatus
      <4> QED
        BY <1>3, <3>2, <4>1, <4>2
    <3> QED
      BY <1>4, <3>2, <3>3, <3>4
  <2>2. CASE UserStop \/ SmtpStop
    <3>1. pipe.live /\ \E why \in {"pause", "cancelled"} : pipe' = StopCampaign(pipe, why)
      BY <1>3, <2>2 DEF UserStop, SmtpStop, Undisturbed
    <3>2. pipe'.stopped
      BY <1>1, <3>1, StopCampaignStands
    <3> QED
      BY <3>2 DEF Undisturbed
  <2>3. CASE UserRetry
    <3>1. db.status = "paused" /\ user = "idle" /\ smtp' = smtp
      BY <2>3 DEF UserRetry, StatusLockFree
    <3>2. smtp' = "stop"
      BY <1>4, <3>1 DEF TypeOK
    <3>3. db'.status # "running"
      <4>1. Halted'
        BY NextHalted
      <4>2. used'.smtp > 0
        BY <3>2, <4>1 DEF Halted
      <4> QED
        BY <4>1, <4>2 DEF Halted
    <3> QED
      BY <1>3, <3>2, <3>3
  <2>4. CASE SmtpRemove
    <3>1. db' = PauseForSMTP(db) /\ smtp = "idle" /\ user' = user
          /\ (db.status = "running" => smtp' = "stop")
      BY <2>4 DEF SmtpRemove
    <3>2. db'.status # "running"
      BY <1>1, <3>1, PauseForSMTPFacts DEF Active
    <3> QED
      BY <1>3, <1>4, <3>1, <3>2
  <2>5. CASE Undeliverable \/ RemoveRecipient \/ PoolUnsubscribe
    <3>1. db'.status = db.status /\ Round(db, db') /\ user' = user /\ smtp' = smtp
      <4>1. CASE Undeliverable \/ RemoveRecipient
        <5>1. user' = user /\ smtp' = smtp
          BY <4>1 DEF Undeliverable, RemoveRecipient
        <5>2. PICK r : db' = Remove(db, r) \/ db' = [db EXCEPT !.deliverable = @ \ {r}]
          BY <4>1 DEF Undeliverable, RemoveRecipient
        <5>3. Round(db, db') /\ db'.status = db.status
          BY <1>1, <5>2 DEF Remove, DB, Round
        <5> QED
          BY <5>1, <5>3
      <4>2. CASE PoolUnsubscribe
        BY <1>1, <4>2, UnsubscribePoolOnly, UnsubscribePoolFacts DEF PoolUnsubscribe, Recipients
      <4> QED
        BY <2>5, <4>1, <4>2
    <3> QED
      BY <1>3, <1>4, <3>1
  <2> QED
    BY <1>9, <2>1, <2>2, <2>3, <2>4, <2>5 DEF Users
<1>10. ~Crash
  BY NewPipeFacts DEF Crash, Undisturbed
<1> QED
  BY <1>7, <1>8, <1>9, <1>10 DEF Next

LEMMA InOrderStep ==
    ASSUME TypeOK, Counts, Rows, Halted, EndedRows, InOrder, [Next]_vars
    PROVE  InOrder'
<1> SUFFICES ASSUME Undisturbed', OnTheWay' # {}
             PROVE  /\ db'.status = "running" \/ user' # "idle" \/ smtp' # "idle"
                    /\ db'.status = "running" =>
                         \A r \in OnTheWay', q \in Open' :
                           (db'.retryMode => q \in db'.selected) => db'.fails[r] <= db'.fails[q]
  BY DEF InOrder
<1>1. db \in DB /\ db' \in DB /\ msg \in [Recipients -> Msgs]
  BY TypeStep DEF TypeOK
<1>2. Open' \subseteq Recipients
  BY DEF Open, In
<1>3. \A q \in Recipients : db'.fails[q] >= db.fails[q] /\ db.fails[q] \in Nat /\ db'.fails[q] \in Nat
  BY <1>1, FailsCounted DEF DB
<1>4. \A r \in OnTheWay' : db'.fails[r] = db.fails[r] /\ r \in Recipients
  BY OnTheWayUnfailed, TypeStep DEF TypeOK, Claims, OnTheWay
<1>5. CASE SchedClaim /\ claim'.batch # {}
  <2>1. /\ claim'.batch \in SUBSET Claimable(db) /\ db' = Claim(db, claim'.batch)
        /\ db.status = "running" /\ msg' = msg
    BY <1>5, ClaimHolds
  <2>2. db'.status = "running" /\ Round(db, db')
    BY <1>1, <2>1, ClaimOnly, SetRowsColumns DEF Claim
  <2>3. Open' \subseteq Open
    BY <2>2, OpenShrinks DEF Ended
  <2>4. Undisturbed
    BY <1>5, ClaimHolds, UndisturbedBefore DEF ScanStart
  <2>5. ASSUME NEW r \in OnTheWay', NEW q \in Open', db'.retryMode => q \in db'.selected
        PROVE  db.fails[r] <= db.fails[q]
    <3>1. q \in Open /\ (db.retryMode => q \in db.selected)
      BY <2>2, <2>3, <2>5 DEF Round
    <3>2. CASE r \in claim'.batch
      <4>1. ~Exhausted(db, q)
        BY <2>1, <3>1 DEF EndedRows, Ended
      <4>2. q \in RetryQueue(db)
        BY <3>1, <4>1 DEF RetryQueue, Open
      <4> QED
        BY <2>1, <3>2, <4>2 DEF Claimable
    <3>3. CASE r \notin claim'.batch
      <4>1. r \in OnTheWay
        BY <2>1, <2>5, <3>3 DEF OnTheWay
      <4> QED
        BY <2>1, <2>4, <3>1, <4>1 DEF InOrder
    <3> QED
      BY <3>2, <3>3
  <2> QED
    BY <1>2, <1>3, <1>4, <2>2, <2>5
<1>6. CASE ~(SchedClaim /\ claim'.batch # {})
  <2>1. OnTheWay' \subseteq OnTheWay
    <3>1. CASE SchedClaim
      <4>1. msg' = msg /\ claim'.batch = {}
        BY <1>6, <3>1, ClaimHolds
      <4> QED
        BY <4>1 DEF OnTheWay
    <3>2. CASE SchedPush
      BY <3>2, PushHolds
    <3>3. CASE ~SchedClaim /\ ~SchedPush
      BY <3>3, HoldsFewer DEF OnTheWay
    <3> QED
      BY <3>1, <3>2, <3>3
  <2>2. /\ Undisturbed
        /\ db'.status = "running" \/ user' # "idle" \/ smtp' # "idle"
        /\ db'.status = "running" => db.status = "running" /\ Round(db, db')
    BY <2>1, RoundStands
  <2>3. ASSUME db'.status = "running", NEW r \in OnTheWay', NEW q \in Open',
               db'.retryMode => q \in db'.selected
        PROVE  db'.fails[r] <= db'.fails[q]
    <3>1. r \in OnTheWay /\ q \in Open /\ (db.retryMode => q \in db.selected)
      BY <2>1, <2>2, <2>3, OpenShrinks DEF Round, Ended
    <3>2. db.fails[r] <= db.fails[q]
      BY <2>2, <2>3, <3>1 DEF InOrder
    <3> QED
      BY <1>2, <1>3, <1>4, <3>2
  <2> QED
    BY <2>2, <2>3
<1> QED
  BY <1>5, <1>6

-----------------------------------------------------------------------------
(* The end of the campaign. *)

\* Some recipient of the round has failed least.
LEMMA LeastFailed ==
    ASSUME NEW d \in DB, NEW Q \in SUBSET Recipients, Q # {}
    PROVE  \E m \in Q : \A q \in Q : d.fails[m] <= d.fails[q]
<1> DEFINE Has(T) == \E m \in T : \A q \in T : d.fails[m] <= d.fails[q]
           Bad == {T \in SUBSET Q : T # {} /\ ~Has(T)}
<1>1. \A q \in Q : d.fails[q] \in Nat
  BY DEF DB
<1>2. Bad = {}
  <2> SUFFICES ASSUME Bad # {} PROVE FALSE
    OBVIOUS
  <2>1. IsWellFoundedOn(StrictSubsetOrdering(Q), SUBSET Q)
    BY RecipientsFinite, FS_StrictSubsetOrderingWellFounded, FS_FiniteSubsetsOfFinite
  <2>2. Bad \subseteq SUBSET Q
    OBVIOUS
  <2> HIDE DEF Bad
  <2>3. PICK T \in Bad : \A U \in Bad : ~(<<U, T>> \in StrictSubsetOrdering(Q))
    BY <2>1, <2>2, WFMin
  <2>4. T \in SUBSET Q /\ T # {} /\ ~Has(T)
    BY <2>3 DEF Bad
  <2>5. PICK t \in T : TRUE
    BY <2>4
  <2>6. T \ {t} \notin Bad
    BY <2>3, <2>4, <2>5 DEF StrictSubsetOrdering
  <2>7. T \ {t} = {} \/ Has(T \ {t})
    BY <2>4, <2>6 DEF Bad
  <2>8. CASE T \ {t} = {}
    <3>1. \A q \in T : q = t
      BY <2>5, <2>8
    <3>2. d.fails[t] <= d.fails[t]
      BY <1>1, <2>4, <2>5
    <3> QED
      BY <2>4, <2>5, <3>1, <3>2
  <2>9. CASE Has(T \ {t})
    <3>1. PICK m \in T \ {t} : \A q \in T \ {t} : d.fails[m] <= d.fails[q]
      BY <2>9
    <3>2. \A q \in T : d.fails[q] \in Nat
      BY <1>1, <2>4
    <3>3. CASE d.fails[m] <= d.fails[t]
      BY <2>4, <3>1, <3>3
    <3>4. CASE ~(d.fails[m] <= d.fails[t])
      <4>1. \A q \in T : d.fails[t] <= d.fails[q]
        BY <2>5, <3>1, <3>2, <3>4
      <4> QED
        BY <2>4, <2>5, <4>1
    <3> QED
      BY <3>3, <3>4
  <2> QED
    BY <2>7, <2>8, <2>9
<1> QED
  BY <1>2

\* An empty claim means an empty round, once nobody is queued.
LEMMA EmptyClaim ==
    ASSUME NEW d \in DB, NEW n \in Nat, n > 0, d.status = "running", IsClaim(d, n, {}),
           In(d, {"queued"}) \cap d.deliverable = {}
    PROVE  RetryQueue(d) = {}
<1> DEFINE open == Claimable(d)
<1>1. /\ Cardinality({} \cap Private) = Least(n, Cardinality(open \cap Private))
      /\ Cardinality({} \cap Pool) =
           Least(n - Cardinality({} \cap Private), Cardinality(open \cap Pool))
  BY DEF IsClaim
<1>2. open \subseteq Recipients
  BY DEF Claimable, RetryQueue, In
<1>3. /\ IsFiniteSet(open \cap Private) /\ Cardinality(open \cap Private) \in Nat
      /\ IsFiniteSet(open \cap Pool) /\ Cardinality(open \cap Pool) \in Nat
  BY <1>2, RecipientsFinite
<1> HIDE DEF open
<1>4. Cardinality(open \cap Private) = 0 /\ Cardinality(open \cap Pool) = 0
  <2>1. {} \cap Private = {} /\ {} \cap Pool = {} /\ Cardinality({}) = 0
    BY FS_EmptySet
  <2>2. 0 = Least(n, Cardinality(open \cap Private)) /\ 0 = Least(n - 0, Cardinality(open \cap Pool))
    BY <1>1, <2>1
  <2> QED
    BY <1>3, <2>2 DEF Least
<1>5. open = {}
  BY <1>2, <1>3, <1>4, FS_EmptySet DEF Recipients
<1>6. ASSUME RetryQueue(d) # {} PROVE FALSE
  <2>1. RetryQueue(d) \in SUBSET Recipients
    BY DEF RetryQueue, In
  <2>2. PICK m \in RetryQueue(d) : \A q \in RetryQueue(d) : d.fails[m] <= d.fails[q]
    BY <1>6, <2>1, LeastFailed
  <2>3. d.rcpt[m] \in Waiting
    BY <2>2 DEF RetryQueue, In, Unsent, Waiting
  <2> QED
    BY <1>5, <2>2, <2>3 DEF Claimable, open
<1> QED
  BY <1>6

\* Only the scanner and the cleanup finish a campaign.
LEMMA NewlyFinished ==
    ASSUME TypeOK, [Next]_vars, db'.status = "finished", db.status # "finished"
    PROVE  \/ ScanFinish
           \/ CleanFinish /\ ~pipe.stopped /\ db' = FinishRunning(db) /\ db.status = "running"
<1>1. db \in DB
  BY DEF TypeOK
<1>2. CASE Scanner
  <2>1. LET e == ExhaustRetries(ResetPrivateQueued(db)) IN e.status = db.status
    BY <1>1, ExhaustRetriesFacts, ResetPrivateQueuedFacts
  <2>2. SetRunning(db).status = "running" /\ StartFailure(db, scan.from).status # "finished"
    BY <1>1, StatusFacts, StartFailureFacts
  <2> QED
    BY <1>2, <2>1, <2>2 DEF Scanner, ScanSelect, ScanClaim, ScanReplyInvalid, ScanReset,
       ScanSync, ScanStart, ScanStartFull, ScanStartFails
<1>3. CASE Cleanup
  <2>1. /\ \A to \in Waiting : ResetQueued(db, to) \in DB /\ ResetQueued(db, to).status = db.status
        /\ CancelUnsent(db).status = db.status
        /\ StartFailure(db, "running").status # "finished"
    BY <1>1, ResetQueuedFacts, CancelUnsentFacts, StartFailureFacts
  <2>2. PauseRunning(ResetQueued(db, "pending")).status # "finished"
    BY <2>1, StatusFacts DEF Waiting
  <2>3. CleanFails => db'.status = db.status
    BY <1>1, HalfwayFacts DEF CleanFails
  <2>4. CleanFinish => db' = db \/ (~pipe.stopped /\ db' = FinishRunning(db))
    BY DEF CleanFinish
  <2>5. ~CleanFinish => db'.status # "finished"
    BY <1>3, <2>1, <2>2, <2>3 DEF Cleanup, CleanStart, CleanDecide, CleanErrors,
       CleanErrorsDone, CleanPause, CleanDefer, CleanCancel, CleanSmtp, Waiting
  <2> QED
    BY <1>1, <2>4, <2>5, StatusKeeps
<1>4. CASE Users
  <2>1. ASSUME NEW to \in CampaignStatuses, UserStatus(to) PROVE FALSE
    <3>1. to # "finished"
      BY <2>1 DEF UserStatus, MayBecome
    <3> QED
      BY <1>1, <2>1, <3>1, ManualStatusOnly DEF UserStatus
  <2>2. CASE UserRetry
    BY <2>2 DEF UserRetry, RetrySelected, TypeOK, DB
  <2>3. CASE SmtpRemove
    BY <1>1, <2>3 DEF SmtpRemove, PauseForSMTP, ResetQueued, SetRows, DB
  <2>4. CASE PoolUnsubscribe
    BY <1>1, <2>4, UnsubscribePoolFacts DEF PoolUnsubscribe, Recipients
  <2> QED
    BY <1>1, <1>4, <2>1, <2>2, <2>3, <2>4 DEF Users, UserStop, SmtpStop, Undeliverable,
       RemoveRecipient, Remove, DB
<1> QED
  BY <1>2, <1>3, <1>4, WorkingStatus DEF Next

\* The cleanup of a pipe that nobody stopped writes only as it ends the pipe.
LEMMA UndisturbedCleanup ==
    ASSUME TypeOK, PipeObeys, Cleanup, Undisturbed'
    PROVE  db' = db
<1>1. pipe' # NoPipe
  BY NewPipeFacts DEF Undisturbed
<1>2. CASE CleanErrors
  <2>1. pipe' = pipe /\ (pipe.withErrors \/ db' = db)
    BY <1>2 DEF CleanErrors
  <2>2. pipe.withErrors => pipe'.stopped
    BY <2>1 DEF PipeObeys
  <2> QED
    BY <2>1, <2>2 DEF Undisturbed
<1>3. CASE CleanFails
  <2>1. pipe' = pipe /\ pipe.withErrors
    BY <1>1, <1>3 DEF CleanFails, CleanReturn
  <2> QED
    BY <2>1 DEF PipeObeys, Undisturbed
<1>4. CASE ~CleanErrors /\ ~CleanFails
  BY <1>1, <1>4 DEF Cleanup, CleanStart, CleanDecide, CleanErrorsDone, CleanPause,
     CleanDefer, CleanCancel, CleanSmtp, CleanFinish, CleanReturn
<1> QED
  BY <1>2, <1>3, <1>4

\* A running undisturbed pipe keeps its round.
LEMMA RoundKept ==
    ASSUME TypeOK, PipeObeys, [Next]_vars, Undisturbed', db.status = "running", db'.status = "running"
    PROVE  Round(db, db')
<1>1. db \in DB
  BY DEF TypeOK
<1>2. CASE Scanner
  BY <1>2, ScannerKeeps DEF Keeps
<1>3. CASE Scheduler
  <2>1. \A batch : Round(db, Claim(db, batch))
    BY <1>1, ClaimOnly
  <2> QED
    BY <1>3, <2>1, SchedulerKeeps, RenderFacts DEF Keeps
<1>4. CASE \E r \in Recipients : Worker(r)
  BY <1>4, WorkerKeeps
<1>5. CASE WorkerTail \/ NextDay \/ Crash \/ UNCHANGED vars
  BY <1>1, <1>5 DEF WorkerTail, WorkerDone, WorkerError, WorkerMediaError, NextDay, Crash, vars,
             Round, DB
<1>6. CASE Cleanup
  BY <1>6, UndisturbedCleanup DEF Round
<1>7. CASE Users
  <2>1. ASSUME NEW to \in CampaignStatuses, UserStatus(to) PROVE FALSE
    <3>1. to \in {"paused", "cancelled"}
      BY <2>1 DEF UserStatus, MayBecome, CampaignStatuses
    <3> QED
      BY <1>1, <2>1, <3>1, ManualStatusOnly DEF UserStatus
  <2>2. CASE SmtpRemove
    BY <1>1, <2>2, HaltKeeps DEF SmtpRemove, Keeps
  <2>3. CASE Undeliverable \/ RemoveRecipient
    BY <1>1, <2>3 DEF Undeliverable, RemoveRecipient, Remove, DB, Round
  <2>4. CASE PoolUnsubscribe
    BY <1>1, <2>4, UnsubscribePoolOnly DEF PoolUnsubscribe, Recipients
  <2> QED
    BY <1>7, <2>1, <2>2, <2>3, <2>4 DEF Users, UserStop, SmtpStop, UserRetry, Round
<1> QED
  BY <1>2, <1>3, <1>4, <1>5, <1>6, <1>7 DEF Next

\* Nobody but the scanner takes a campaign in hand.
LEMMA ScanHeld ==
    ASSUME TypeOK, [Next]_vars, ~Scanner
    PROVE  scan' = scan \/ scan'.at = "idle"
<1>1. scan.at \in Scans /\ scan \in [at : Scans, from : CampaignStatuses]
  BY DEF TypeOK
<1>2. CASE Scheduler
  BY <1>2 DEF Scheduler, SchedStopped, SchedRead, SchedClaim, SchedFails, SchedNoSender,
          SchedDefer, SchedDeferFails, SchedPush, SchedRenderFails, SchedAbandon,
          SchedRequeue, SchedRequeueFull, SchedWake, SchedStopWaiting
<1>3. CASE \E r \in Recipients : Worker(r)
  BY <1>3 DEF Worker, WorkerTake, WorkerAccepted, WorkerSent, WorkerSentFails,
          WorkerFailed, WorkerFailedUnrecorded, WorkerBlocked, WorkerCancelled,
          WorkerRelease, WorkerReleaseFails, WorkerQuota, WorkerDefer, WorkerDeferFails
<1>4. CASE WorkerTail \/ NextDay \/ UNCHANGED vars
  BY <1>4 DEF WorkerTail, WorkerDone, WorkerError, WorkerMediaError, NextDay, vars
<1>5. CASE Cleanup
  BY <1>5 DEF Cleanup, CleanStart, CleanDecide, CleanErrors, CleanErrorsDone,
          CleanPause, CleanDefer, CleanCancel, CleanSmtp, CleanFinish, CleanFails
<1>6. CASE Users
  BY <1>6 DEF Users, UserStatus, UserStop, UserRetry, Undeliverable, RemoveRecipient,
          PoolUnsubscribe, SmtpRemove, SmtpStop
<1>7. CASE Crash
  BY <1>1, <1>7 DEF Crash
<1> QED
  BY <1>2, <1>3, <1>4, <1>5, <1>6, <1>7 DEF Next

\* What the scanner finishes it has counted as sent.
LEMMA ScannerMoves ==
    ASSUME TypeOK, Scanner, scan'.at = "finish"
    PROVE  AllSent(db)
<1>1. scan \in [at : Scans, from : CampaignStatuses]
  BY DEF TypeOK
<1>2. ~ScanSelect
  BY DEF ScanSelect
<1>3. ~ScanClaim
  BY <1>1 DEF ScanClaim
<1>4. ~ScanReset
  BY <1>1 DEF ScanReset
<1>5. ~(ScanReplyInvalid \/ ScanFinish \/ ScanStart \/ ScanStartFull \/ ScanStartFails)
  BY <1>1 DEF ScanReplyInvalid, ScanFinish, ScanStart, ScanStartFull, ScanStartFails
<1> QED
  BY <1>1, <1>2, <1>3, <1>4, <1>5 DEF Scanner, ScanSync

\* The scanner finishes once everybody is sent.
LEMMA FinishDecided ==
    ASSUME TypeOK, Bounded, FinishRight, [Next]_vars, scan'.at = "finish", used'.removals = 0
    PROVE  In(db', {"sent"}) = Recipients
<1>2. used.removals = 0
  BY NextSpends DEF TypeOK, Uses
<1>1. In(db, {"sent"}) = Recipients
  <2>1. CASE Scanner
    <3>1. AllSent(db)
      BY <2>1, ScannerMoves
    <3>2. Cardinality(Recipients) <= Cardinality(In(db, {"sent"}))
      BY <1>2, <3>1 DEF AllSent, Bounded
    <3>3. In(db, {"sent"}) \in SUBSET Recipients
      BY DEF In
    <3>4. /\ Cardinality(In(db, {"sent"})) <= Cardinality(Recipients)
          /\ Cardinality(Recipients) = Cardinality(In(db, {"sent"})) => Recipients = In(db, {"sent"})
      BY <3>3, RecipientsFinite, FS_Subset
    <3>5. Cardinality(In(db, {"sent"})) \in Nat /\ Cardinality(Recipients) \in Nat
      BY <3>3, RecipientsFinite
    <3> QED
      BY <3>2, <3>4, <3>5
  <2>2. CASE ~Scanner
    BY <1>2, <2>2, ScanHeld DEF FinishRight
  <2> QED
    BY <2>1, <2>2
<1> QED
  BY <1>1, NextWrites DEF In, Settles

\* A claim stands until it is made.
LEMMA ClaimStands ==
    ASSUME [Next]_vars, sched' = "claim", ~SchedRead
    PROVE  sched = "claim" /\ claim' = claim
<1>1. CASE Scheduler
  BY <1>1 DEF Scheduler, SchedStopped, SchedClaim, SchedFails, SchedNoSender,
          SchedDefer, SchedDeferFails, SchedPush, SchedRenderFails, SchedAbandon,
          SchedRequeue, SchedRequeueFull, SchedWake, SchedStopWaiting, ReleaseSched
<1>2. CASE Scanner
  BY <1>2 DEF Scanner, ScanSelect, ScanClaim, ScanReplyInvalid, ScanReset, ScanSync,
          ScanFinish, ScanStart, ScanStartFull, ScanStartFails
<1>3. CASE \E r \in Recipients : Worker(r)
  BY <1>3 DEF Worker, WorkerTake, WorkerAccepted, WorkerSent, WorkerSentFails,
          WorkerFailed, WorkerFailedUnrecorded, WorkerBlocked, WorkerCancelled,
          WorkerRelease, WorkerReleaseFails, WorkerQuota, WorkerDefer, WorkerDeferFails
<1>4. CASE WorkerTail \/ NextDay \/ Crash \/ UNCHANGED vars
  BY <1>4 DEF WorkerTail, WorkerDone, WorkerError, WorkerMediaError, NextDay, Crash, vars
<1>5. CASE Cleanup
  BY <1>5 DEF Cleanup, CleanStart, CleanDecide, CleanErrors, CleanErrorsDone,
          CleanPause, CleanDefer, CleanCancel, CleanSmtp, CleanFinish, CleanFails
<1>6. CASE Users
  BY <1>6 DEF Users, UserStatus, UserStop, UserRetry, Undeliverable, RemoveRecipient,
          PoolUnsubscribe, SmtpRemove, SmtpStop
<1> QED
  BY <1>1, <1>2, <1>3, <1>4, <1>5, <1>6 DEF Next

\* Nobody deliverable is queued while a claim without queued rows is decided.
LEMMA NobodyQueued ==
    ASSUME TypeOK, Bounded, FinishRight, [Next]_vars, sched' = "claim", ~claim'.hadQueued
    PROVE  Queued' \cap db'.deliverable = {}
<1>1. db \in DB
  BY DEF TypeOK
<1>2. CASE SchedRead
  <2>1. db' = db /\ (Cardinality(Counted(db, {"queued"})) > 0 => claim'.hadQueued)
    <3> DEFINE queued == Cardinality(Counted(db, {"queued"}))
    <3>1. PICK left \in SmtpAnswers :
            LET limit == BatchLimit(db.sentToday, queued, left)
            IN  /\ sched' = IF limit.deferred THEN "defer"
                            ELSE IF limit.n = 0 THEN "waiting" ELSE "claim"
                /\ claim' = IF limit.n = 0 THEN NoClaim
                            ELSE [n |-> limit.n, hadQueued |-> queued > 0, batch |-> {}]
      BY <1>2 DEF SchedRead, ReleaseSched
    <3>2. queued \in Nat /\ db.sentToday \in Nat
      BY <1>1, RecipientsFinite DEF Counted, In, DB
    <3> HIDE DEF queued
    <3>3. queued > 0 => claim'.hadQueued
      BY <3>1, <3>2
    <3>4. db' = db
      BY <1>2 DEF SchedRead
    <3> QED
      BY <3>3, <3>4 DEF queued
  <2>2. Counted(db, {"queued"}) \in SUBSET Recipients
    BY DEF Counted, In
  <2>3. Counted(db, {"queued"}) = {}
    <3>1. ~(Cardinality(Counted(db, {"queued"})) > 0)
      BY <2>1
    <3>2. Cardinality(Counted(db, {"queued"})) = 0
      BY <2>2, <3>1, RecipientsFinite
    <3> QED
      BY <2>2, <3>2, RecipientsFinite, FS_EmptySet
  <2>4. Queued \cap db.deliverable \subseteq Counted(db, {"queued"})
    BY DEF Bounded, Counted, Queued
  <2> QED
    BY <2>1, <2>3, <2>4 DEF Queued
<1>3. CASE ~SchedRead
  <2>1. sched = "claim" /\ claim' = claim
    BY <1>3, ClaimStands
  <2>2. Queued \cap db.deliverable = {}
    BY <2>1 DEF FinishRight, Queued
  <2>3. ~SchedClaim /\ ~SchedFails
    BY DEF SchedClaim, SchedFails, ReleaseSched
  <2> QED
    BY <2>2, <2>3, QueuesNobody, NextCounted
<1> QED
  BY <1>2, <1>3

\* The campaign runs, or a user or the loss of the sender has halted it.
Runs == db.status = "running" \/ user # "idle" \/ used.smtp > 0

\* The stop of a pipe disturbs it.
LEMMA StopDisturbs ==
    ASSUME pipe \in Pipe,
           \E why \in Reasons \ {"none"}, withErrors \in BOOLEAN :
               pipe' = Done(Stop(pipe, why, withErrors))
    PROVE  pipe'.stopped
<1>1. PICK why \in Reasons \ {"none"}, withErrors \in BOOLEAN :
        pipe' = Done(Stop(pipe, why, withErrors))
  OBVIOUS
<1> DEFINE s == Stop(pipe, why, withErrors)
<1>2. s \in Pipe /\ s.stopped
  BY StopFacts DEF Reasons, Stop, Pipe, PipeRecord
<1> HIDE DEF s
<1>3. Done(s).stopped
  BY <1>2 DEF Done, Pipe, PipeRecord
<1> QED
  BY <1>1, <1>3 DEF s

\* The scheduler leaves an undisturbed pipe by an empty count or claim, unless early.
LEMMA SchedulerLeaves ==
    ASSUME TypeOK, Counts, Scheduler, sched # "none", sched' = "none", Undisturbed',
           ~pipe'.early
    PROVE  /\ db.status = "running" /\ db'.status = "running"
           /\ \/ SchedRead /\ Counted(db, Unsent) = {}
              \/ SchedClaim /\ IsClaim(db, claim.n, {}) /\ ~claim.hadQueued /\ sched = "claim"
<1>1. db \in DB /\ pipe \in Pipe
  BY DEF TypeOK
<1>2. ~pipe'.stopped /\ ~pipe'.deferred
  BY DEF Undisturbed
<1>3. NotRunning(pipe) \in Pipe /\ (NotRunning(pipe).early <=> pipe.early \/ db.status # "running")
  BY <1>1, NotRunningFacts
<1>4. ASSUME pipe' = Done(NotRunning(pipe)) PROVE db.status = "running"
  <2>1. pipe'.early = NotRunning(pipe).early
    BY <1>3, <1>4 DEF Done, Pipe, PipeRecord
  <2> QED
    BY <1>3, <2>1
<1>5. CASE SchedRead
  <2>1. db' = db /\ pipe' = Done(NotRunning(pipe)) /\ (db.status # "running" \/ Counted(db, Unsent) = {})
    BY <1>5 DEF SchedRead, ReleaseSched
  <2> QED
    BY <1>4, <1>5, <2>1
<1>6. CASE SchedClaim
  <2>1. /\ IsClaim(db, claim.n, {}) /\ ~claim.hadQueued /\ sched = "claim"
        /\ db' = Claim(db, {})
    BY <1>6, ClaimHolds
  <2>2. pipe' = Done(NotRunning(pipe))
    BY <1>6 DEF SchedClaim, ReleaseSched
  <2>3. db'.status = db.status
    BY <1>1, <2>1, SetRowsColumns DEF Claim
  <2> QED
    BY <1>4, <1>6, <2>1, <2>2, <2>3
<1>7. CASE SchedDeferFails
  <2>1. pipe' = Done([pipe EXCEPT !.early = TRUE])
    BY <1>7 DEF SchedDeferFails, ReleaseSched
  <2>2. pipe'.early
    BY <1>1, <2>1 DEF Done, Pipe, PipeRecord
  <2> QED
    BY <2>2
<1>8. CASE SchedDefer
  <2> DEFINE d == [pipe EXCEPT !.deferred = TRUE]
  <2>1. pipe' = Done(d) \/ pipe' = Done(Stop(pipe, "pause", FALSE))
    BY <1>8 DEF SchedDefer, ReleaseSched
  <2>2. d \in Pipe /\ d.deferred
    BY <1>1 DEF Pipe, PipeRecord
  <2> HIDE DEF d
  <2>3. Done(d).deferred
    BY <2>2 DEF Done, Pipe, PipeRecord
  <2> QED
    BY <1>1, <1>2, <2>1, <2>3, StopDisturbs DEF Reasons
<1>9. CASE SchedFails \/ SchedNoSender \/ SchedRequeueFull
  BY <1>1, <1>2, <1>9, StopDisturbs DEF SchedFails, SchedNoSender, SchedRequeueFull, ReleaseSched,
     Reasons
<1>10. CASE SchedStopped \/ SchedAbandon \/ SchedStopWaiting
  <2>1. pipe' = Done(pipe) /\ pipe.stopped
    BY <1>10 DEF SchedStopped, SchedAbandon, SchedStopWaiting, ReleaseSched
  <2> QED
    BY <1>1, <1>2, <2>1 DEF Done, Pipe, PipeRecord
<1> QED
  BY <1>5, <1>6, <1>7, <1>8, <1>9, <1>10
  DEF Scheduler, SchedPush, SchedRenderFails, SchedRequeue, SchedWake

\* Who does not schedule leaves the scheduler reference where it is.
LEMMA SchedHeld ==
    ASSUME [Next]_vars, ~Scheduler, ~ScanStart, ~Crash
    PROVE  sched' = sched
<1>1. CASE Scanner
  BY <1>1 DEF Scanner, ScanSelect, ScanClaim, ScanReplyInvalid, ScanReset, ScanSync,
          ScanFinish, ScanStart, ScanStartFull, ScanStartFails
<1>2. CASE \E r \in Recipients : Worker(r)
  BY <1>2 DEF Worker, WorkerTake, WorkerAccepted, WorkerSent, WorkerSentFails,
          WorkerFailed, WorkerFailedUnrecorded, WorkerBlocked, WorkerCancelled,
          WorkerRelease, WorkerReleaseFails, WorkerQuota, WorkerDefer, WorkerDeferFails
<1>3. CASE WorkerTail \/ NextDay \/ UNCHANGED vars
  BY <1>3 DEF WorkerTail, WorkerDone, WorkerError, WorkerMediaError, NextDay, vars
<1>4. CASE Cleanup
  BY <1>4 DEF Cleanup, CleanStart, CleanDecide, CleanErrors, CleanErrorsDone,
          CleanPause, CleanDefer, CleanCancel, CleanSmtp, CleanFinish, CleanFails
<1>5. CASE Users
  BY <1>5 DEF Users, UserStatus, UserStop, UserRetry, Undeliverable, RemoveRecipient,
          PoolUnsubscribe, SmtpRemove, SmtpStop
<1> QED
  BY <1>1, <1>2, <1>3, <1>4, <1>5 DEF Next

\* While a pipe is undisturbed only a user, or the loss of the sender, changes the status.
LEMMA UndisturbedHeld ==
    ASSUME TypeOK, Counts, PipeObeys, [Next]_vars, Undisturbed, Undisturbed', ~Users
    PROVE  db'.status = db.status /\ user' = user
<1>1. db \in DB
  BY DEF TypeOK
<1>2. CASE Scanner
  <2>1. scan.at = "idle"
    BY DEF Counts, PipeAlone, Undisturbed
  <2> QED
    BY <1>2, <2>1 DEF Scanner, ScanSelect, ScanClaim, ScanReplyInvalid, ScanReset,
       ScanSync, ScanFinish, ScanStart, ScanStartFull, ScanStartFails
<1>3. CASE Cleanup
  <2>1. db' = db
    BY <1>3, UndisturbedCleanup
  <2> QED
    BY <1>3, <2>1 DEF Cleanup, CleanStart, CleanDecide, CleanErrors, CleanErrorsDone,
            CleanPause, CleanDefer, CleanCancel, CleanSmtp, CleanFinish, CleanFails
<1>4. ~Crash
  BY NewPipeFacts DEF Crash, Undisturbed
<1>5. CASE Scheduler
  <2>1. user' = user
    BY <1>5 DEF Scheduler, SchedStopped, SchedRead, SchedClaim, SchedFails, SchedNoSender,
            SchedDefer, SchedDeferFails, SchedPush, SchedRenderFails, SchedAbandon,
            SchedRequeue, SchedRequeueFull, SchedWake, SchedStopWaiting
  <2> QED
    BY <1>5, <2>1, UndisturbedStatus
<1>6. CASE \E r \in Recipients : Worker(r)
  <2>1. user' = user
    BY <1>6 DEF Worker, WorkerTake, WorkerAccepted, WorkerSent, WorkerSentFails,
            WorkerFailed, WorkerFailedUnrecorded, WorkerBlocked, WorkerCancelled,
            WorkerRelease, WorkerReleaseFails, WorkerQuota, WorkerDefer, WorkerDeferFails
  <2> QED
    BY <1>6, <2>1, UndisturbedStatus
<1>7. CASE WorkerTail \/ NextDay \/ UNCHANGED vars
  BY <1>1, <1>7 DEF WorkerTail, WorkerDone, WorkerError, WorkerMediaError, NextDay, vars, DB
<1> QED
  BY <1>2, <1>3, <1>4, <1>5, <1>6, <1>7 DEF Next

\* No stop signal reaches a pipe that stays undisturbed.
LEMMA UndisturbedUsers ==
    ASSUME TypeOK, Users, Undisturbed, Undisturbed'
    PROVE  \/ db'.status = db.status /\ user' = user
           \/ \E to \in CampaignStatuses : UserStatus(to)
           \/ UserRetry
           \/ SmtpRemove /\ used'.smtp > 0
<1>1. db \in DB /\ used \in Uses /\ pipe \in Pipe /\ pipe.live
  BY DEF TypeOK, Undisturbed
<1>2. CASE UserStop \/ SmtpStop
  <2>1. \E why \in {"pause", "cancelled"} : pipe' = StopCampaign(pipe, why)
    BY <1>2 DEF UserStop, SmtpStop
  <2> QED
    BY <1>1, <2>1, StopCampaignStands DEF Undisturbed
<1>3. CASE Undeliverable \/ RemoveRecipient
  BY <1>1, <1>3 DEF Undeliverable, RemoveRecipient, Remove, DB
<1>4. CASE PoolUnsubscribe
  <2>1. db'.status = db.status
    BY <1>1, <1>4, UnsubscribePoolFacts DEF PoolUnsubscribe, Recipients
  <2> QED
    BY <1>4, <2>1 DEF PoolUnsubscribe
<1>5. CASE SmtpRemove
  <2>1. used'.smtp = used.smtp + 1 /\ used.smtp \in Nat
    BY <1>1, <1>5 DEF SmtpRemove, Spend, Uses
  <2> QED
    BY <1>5, <2>1
<1> QED
  BY <1>2, <1>3, <1>4, <1>5 DEF Users

\* Only its halt takes a running campaign away from an undisturbed pipe.
LEMMA RunsKept ==
    ASSUME TypeOK, Counts, PipeObeys, [Next]_vars, Undisturbed, Undisturbed', Runs
    PROVE  Runs'
<1>1. used.smtp > 0 => used'.smtp > 0
  BY NextSpends DEF TypeOK, Uses
<1>2. CASE db'.status = db.status /\ user' = user
  BY <1>1, <1>2 DEF Runs
<1>3. ASSUME NEW to \in CampaignStatuses, UserStatus(to) PROVE Runs'
  <2>1. user = "idle" /\ MayBecome(db, to)
        /\ user' = IF to \in {"paused", "cancelled"} THEN to ELSE "idle"
    BY <1>3 DEF UserStatus, StatusLockFree
  <2>2. db.status = "running" => to \in {"paused", "cancelled"}
    BY <2>1 DEF MayBecome, CampaignStatuses
  <2> QED
    BY <1>1, <2>1, <2>2 DEF Runs
<1>4. CASE UserRetry
  BY <1>4, RetrySelectedOnly DEF UserRetry, Runs, TypeOK
<1>5. CASE SmtpRemove /\ used'.smtp > 0
  BY <1>5 DEF Runs
<1> QED
  BY <1>2, <1>3, <1>4, <1>5, UndisturbedHeld, UndisturbedUsers

\* And nothing brings a halted one back to it.
LEMMA RunningBefore ==
    ASSUME TypeOK, Counts, PipeObeys, Halted, [Next]_vars, Undisturbed, Undisturbed', Runs,
           db'.status = "running"
    PROVE  db.status = "running"
<1>1. used.smtp > 0 => used'.smtp > 0
  BY NextSpends DEF TypeOK, Uses
<1>2. ~(used'.smtp > 0)
  BY NextHalted DEF Halted
<1>3. CASE user # "idle"
  <2>1. ~UserRetry /\ \A to \in CampaignStatuses : ~UserStatus(to)
    BY <1>3 DEF UserRetry, UserStatus, StatusLockFree
  <2> QED
    BY <1>2, <2>1, UndisturbedHeld, UndisturbedUsers
<1> QED
  BY <1>1, <1>2, <1>3 DEF Runs

\* An undisturbed pipe that the scheduler left, not early, had nobody open.
LEMMA LeftEmpty ==
    ASSUME TypeOK, Counts, PipeObeys, Halted, EndedRows, Bounded, FinishRight, [Next]_vars,
           sched' = "none", Undisturbed', ~pipe'.early
    PROVE  Runs' /\ (db'.status = "running" /\ ~db'.retryMode => Open' = {})
<1>1. ~ScanStart /\ ~Crash
  BY NewPipeFacts DEF ScanStart, Crash, Undisturbed
<1>2. Undisturbed
  BY <1>1, UndisturbedBefore
<1>3. CASE sched = "none"
  <2>1. ~pipe.early
    BY <1>1, EarlyStays
  <2>2. Runs /\ (db.status = "running" /\ ~db.retryMode => Open = {})
    BY <1>2, <1>3, <2>1 DEF FinishRight, Runs
  <2>3. Runs'
    BY <1>2, <2>2, RunsKept
  <2>4. ASSUME db'.status = "running", ~db'.retryMode PROVE Open' = {}
    <3>1. db.status = "running"
      BY <1>2, <2>2, <2>4, RunningBefore
    <3>2. ~db.retryMode
      BY <2>4, <3>1, RoundKept DEF Round
    <3>3. Open' \subseteq Open
      BY <2>4, OpenShrinks DEF Ended
    <3> QED
      BY <2>2, <3>1, <3>2, <3>3
  <2> QED
    BY <2>3, <2>4
<1>4. CASE sched # "none"
  <2>1. Scheduler
    BY <1>1, <1>4, SchedHeld
  <2>2. /\ db.status = "running" /\ db'.status = "running"
        /\ \/ SchedRead /\ Counted(db, Unsent) = {}
           \/ SchedClaim /\ IsClaim(db, claim.n, {}) /\ ~claim.hadQueued /\ sched = "claim"
    BY <1>4, <2>1, SchedulerLeaves
  <2>3. ASSUME ~db'.retryMode PROVE Open' = {}
    <3>1. ~db.retryMode
      BY <2>2, <2>3, RoundKept DEF Round
    <3>2. Open' \subseteq Open
      BY <2>2, OpenShrinks DEF Ended
    <3>3. CASE Counted(db, Unsent) = {}
      BY <3>2, <3>3 DEF Bounded, Counted, Open, In
    <3>4. CASE IsClaim(db, claim.n, {}) /\ ~claim.hadQueued /\ sched = "claim"
      <4>1. In(db, {"queued"}) \cap db.deliverable = {}
        BY <3>4 DEF FinishRight
      <4>2. claim.n \in Nat /\ claim.n > 0 /\ db \in DB
        BY <3>4 DEF Bounded, TypeOK, Claims
      <4>3. RetryQueue(db) = {}
        BY <2>2, <3>4, <4>1, <4>2, EmptyClaim
      <4>4. \A r \in Open : ~Exhausted(db, r)
        BY <2>2 DEF EndedRows, Ended
      <4> QED
        BY <3>1, <3>2, <4>3, <4>4 DEF RetryQueue, Open
    <3> QED
      BY <2>2, <3>3, <3>4
  <2> QED
    BY <2>2, <2>3 DEF Runs
<1> QED
  BY <1>3, <1>4

LEMMA FinishStep ==
    ASSUME TypeOK, Counts, PipeObeys, Halted, EndedRows, Bounded, FinishRight, [Next]_vars
    PROVE  FinishRight'
<1>1. scan'.at = "finish" /\ used'.removals = 0 => In(db', {"sent"}) = Recipients
  BY FinishDecided
<1>2. sched' = "claim" /\ ~claim'.hadQueued => In(db', {"queued"}) \cap db'.deliverable = {}
  BY NobodyQueued DEF Queued
<1>3. sched' = "none" /\ Undisturbed' /\ ~pipe'.early =>
        Runs' /\ (db'.status = "running" /\ ~db'.retryMode => Open' = {})
  BY LeftEmpty
<1> QED
  BY <1>1, <1>2, <1>3 DEF FinishRight, Runs

\* A finished campaign takes nobody back.
LEMMA FinishedShrinks ==
    ASSUME TypeOK, Counts, EndedRows, [Next]_vars, db.status = "finished"
    PROVE  Open' \subseteq Open
<1>1. db \in DB
  BY DEF TypeOK
<1> SUFFICES ASSUME NEW r \in Open' PROVE r \in Open
  OBVIOUS
<1>2. r \in Recipients /\ r \in db'.deliverable /\ db'.rcpt[r] \in Unsent
  BY DEF Open, In
<1>3. r \in db.deliverable
  BY <1>2, NextCounted
<1>4. db.rcpt[r] \in Unsent
  <2>1. claim.batch = {} /\ InFlight = {}
    BY DEF EndedRows
  <2>2. ASSUME Eases(db, db') PROVE db.rcpt[r] \in Unsent
    BY <1>2, <2>2 DEF Eases
  <2>3. CASE Scanner
    BY <2>2, <2>3, ScannerKeeps DEF Keeps
  <2>4. CASE Scheduler
    BY <2>1, <2>2, <2>4, SchedulerKeeps DEF Keeps, SchedRenderFails
  <2>5. ASSUME NEW q \in Recipients, Worker(q) PROVE FALSE
    BY <2>1, <2>5 DEF InFlight, Worker, WorkerTake, WorkerAccepted, WorkerSent, WorkerSentFails,
       WorkerFailed, WorkerFailedUnrecorded, WorkerBlocked, WorkerCancelled,
       WorkerRelease, WorkerReleaseFails, WorkerQuota, WorkerDefer, WorkerDeferFails
  <2>6. CASE WorkerTail \/ NextDay \/ Crash \/ UNCHANGED vars
    BY <1>1, <1>2, <2>6 DEF WorkerTail, WorkerDone, WorkerError, WorkerMediaError, NextDay,
       Crash, vars, DB
  <2>7. CASE Cleanup
    BY <1>2, <2>2, <2>7, CleanupKeeps
  <2>8. CASE Users
    BY <1>2, <2>8, UsersKeep
  <2> QED
    BY <2>3, <2>4, <2>5, <2>6, <2>7, <2>8 DEF Next
<1> QED
  BY <1>2, <1>3, <1>4 DEF Open, In

\* Finishing itself opens and settles nobody.
LEMMA FinishOpens ==
    ASSUME TypeOK, [Next]_vars, db'.status = "finished", db.status # "finished"
    PROVE  Open' = Open
<1>1. db \in DB
  BY DEF TypeOK
<1>2. db' = ForceFinished(db) \/ db' = FinishRunning(db)
  BY NewlyFinished DEF ScanFinish
<1>3. \A e \in {ForceFinished(db), FinishRunning(db)} :
        e.rcpt = db.rcpt /\ e.deliverable = db.deliverable
  <2>1. ForceFinished(db).rcpt = db.rcpt /\ FinishRunning(db).rcpt = db.rcpt
    BY <1>1, StatusFacts
  <2>2. Columns(db, ForceFinished(db)) /\ Columns(db, FinishRunning(db))
    BY <1>1, StatusKeeps DEF Keeps
  <2> QED
    BY <2>1, <2>2 DEF Columns
<1> QED
  BY <1>2, <1>3 DEF Open, In

\* Nobody is open when a campaign is finished, unless the sender is misled.
LEMMA SettledAtEnd ==
    ASSUME TypeOK, Counts, PipeObeys, Bounded, FinishRight, [Next]_vars,
           db'.status = "finished", db.status # "finished"
    PROVE  Open = {} \/ Misled
<1>1. db \in DB /\ pipe \in Pipe /\ used.removals \in Nat
  BY DEF TypeOK, Uses
<1>2. CASE ScanFinish
  <2>1. scan.at = "finish"
    BY <1>2 DEF ScanFinish
  <2>2. CASE used.removals = 0
    BY <2>1, <2>2 DEF FinishRight, In, Open, Unsent
  <2>3. CASE used.removals # 0
    BY <1>1, <2>1, <2>3 DEF Misled
  <2> QED
    BY <2>2, <2>3
<1>3. CASE CleanFinish /\ ~pipe.stopped /\ db' = FinishRunning(db) /\ db.status = "running"
  <2>1. pipe.live /\ clean = "finish" /\ sched = "none"
    BY <1>3, Quiet DEF CleanFinish, Counts, WaitGroupExact
  <2>2. Undisturbed
    BY <1>3, <2>1 DEF PipeObeys, Undisturbed
  <2>3. CASE pipe.early
    BY <2>1, <2>3 DEF Misled
  <2>4. CASE ~pipe.early /\ ~db.retryMode
    BY <1>3, <2>1, <2>2, <2>4 DEF FinishRight
  <2>5. CASE db.retryMode
    <3>1. Counted(db, Unsent) = {}
      BY <1>1, <1>3, <2>5, StatusKeeps
    <3> QED
      BY <3>1 DEF Bounded, Counted, Open, In
  <2> QED
    BY <2>3, <2>4, <2>5
<1> QED
  BY <1>2, <1>3, NewlyFinished

-----------------------------------------------------------------------------
(* The day's limit. *)

\* Successes are counted one by one, and midnight starts a new count.
LEMMA SentTodayKept ==
    ASSUME TypeOK, [Next]_vars, \A r \in Recipients : ~WorkerSent(r)
    PROVE  db'.sentToday = db.sentToday \/ (NextDay /\ db'.sentToday = 0)
<1>1. db \in DB /\ used.day + 1 \in Nat
  BY DEF TypeOK, Uses
<1>2. CASE Scanner
  BY <1>2, ScannerKeeps DEF Keeps, Columns
<1>3. CASE Scheduler
  <2>1. \A batch : Claim(db, batch).sentToday = db.sentToday
    BY <1>1, ClaimOnly DEF Columns
  <2> QED
    BY <1>3, <2>1, SchedulerKeeps, RenderFacts DEF Keeps, Columns
<1>4. CASE \E r \in Recipients : Worker(r)
  <2>1. PICK r \in Recipients : Worker(r)
    BY <1>4
  <2>2. CASE WorkerRelease(r)
    BY <1>1, <2>2, MarkPendingOnly DEF WorkerRelease, Columns
  <2> QED
    BY <2>1, <2>2, WorkerKeeps DEF Keeps, Columns
<1>5. CASE WorkerTail \/ NextDay \/ Crash \/ UNCHANGED vars
  BY <1>1, <1>5 DEF WorkerTail, WorkerDone, WorkerError, WorkerMediaError, NextDay, Crash, vars, DB
<1>6. CASE Cleanup
  BY <1>6, CleanupKeeps DEF Columns
<1>7. CASE Users
  BY <1>7, UsersKeep
<1> QED
  BY <1>2, <1>3, <1>4, <1>5, <1>6, <1>7 DEF Next

LEMMA HeldFacts ==
    ASSUME TypeOK
    PROVE  Held \in SUBSET Recipients /\ IsFiniteSet(Held) /\ Cardinality(Held) \in Nat
<1>1. Held \in SUBSET Recipients
  BY DEF Held, TypeOK, Claims
<1> QED
  BY <1>1, RecipientsFinite

LEMMA HeldShrinks ==
    ASSUME TypeOK, [Next]_vars, ~SchedClaim, ~SchedPush
    PROVE  Held' \subseteq Held
BY HoldsFewer DEF Held

\* What is claimed fits the limit it was claimed under.
LEMMA ClaimFits ==
    ASSUME NEW d \in DB, NEW n \in Nat, NEW batch \in SUBSET Recipients, IsClaim(d, n, batch)
    PROVE  Cardinality(batch) \in Nat /\ Cardinality(batch) <= n
<1> DEFINE a == batch \cap Private
           b == batch \cap Pool
           open == IF d.status = "running" THEN Claimable(d) ELSE {}
           x == Cardinality(open \cap Private)
           y == Cardinality(open \cap Pool)
<1>1. Cardinality(a) = Least(n, x) /\ Cardinality(b) = Least(n - Cardinality(a), y)
  BY DEF IsClaim
<1>2. open \subseteq Recipients
  BY DEF Claimable, RetryQueue, In
<1>3. x \in Nat /\ y \in Nat
  BY <1>2, RecipientsFinite
<1>4. IsFiniteSet(a) /\ IsFiniteSet(b) /\ Cardinality(a) \in Nat /\ Cardinality(b) \in Nat
  BY RecipientsFinite
<1>5. batch = a \cup b /\ a \cap b = {}
  BY StoreAssumption DEF Recipients, StoreAssumption
<1> HIDE DEF a, b, open, x, y
<1>6. Cardinality(a \cup b) = Cardinality(a) + Cardinality(b) - Cardinality(a \cap b)
  BY <1>4, FS_Union
<1>7. Cardinality(batch) = Cardinality(a) + Cardinality(b)
  <2>1. Cardinality(a \cap b) = 0
    BY <1>5, FS_EmptySet
  <2> QED
    BY <1>4, <1>5, <1>6, <2>1
<1>8. Cardinality(a) <= n
  BY <1>1, <1>3, <1>4 DEF Least
<1>9. Cardinality(b) <= n - Cardinality(a)
  BY <1>1, <1>3, <1>4, <1>8 DEF Least
<1> QED
  BY <1>4, <1>7, <1>9

\* Whoever is held stays queued, until the campaign or its sender is gone.
LEMMA HeldQueued ==
    ASSUME TypeOK, Counts, Rows, Reserved, [Next]_vars,
           used'.unsubs = 0, used'.removals = 0, db'.status \notin Ended, used'.smtp = 0
    PROVE  \A r \in Held' : db'.rcpt[r] = "queued"
<1>1. db \in DB /\ msg \in [Recipients -> Msgs] /\ used.day + 1 \in Nat
  BY DEF TypeOK, Uses
<1>2. /\ used.unsubs = 0 /\ used.removals = 0 /\ used.smtp = 0
      /\ ~Spend("unsubs") /\ ~Spend("removals") /\ ~Spend("smtp")
  <2>1. /\ used.unsubs \in Nat /\ used.removals \in Nat /\ used.smtp \in Nat
    BY DEF TypeOK, Uses
  <2>2. /\ Spend("unsubs") => used'.unsubs = used.unsubs + 1
        /\ Spend("removals") => used'.removals = used.removals + 1
        /\ Spend("smtp") => used'.smtp = used.smtp + 1
    BY DEF Spend, TypeOK, Uses
  <2> QED
    BY <2>1, <2>2, NextSpends
<1>3. \A r \in Held : db.rcpt[r] = "queued"
  BY <1>2, EndedForever DEF Reserved
<1>4. Held \subseteq Recipients /\ Held' \subseteq Recipients
  BY HeldFacts, TypeStep DEF Held, TypeOK, Claims
<1>5. CASE SchedClaim
  <2>1. msg' = msg /\ db' = Claim(db, claim'.batch)
    BY <1>5, ClaimHolds
  <2>2. \A r \in Held' : r \in claim'.batch \/ r \in Held
    BY <2>1 DEF Held
  <2>3. \A r \in Recipients : db'.rcpt[r] = IF r \in claim'.batch THEN "queued" ELSE db.rcpt[r]
    BY <1>1, <2>1, ClaimOnly
  <2> QED
    BY <1>3, <1>4, <2>2, <2>3
<1>6. CASE SchedPush
  BY <1>3, <1>6, PushHolds
<1>7. CASE ~SchedClaim /\ ~SchedPush
  <2>1. Held' \subseteq Held
    BY <1>7, HeldShrinks
  <2>2. ASSUME NEW r \in Held', db'.rcpt[r] # db.rcpt[r] PROVE db'.rcpt[r] = "queued"
    <3>1. r \in Recipients /\ db.rcpt[r] = "queued" /\ r \in Held
      BY <1>3, <1>4, <2>1
    <3>2. claim.batch # {} \/ InFlight # {}
      BY <3>1 DEF Held, InFlight
    <3>3. scan.at = "idle" /\ clean = "none"
      BY <3>2, Quiet
    <3>4. CASE Scanner
      BY <2>2, <3>3, <3>4 DEF Scanner, ScanSelect, ScanClaim, ScanReplyInvalid, ScanReset,
         ScanSync, ScanFinish, ScanStart, ScanStartFull, ScanStartFails
    <3>5. CASE Cleanup
      BY <2>2, <3>3, <3>5 DEF Cleanup, CleanStart, CleanDecide, CleanErrors, CleanErrorsDone,
         CleanPause, CleanDefer, CleanCancel, CleanSmtp, CleanFinish, CleanFails
    <3>6. CASE Scheduler
      <4>1. CASE SchedRenderFails
        <5>1. PICK q \in claim.batch : /\ q \in Recipients /\ claim'.batch = claim.batch \ {q}
                                       /\ Only(db, db', q)
          BY <4>1, RenderFacts
        <5>2. msg' = msg /\ msg[q] = "none"
          BY <4>1, <5>1 DEF SchedRenderFails, Rows, NoOverlap, InFlight
        <5>3. q \notin Held'
          BY <5>1, <5>2 DEF Held
        <5> QED
          BY <2>2, <3>1, <5>1, <5>3 DEF Only
      <4>2. CASE \E batch \in SUBSET Claimable(db) : db' = Claim(db, batch)
        BY <1>1, <2>2, <3>1, <4>2, ClaimOnly
      <4>3. CASE db' = db \/ db' = Defer(db, used.day + 1)
        <5>1. In(Defer(db, used.day + 1), {"queued"}) = In(db, {"queued"})
          BY <1>1, DeferKeeps
        <5> QED
          BY <3>1, <4>3, <5>1 DEF In
      <4>4. \/ db' = db \/ db' = Defer(db, used.day + 1) \/ SchedRenderFails
            \/ \E batch \in SUBSET Claimable(db) : db' = Claim(db, batch)
        <5>1. SchedFails => db' = db \/ \E batch \in SUBSET Claimable(db) : db' = Claim(db, batch)
          <6>1. ASSUME NEW batch, IsClaim(db, claim.n, batch) PROVE batch \cap Private \in SUBSET Claimable(db)
            BY <6>1 DEF IsClaim
          <6> QED
            BY <6>1 DEF SchedFails
        <5> QED
          BY <1>7, <3>6, <5>1 DEF Scheduler, SchedStopped, SchedRead, SchedNoSender, SchedDefer,
             SchedDeferFails, SchedAbandon, SchedRequeue, SchedRequeueFull, SchedWake,
             SchedStopWaiting
      <4> QED
        BY <4>1, <4>2, <4>3, <4>4
    <3>7. CASE \E q \in Recipients : Worker(q)
      <4>1. PICK q \in Recipients : Worker(q)
        BY <3>7
      <4>2. CASE WorkerSent(q) \/ WorkerRelease(q) \/ WorkerFailed(q) \/ WorkerBlocked(q)
        <5>1. msg[q] # "none" /\ msg'[q] \in {"none", "failed"} /\ claim' = claim
          BY <1>1, <4>2 DEF WorkerSent, WorkerRelease, WorkerFailed, WorkerBlocked
        <5>2. q \notin Held'
          BY <5>1 DEF Rows, NoOverlap, InFlight, Held
        <5>3. Only(db, db', q)
          <6>1. /\ Only(db, MarkSent(db, q), q) /\ Only(db, MarkPending(db, q), q)
                /\ Only(db, RecordFailure(db, q), q)
            BY <1>1, MarkSentOnly, MarkPendingOnly, RecordFailureKeeps
          <6> QED
            BY <4>2, <6>1 DEF WorkerSent, WorkerRelease, WorkerFailed, WorkerBlocked
        <5> QED
          BY <2>2, <3>1, <5>2, <5>3 DEF Only
      <4>3. CASE ~(WorkerSent(q) \/ WorkerRelease(q) \/ WorkerFailed(q) \/ WorkerBlocked(q))
        <5>1. db' = db \/ db' = Defer(db, used.day + 1)
          BY <4>1, <4>3 DEF Worker, WorkerTake, WorkerAccepted, WorkerSentFails,
             WorkerFailedUnrecorded, WorkerCancelled, WorkerReleaseFails, WorkerQuota,
             WorkerDefer, WorkerDeferFails
        <5>2. In(Defer(db, used.day + 1), {"queued"}) = In(db, {"queued"})
          BY <1>1, DeferKeeps
        <5> QED
          BY <3>1, <5>1, <5>2 DEF In
      <4> QED
        BY <4>2, <4>3
    <3>8. CASE WorkerTail \/ NextDay \/ Crash \/ UNCHANGED vars
      BY <1>1, <2>2, <3>8 DEF WorkerTail, WorkerDone, WorkerError, WorkerMediaError, NextDay,
         Crash, vars, DB
    <3>9. CASE Users
      <4>1. ASSUME NEW to \in CampaignStatuses, UserStatus(to) PROVE db'.rcpt = db.rcpt
        <5>1. to # "cancelled"
          BY <4>1, CancelledStatus DEF Ended
        <5> QED
          BY <1>1, <4>1, <5>1, ManualStatusOnly DEF UserStatus
      <4>2. CASE UserRetry
        BY <1>1, <2>2, <4>2, RetrySelectedOnly DEF UserRetry
      <4>3. CASE Undeliverable
        BY <1>1, <2>2, <4>3 DEF Undeliverable, DB
      <4> QED
        BY <1>2, <2>2, <3>9, <4>1, <4>2, <4>3 DEF Users, UserStop, SmtpStop, SmtpRemove,
           RemoveRecipient, PoolUnsubscribe
    <3> QED
      BY <3>4, <3>5, <3>6, <3>7, <3>8, <3>9 DEF Next
  <2> QED
    BY <1>3, <2>1, <2>2
<1> QED
  BY <1>5, <1>6, <1>7

\* A success counted is a place given up.
LEMMA SentHeld ==
    ASSUME TypeOK, Rows, Accounted, NEW r \in Recipients, WorkerSent(r)
    PROVE  /\ r \in Held /\ Held' = Held \ {r} /\ db'.sentToday = db.sentToday + 1
           /\ Cardinality(Held') = Cardinality(Held) - 1
           /\ sched' = sched /\ claim' = claim
<1>1. db \in DB /\ msg \in [Recipients -> Msgs]
  BY DEF TypeOK
<1>2. msg[r] = "accepted" /\ msg' = [msg EXCEPT ![r] = "none"] /\ claim' = claim /\ sched' = sched
      /\ db' = MarkSent(db, r)
  BY DEF WorkerSent
<1>3. r \notin claim.batch /\ db.rcpt[r] # "sent"
  BY <1>2 DEF Rows, NoOverlap, InFlight, Accounted
<1>4. db'.sentToday = db.sentToday + 1
  BY <1>1, <1>2, <1>3, MarkSentOnly
<1>5. r \in Held
  BY <1>2 DEF Held
<1>6. Held' = Held \ {r}
  BY <1>1, <1>2, <1>3 DEF Held
<1>7. Cardinality(Held \ {r}) = Cardinality(Held) - 1
  BY <1>5, HeldFacts, FS_RemoveElement
<1> QED
  BY <1>2, <1>4, <1>5, <1>6, <1>7

\* A batch about to be claimed fits the day.
LEMMA DayReserved ==
    ASSUME TypeOK, Counts, Rows, Halted, Accounted, Bounded, Reserved, [Next]_vars,
           used'.unsubs = 0, used'.removals = 0, sched' = "claim"
    PROVE  db'.sentToday + Cardinality(Held') + claim'.n <= DailyLimit
<1>1. used.unsubs = 0 /\ used.removals = 0
  BY NextSpends DEF TypeOK, Uses
<1>2. /\ db \in DB /\ db.sentToday \in Nat /\ claim.n \in Nat /\ DailyLimit \in Nat
      /\ Held \in SUBSET Recipients /\ IsFiniteSet(Held) /\ Cardinality(Held) \in Nat
      /\ db'.sentToday \in Nat /\ claim'.n \in Nat /\ Cardinality(Held') \in Nat
  <2>1. TypeOK'
    BY TypeStep
  <2>2. /\ db \in DB /\ db.sentToday \in Nat /\ claim.n \in Nat
        /\ db'.sentToday \in Nat /\ claim'.n \in Nat
    BY <2>1 DEF TypeOK, DB, Claims
  <2>3. Cardinality(Held') \in Nat
    <3>1. Held' \in SUBSET Recipients
      BY <2>1 DEF Held, TypeOK, Claims
    <3> QED
      BY <3>1, RecipientsFinite
  <2> QED
    BY <2>2, <2>3, HeldFacts, StoreAssumption DEF StoreAssumption
<1>3. CASE SchedRead
  <2> DEFINE queued == Cardinality(Counted(db, {"queued"}))
  <2>1. PICK left \in SmtpAnswers :
          LET limit == BatchLimit(db.sentToday, queued, left)
          IN  /\ sched' = IF limit.deferred THEN "defer"
                          ELSE IF limit.n = 0 THEN "waiting" ELSE "claim"
              /\ claim' = IF limit.n = 0 THEN NoClaim
                          ELSE [n |-> limit.n, hadQueued |-> queued > 0, batch |-> {}]
    BY <1>3 DEF SchedRead, ReleaseSched
  <2>2. db' = db /\ msg' = msg /\ sched = "queued" /\ db.status = "running"
    BY <1>3 DEF SchedRead, ReleaseSched
  <2>3. queued \in Nat
    BY RecipientsFinite DEF Counted, In
  <2> HIDE DEF queued
  <2>4. claim'.batch = {} /\ claim'.n > 0 /\ db.sentToday + queued + claim'.n <= DailyLimit
    <3> DEFINE limit == BatchLimit(db.sentToday, queued, left)
    <3>1. limit.n \in Nat
      BY <1>2, <2>3, BatchLimitFacts
    <3>2. limit.n > 0 => db.sentToday + queued + limit.n <= DailyLimit
      BY <1>2, <2>3, BatchLimitRoom
    <3>3. /\ limit.n # 0
          /\ claim' = [n |-> limit.n, hadQueued |-> queued > 0, batch |-> {}]
      BY <2>1
    <3> HIDE DEF limit
    <3>4. claim'.n = limit.n /\ claim'.batch = {}
      BY <3>3
    <3> QED
      BY <3>1, <3>2, <3>3, <3>4
  <2>5. Held' = Held
    BY <2>2, <2>4 DEF Held, Counts, PipeAlone
  <2>6. Cardinality(Held) <= queued
    <3>1. used.smtp = 0
      BY <2>2 DEF Halted, TypeOK, Uses
    <3>2. \A r \in Held : db.rcpt[r] = "queued"
      BY <1>1, <2>2, <3>1 DEF Reserved, Ended
    <3>3. Held \subseteq Counted(db, {"queued"}) /\ Counted(db, {"queued"}) \in SUBSET Recipients
      BY <1>1, <1>2, <3>2 DEF Bounded, Counted, In
    <3>4. IsFiniteSet(Counted(db, {"queued"}))
      BY <3>3, RecipientsFinite
    <3> QED
      BY <3>3, <3>4, FS_Subset DEF queued
  <2> QED
    BY <1>2, <2>2, <2>3, <2>4, <2>5, <2>6
<1>4. ASSUME sched = "claim", claim' = claim
      PROVE  db'.sentToday + Cardinality(Held') + claim'.n <= DailyLimit
  <2>1. db.sentToday + Cardinality(Held) + claim.n <= DailyLimit
    BY <1>1, <1>4 DEF Reserved
  <2>2. CASE \E r \in Recipients : WorkerSent(r)
    BY <1>2, <1>4, <2>1, <2>2, SentHeld
  <2>3. CASE \A r \in Recipients : ~WorkerSent(r)
    <3>1. ~SchedClaim /\ ~SchedPush
      BY <1>4 DEF SchedPush, SchedClaim, ReleaseSched
    <3>2. Held' \subseteq Held
      BY <3>1, HeldShrinks
    <3>3. Cardinality(Held') <= Cardinality(Held)
      BY <1>2, <3>2, FS_Subset
    <3>4. db'.sentToday <= db.sentToday
      BY <1>2, <2>3, SentTodayKept
    <3> QED
      BY <1>2, <1>4, <2>1, <3>3, <3>4
  <2> QED
    BY <2>2, <2>3
<1>5. ~SchedRead => sched = "claim" /\ claim' = claim
  BY ClaimStands
<1> QED
  BY <1>3, <1>4, <1>5

LEMMA ReservedStep ==
    ASSUME TypeOK, Counts, Rows, Halted, Accounted, Bounded, Reserved, [Next]_vars
    PROVE  Reserved'
BY HeldQueued, DayReserved DEF Reserved

-----------------------------------------------------------------------------
(* The inductive invariant. *)

LEMMA InvariantInit ==
    ASSUME Init
    PROVE  IInv
<1>1. Core
  BY CoreInit
<1>2. /\ db \in DB /\ DailyLimit \in Nat \ {0} /\ MaxUserOps \in Nat /\ MaxUnsubs \in Nat
      /\ MaxRemovals \in Nat /\ MaxFaults \in Nat
  BY TypeInit, StoreAssumption, SenderAssumption DEF StoreAssumption, SenderAssumption, TypeOK
<1>3. /\ \A r \in Recipients : db.rcpt[r] = "pending" /\ db.fails[r] = 0 /\ msg[r] = "none"
                               /\ delivered[r] = 0
      /\ db.status \in {"draft", "scheduled", "running"} /\ db.counted = Recipients
      /\ db.deliverable = Recipients
      /\ pipe = NoPipe /\ sched = "none" /\ claim = NoClaim /\ clean = "none"
      /\ scan.at = "idle" /\ user = "idle" /\ smtp = "idle"
      /\ used.ops = 0 /\ used.unsubs = 0 /\ used.removals = 0 /\ used.smtp = 0
      /\ used.faults = 0 /\ used.crashes = 0
  BY DEF Init, NoMsgs
<1>4. /\ ~NoPipe.live /\ ~NoPipe.withErrors /\ ~NoPipe.manual /\ ~NoPipe.deferred
      /\ NoPipe.reason = "none" /\ claim.batch = {} /\ InFlight = {}
      /\ db.deliverable \subseteq Recipients
  BY <1>3 DEF NoPipe, UnusedPipe, NoClaim, InFlight
<1>5. Accounted
  BY <1>3, <1>4 DEF Accounted
<1>6. PipeObeys
  BY <1>3, <1>4 DEF PipeObeys
<1>7. In(db, {"queued"}) = {}
  BY <1>3 DEF In
<1>8. QueuedHeld
  BY <1>3, <1>4, <1>7 DEF QueuedHeld
<1>9. Reported
  BY <1>3 DEF Reported
<1>10. EndedRows
  <2>1. \A r \in Recipients : ~Exhausted(db, r)
    BY <1>3, StoreAssumption DEF Exhausted, StoreAssumption
  <2> QED
    BY <1>3, <1>4, <2>1 DEF EndedRows, Open, In, Ended
<1>11. InOrder
  BY <1>3, <1>4 DEF InOrder, Undisturbed
<1>12. FinishRight
  BY <1>3, <1>4 DEF FinishRight, Undisturbed
<1>13. Reserved
  BY <1>3, <1>4 DEF Reserved, Held
<1>14. Bounded
  BY <1>2, <1>3 DEF Bounded
<1> QED
  BY <1>1, <1>5, <1>6, <1>8, <1>9, <1>10, <1>11, <1>12, <1>13, <1>14 DEF IInv

LEMMA InvariantStep ==
    ASSUME IInv, [Next]_vars
    PROVE  IInv'
<1>1. TypeOK /\ Counts /\ Rows /\ Halted
  BY DEF IInv, Core, Counts, Rows
<1>2. /\ Accounted /\ PipeObeys /\ QueuedHeld /\ Reported /\ EndedRows
      /\ InOrder /\ FinishRight /\ Reserved /\ Bounded
  BY DEF IInv
<1>3. Core'
  BY CoreStep DEF IInv
<1>4. Accounted'
  BY <1>1, <1>2, AccountedStep
<1>5. PipeObeys'
  BY <1>1, <1>2, ObeysStep
<1>6. QueuedHeld'
  BY <1>1, <1>2, QueuedStep
<1>7. Reported'
  BY <1>1, <1>2, ReportedStep
<1>8. EndedRows'
  BY <1>1, <1>2, EndedStep
<1>9. InOrder'
  BY <1>1, <1>2, InOrderStep
<1>10. FinishRight'
  BY <1>1, <1>2, FinishStep
<1>11. Reserved'
  BY <1>1, <1>2, ReservedStep
<1>12. Bounded'
  BY <1>1, <1>2, BoundedStep
<1> QED
  BY <1>3, <1>4, <1>5, <1>6, <1>7, <1>8, <1>9, <1>10, <1>11, <1>12 DEF IInv

\* Nothing is delivered, finished, waited for or left behind against the promises of
\* the module, through stops, crashes and failing writes (the scanner, NextCustomers,
\* worker and pipe.cleanup together with the status handlers).
THEOREM InvariantCorrect == Spec => []IInv
<1>1. Init => IInv
  BY InvariantInit
<1>2. IInv /\ [Next]_vars => IInv'
  BY InvariantStep
<1> QED
  BY <1>1, <1>2, PTL DEF Spec

-----------------------------------------------------------------------------
(* What the sending comes to. *)

\* No recipient is accepted by the SMTP server twice, but for what crashes and failed
\* writes of markCampaignMessageSent lost.
THEOREM AtMostOnceCorrect == Spec => []AtMostOnce
<1>1. IInv => AtMostOnce
  <2> SUFFICES ASSUME IInv, NEW r \in Recipients
               PROVE  delivered[r] <= 1 + used.crashes + used.faults
    BY DEF AtMostOnce
  <2>1. /\ delivered[r] \in Nat /\ used.crashes \in Nat /\ used.faults \in Nat
    BY DEF IInv, Core, TypeOK, Uses
  <2>2. delivered[r] <= used.crashes + used.faults
                          + IF msg[r] = "accepted" \/ db.rcpt[r] = "sent" THEN 1 ELSE 0
    BY DEF IInv, Accounted
  <2> QED
    BY <2>1, <2>2
<1> QED
  BY <1>1, InvariantCorrect, PTL

\* Nobody stays queued behind a pipe that is gone, whichever branch of pipe.cleanup
\* ended it.
THEOREM NoStrandedCorrect == Spec => []NoStrandedRow
<1>1. IInv => NoStrandedRow
  <2> SUFFICES ASSUME IInv, Faultless, ~pipe.live
               PROVE  In(db, {"queued"}) = {}
    BY DEF NoStrandedRow
  <2>1. TypeOK /\ Counts /\ PipeObeys /\ QueuedHeld
    BY DEF IInv, Core, Counts
  <2>2. ~pipe.stopped
    BY <2>1, Unregistered
  <2>3. claim.batch = {} /\ InFlight = {}
    <3>1. Outstanding = 0
      BY <2>1 DEF Counts, PipeAlone, WaitGroupExact
    <3>2. sched = "none" /\ InFlight = {}
      BY <2>1, <3>1, NobodyLeft
    <3> QED
      BY <2>1, <3>2 DEF Counts, PipeAlone
  <2> QED
    BY <2>1, <2>2, <2>3 DEF QueuedHeld
<1> QED
  BY <1>1, InvariantCorrect, PTL

\* The scheduler never waits for progress that nobody will report (waitForProgress
\* against messageDone and pipe.Stop).
THEOREM NoWaitCorrect == Spec => []NoWaitForNobody
<1>1. IInv => NoWaitForNobody
  BY DEF IInv, Reported, NoWaitForNobody
<1> QED
  BY <1>1, InvariantCorrect, PTL

\* In an undisturbed pipe a retry never overtakes a first attempt, whatever the batches
\* and however the claims of NextCustomers interleave with the workers.
THEOREM RoundOrderCorrect == Spec => []RoundOrder
<1>1. IInv => RoundOrder
  BY DEF IInv, InOrder, RoundOrder, OnTheWay
<1> QED
  BY <1>1, InvariantCorrect, PTL

\* A campaign is finished with nobody left to send to and takes nobody back, through any
\* number of pauses, retries, deletions, faults and crashes, unless cleanup or the scanner
\* is misled in one of the two ways named (SyncCampaignProgress, pipe.cleanup,
\* UpdateRunningCampaignStatus).
THEOREM FinishedCorrect == Spec => FinishedIsSettled
<1>1. IInv /\ [Next]_vars =>
        [ db'.status = "finished" =>
            \/ Open' = {}
            \/ db.status = "finished" /\ Open' \subseteq Open
            \/ clean = "finish" /\ pipe.early
            \/ scan.at = "finish" /\ used.removals > 0 ]_vars
  <2> SUFFICES ASSUME IInv, [Next]_vars, db'.status = "finished"
               PROVE  \/ Open' = {}
                      \/ db.status = "finished" /\ Open' \subseteq Open
                      \/ Misled
    BY DEF Misled
  <2>1. /\ TypeOK /\ Counts /\ PipeObeys /\ EndedRows /\ Bounded /\ FinishRight
    BY DEF IInv, Core, Counts
  <2>2. CASE db.status = "finished"
    BY <2>1, <2>2, FinishedShrinks
  <2>3. CASE db.status # "finished"
    <3>1. Open = {} \/ Misled
      BY <2>1, <2>3, SettledAtEnd
    <3>2. Open' = Open
      BY <2>1, <2>3, FinishOpens
    <3> QED
      BY <3>1, <3>2
  <2> QED
    BY <2>2, <2>3
<1> QED
  BY <1>1, InvariantCorrect, PTL DEF Spec, FinishedIsSettled

\* A pipe that a user stopped leaves the status to the user.
LEMMA StoppedByUser ==
    ASSUME TypeOK, Counts, PipeObeys, [Next]_vars, pipe.manual, ~ByUser
    PROVE  db'.status = db.status
<1>1. db \in DB /\ pipe \in Pipe
  BY DEF TypeOK
<1>2. pipe.stopped /\ ~pipe.withErrors /\ pipe.reason \in {"pause", "cancelled"} /\ pipe.live
  BY Unregistered DEF PipeObeys
<1>3. scan.at = "idle"
  BY <1>2 DEF Counts, PipeAlone
<1>4. ~Spend("ops") /\ ~Spend("smtp")
  BY SpendByUser DEF ByUser, TypeOK, Uses
<1>5. CASE Scanner
  BY <1>3, <1>5 DEF Scanner, ScanSelect, ScanClaim, ScanReplyInvalid, ScanReset, ScanSync,
          ScanFinish, ScanStart, ScanStartFull, ScanStartFails
<1>6. CASE Scheduler
  <2>1. \A batch : Claim(db, batch).status = db.status
    BY <1>1, SetRowsColumns DEF Claim
  <2>2. db' = db \/ SchedRenderFails \/ \E batch \in SUBSET Recipients : db' = Claim(db, batch)
    BY <1>2, <1>6 DEF Scheduler, SchedStopped, SchedRead, SchedClaim, SchedFails, SchedNoSender,
            SchedDefer, SchedDeferFails, SchedPush, SchedAbandon, SchedRequeue,
            SchedRequeueFull, SchedWake, SchedStopWaiting
  <2> QED
    BY <2>1, <2>2, RenderFacts
<1>7. CASE \E r \in Recipients : Worker(r)
  <2>1. PICK r \in Recipients : Worker(r)
    BY <1>7
  <2>2. db' = db \/ db' = MarkSent(db, r) \/ db' = MarkPending(db, r) \/ db' = RecordFailure(db, r)
    BY <1>2, <2>1 DEF Worker, WorkerTake, WorkerAccepted, WorkerSent, WorkerSentFails,
       WorkerFailed, WorkerFailedUnrecorded, WorkerBlocked, WorkerCancelled, WorkerRelease,
       WorkerReleaseFails, WorkerQuota, WorkerDefer, WorkerDeferFails
  <2>3. /\ MarkSent(db, r).status = db.status /\ MarkPending(db, r).status = db.status
        /\ RecordFailure(db, r).status = db.status
    BY <1>1, MarkSentFacts, MarkPendingFacts, RecordFailureFacts
  <2> QED
    BY <2>2, <2>3
<1>8. CASE WorkerTail \/ NextDay \/ Crash \/ UNCHANGED vars
  BY <1>1, <1>8 DEF WorkerTail, WorkerDone, WorkerError, WorkerMediaError, NextDay, Crash, vars, DB
<1>9. CASE Cleanup
  <2>1. /\ \A to \in Waiting : ResetQueued(db, to).status = db.status
        /\ CancelUnsent(db).status = db.status
    BY <1>1, ResetQueuedFacts, CancelUnsentFacts
  <2>2. CleanFails => db'.status = db.status
    BY <1>1, HalfwayFacts DEF CleanFails
  <2> QED
    BY <1>2, <1>9, <2>1, <2>2 DEF Cleanup, CleanStart, CleanDecide, CleanErrors,
       CleanErrorsDone, CleanPause, CleanDefer, CleanCancel, CleanSmtp, CleanFinish, Waiting
<1>10. CASE Users
  <2>1. CASE PoolUnsubscribe
    BY <1>1, <2>1, UnsubscribePoolFacts DEF PoolUnsubscribe, Recipients
  <2>2. CASE RemoveRecipient
    BY <1>1, <2>2 DEF RemoveRecipient, Remove, DB
  <2> QED
    BY <1>4, <1>10, <2>1, <2>2 DEF Users, UserStatus, UserStop, UserRetry, Undeliverable,
       SmtpRemove, SmtpStop
<1> QED
  BY <1>5, <1>6, <1>7, <1>8, <1>9, <1>10 DEF Next

\* A pipe that a user's stop has reached never writes the status again (StopCampaign
\* overrides the reason that pipe.cleanup reads).
THEOREM OldPipeCorrect == Spec => OldPipeLeavesAlone
<1>1. IInv /\ [Next]_vars => [pipe.manual /\ ~ByUser => db'.status = db.status]_vars
  BY StoppedByUser DEF IInv, Core, Counts
<1> QED
  BY <1>1, InvariantCorrect, PTL DEF Spec, OldPipeLeavesAlone

-----------------------------------------------------------------------------
(* The ledger of deliveries. *)

LEMMA LedgerStep ==
    ASSUME IInv, [Next]_vars, used.unsubs = 0, used.removals = 0
    PROVE  [Ledger!Next]_(Ledger!ledger)
<1> USE DEF Ledger!Next, Ledger!ledger, Ledger!Hold, Ledger!Release, Ledger!Succeed, Ledger!Midnight
<1>1. TypeOK /\ Counts /\ Rows /\ Halted /\ Accounted /\ Reserved /\ Bounded
  BY DEF IInv, Core, Counts, Rows
<1>2. /\ Held \in SUBSET Recipients /\ IsFiniteSet(Held) /\ Cardinality(Held) \in Nat
      /\ db \in DB /\ db.sentToday \in Nat /\ claim.n \in Nat /\ DailyLimit \in Nat
  BY <1>1, HeldFacts, StoreAssumption DEF TypeOK, DB, Claims, StoreAssumption
<1>3. CASE SchedClaim
  <2> DEFINE batch == claim'.batch
  <2>1. /\ batch \in SUBSET Claimable(db) /\ IsClaim(db, claim.n, batch)
        /\ db' = Claim(db, batch) /\ (batch # {} => db.status = "running")
        /\ msg' = msg /\ claim.batch = {} /\ sched = "claim"
    BY <1>1, <1>3, ClaimHolds
  <2>2. batch \in SUBSET Recipients
    BY <2>1 DEF Claimable, RetryQueue, In
  <2>3. Held' = Held \cup batch
    BY <2>1 DEF Held
  <2>4. db'.sentToday = db.sentToday
    BY <1>2, <2>1, ClaimOnly DEF Columns
  <2> HIDE DEF batch
  <2>5. CASE batch = {}
    BY <2>3, <2>4, <2>5
  <2>6. CASE batch # {}
    <3>1. used.smtp = 0
      BY <1>1, <2>1, <2>6 DEF Halted, TypeOK, Uses
    <3>2. \A r \in Held : db.rcpt[r] = "queued"
      BY <1>1, <2>1, <2>6, <3>1 DEF Reserved, Ended
    <3>3. \A r \in batch : db.rcpt[r] # "queued"
      BY <2>1 DEF Claimable, Waiting
    <3>4. batch \cap Held = {}
      BY <3>2, <3>3
    <3>5. Cardinality(batch) \in Nat /\ Cardinality(batch) <= claim.n
      BY <1>2, <2>1, <2>2, ClaimFits
    <3>6. Cardinality(Held \cup batch) = Cardinality(Held) + Cardinality(batch)
      <4>1. IsFiniteSet(batch)
        BY <2>2, RecipientsFinite
      <4>2. Cardinality(Held \cup batch)
              = Cardinality(Held) + Cardinality(batch) - Cardinality(Held \cap batch)
        BY <1>2, <4>1, FS_Union
      <4>3. Cardinality(Held \cap batch) = 0
        BY <3>4, FS_EmptySet
      <4> QED
        BY <1>2, <3>5, <4>2, <4>3
    <3>7. db.sentToday + Cardinality(Held) + claim.n <= DailyLimit
      BY <1>1, <2>1 DEF Reserved
    <3>8. db.sentToday + Cardinality(Held \cup batch) <= DailyLimit
      BY <1>2, <3>5, <3>6, <3>7
    <3>9. Ledger!Cardinality(Held \cup batch) = Cardinality(Held \cup batch)
      BY DEF Ledger!Cardinality, Cardinality
    <3>10. Ledger!Hold(batch)
      BY <2>3, <2>4, <2>6, <3>4, <3>8, <3>9
    <3> QED
      BY <2>2, <3>10
  <2> QED
    BY <2>5, <2>6
<1>4. CASE \E r \in Recipients : WorkerSent(r)
  BY <1>1, <1>4, SentHeld
<1>5. CASE ~SchedClaim /\ \A r \in Recipients : ~WorkerSent(r)
  <2>1. Held' \subseteq Held
    BY <1>1, <1>5, HeldShrinks, PushHolds
  <2>2. CASE db'.sentToday = db.sentToday
    <3>1. Held \ Held' \in SUBSET Recipients /\ Held' = Held \ (Held \ Held')
      BY <1>2, <2>1
    <3> QED
      BY <2>2, <3>1
  <2>3. CASE NextDay /\ db'.sentToday = 0
    <3>1. Held' = Held
      BY <2>3 DEF NextDay, Held
    <3> QED
      BY <2>3, <3>1
  <2> QED
    BY <1>1, <1>5, <2>2, <2>3, SentTodayKept
<1> QED
  BY <1>3, <1>4, <1>5

\* Whoever is held has a place in the day's limit and no second delivery, however
\* NextCustomers, the workers, cleanup and crashes interleave.  A pool contact that
\* unsubscribes and a recipient deleted on the way leave the counts and free the place
\* too early: both are assumed away.
THEOREM LedgerCorrect ==
    ASSUME MaxUnsubs = 0, MaxRemovals = 0
    PROVE  Spec => ImplementsLedger
<1>1. Init => Ledger!Init
  BY DEF Init, Ledger!Init, Held, NoClaim, NoMsgs
<1>2. IInv /\ [Next]_vars => [Ledger!Next]_(Ledger!ledger)
  <2> SUFFICES ASSUME IInv, [Next]_vars
               PROVE  [Ledger!Next]_(Ledger!ledger)
    OBVIOUS
  <2>1. used.unsubs = 0 /\ used.removals = 0
    BY DEF IInv, Bounded, Core, TypeOK, Uses
  <2> QED
    BY <2>1, LedgerStep
<1> QED
  BY <1>1, <1>2, InvariantCorrect, PTL DEF Spec, ImplementsLedger, Ledger!Spec

-----------------------------------------------------------------------------
(* The life of the campaign. *)

\* The same recipients are unsent and deliverable.
SameOpen(d, e) == In(e, Unsent) = In(d, Unsent) /\ e.deliverable = d.deliverable

LEMMA SetRowsOpen ==
    ASSUME NEW d \in DB, NEW rows \in SUBSET In(d, Unsent), NEW to \in Waiting
    PROVE  SetRows(d, rows, to) \in DB /\ SameOpen(d, SetRows(d, rows, to))
<1>1. SetRows(d, rows, to) \in DB
  BY SetRowsFacts DEF Waiting, RecipientStatuses
<1>2. /\ SetRows(d, rows, to).deliverable = d.deliverable
      /\ \A r \in Recipients :
           SetRows(d, rows, to).rcpt[r] = IF r \in rows THEN to ELSE d.rcpt[r]
  BY SetRowsColumns DEF Columns
<1>3. \A r \in rows : r \in Recipients /\ d.rcpt[r] \in Unsent
  BY DEF In
<1>4. to \in Unsent
  BY DEF Waiting, Unsent
<1>5. In(SetRows(d, rows, to), Unsent) = In(d, Unsent)
  BY <1>2, <1>3, <1>4 DEF In
<1> QED
  BY <1>1, <1>2, <1>5 DEF SameOpen

\* A status written over the rows.
LEMMA StatusOpen ==
    ASSUME NEW d, NEW s, NEW e, SameOpen(d, s), e.rcpt = s.rcpt, e.deliverable = s.deliverable
    PROVE  SameOpen(d, e)
BY DEF SameOpen, In

LEMMA ManagerOpen ==
    ASSUME NEW d \in DB
    PROVE  /\ \A e \in {SetRunning(d), PauseRunning(d), ForceFinished(d), FinishRunning(d)} :
                SameOpen(d, e)
           /\ \A to \in Waiting : /\ ResetQueued(d, to) \in DB
                                  /\ SameOpen(d, ResetQueued(d, to))
           /\ \A day \in Nat : SameOpen(d, Defer(d, day))
           /\ \A previous : SameOpen(d, StartFailure(d, previous))
           /\ SameOpen(d, PauseForSMTP(d))
<1>1. SameOpen(d, d)
  BY DEF SameOpen
<1>2. \A e \in {SetRunning(d), PauseRunning(d), ForceFinished(d), FinishRunning(d)} :
        SameOpen(d, e)
  <2> SUFFICES ASSUME NEW e \in {SetRunning(d), PauseRunning(d), ForceFinished(d), FinishRunning(d)}
               PROVE  SameOpen(d, e)
    OBVIOUS
  <2>1. e.rcpt = d.rcpt
    BY StatusFacts
  <2>2. Columns(d, e)
    BY StatusKeeps DEF Keeps
  <2> QED
    BY <1>1, <2>1, <2>2, StatusOpen DEF Columns
<1>3. ASSUME NEW to \in Waiting
      PROVE  ResetQueued(d, to) \in DB /\ SameOpen(d, ResetQueued(d, to))
  <2>1. In(d, {"queued"}) \in SUBSET In(d, Unsent)
    BY DEF In, Unsent
  <2> QED
    BY <2>1, SetRowsOpen DEF ResetQueued
<1>4. ASSUME NEW day \in Nat PROVE SameOpen(d, Defer(d, day))
  <2> DEFINE s == SetRows(d, In(d, {"pending"}), "deferred")
  <2>1. In(d, {"pending"}) \in SUBSET In(d, Unsent) /\ "deferred" \in Waiting
    BY DEF In, Unsent, Waiting
  <2>2. s \in DB /\ SameOpen(d, s)
    BY <2>1, SetRowsOpen
  <2>3. Defer(d, day) = [s EXCEPT !.status = "deferred", !.resumeDay = day]
    BY DEF Defer
  <2> HIDE DEF s
  <2>4. Defer(d, day).rcpt = s.rcpt /\ Defer(d, day).deliverable = s.deliverable
    BY <2>2, <2>3 DEF DB
  <2> QED
    BY <2>2, <2>4, StatusOpen
<1> DEFINE q == ResetQueued(d, "pending")
<1>5. q \in DB /\ SameOpen(d, q)
  BY <1>3 DEF Waiting
<1>6. ASSUME NEW previous
      PROVE  \/ StartFailure(d, previous) = d
             \/ StartFailure(d, previous) =
                  [q EXCEPT
                     !.status = IF previous \in {"scheduled", "deferred"} THEN "draft" ELSE "paused",
                     !.sendAt = FALSE]
  BY DEF StartFailure
<1>7. \/ PauseForSMTP(d) = d
      \/ PauseForSMTP(d) = [q EXCEPT !.status = IF d.status = "running" THEN "paused" ELSE "draft",
                                     !.sendAt = FALSE]
  BY DEF PauseForSMTP
<1> HIDE DEF q
<1>8. ASSUME NEW status
      PROVE  SameOpen(d, [q EXCEPT !.status = status, !.sendAt = FALSE])
  <2>1. /\ [q EXCEPT !.status = status, !.sendAt = FALSE].rcpt = q.rcpt
        /\ [q EXCEPT !.status = status, !.sendAt = FALSE].deliverable = q.deliverable
    BY <1>5 DEF DB
  <2> QED
    BY <1>5, <2>1, StatusOpen
<1>9. ASSUME NEW previous PROVE SameOpen(d, StartFailure(d, previous))
  <2> DEFINE status == IF previous \in {"scheduled", "deferred"} THEN "draft" ELSE "paused"
  <2>1. \/ StartFailure(d, previous) = d
        \/ StartFailure(d, previous) = [q EXCEPT !.status = status, !.sendAt = FALSE]
    BY <1>6
  <2> HIDE DEF status
  <2> QED
    BY <1>1, <1>8, <2>1
<1>10. SameOpen(d, PauseForSMTP(d))
  BY <1>1, <1>7, <1>8
<1> QED
  BY <1>2, <1>3, <1>4, <1>9, <1>10

\* What may become of the status without a user.
BackgroundMove(from, to) ==
    \/ from \in {"scheduled", "deferred"} /\ to = "running"
    \/ from = "running" /\ to \in {"paused", "deferred", "draft"}
    \/ to = "finished"

LEMMA ScannerLife ==
    ASSUME TypeOK, Scanner, db'.status # db.status
    PROVE  BackgroundMove(db.status, db'.status) /\ SameOpen(db, db')
<1>1. db \in DB
  BY DEF TypeOK
<1>2. CASE ScanClaim
  <2>1. db' = SetRunning(db) /\ db.status \in {"scheduled", "deferred"}
    BY <1>2 DEF ScanClaim
  <2> QED
    BY <1>1, <2>1, StatusFacts, ManagerOpen DEF BackgroundMove
<1>3. CASE ScanReplyInvalid \/ ScanStartFails
  <2>1. db' = StartFailure(db, scan.from)
    BY <1>3 DEF ScanReplyInvalid, ScanStartFails
  <2>2. db.status = "running" /\ db'.status \in {"draft", "paused"}
    BY <1>1, <2>1, StartFailureFacts
  <2> QED
    BY <1>1, <2>1, <2>2, ManagerOpen DEF BackgroundMove
<1>4. CASE ScanReset
  <2>1. LET e == ExhaustRetries(ResetPrivateQueued(db)) IN e.status = db.status
    BY <1>1, ExhaustRetriesFacts, ResetPrivateQueuedFacts
  <2> QED
    BY <1>4, <2>1 DEF ScanReset
<1>5. CASE ScanFinish
  <2>1. db' = ForceFinished(db)
    BY <1>5 DEF ScanFinish
  <2> QED
    BY <1>1, <2>1, StatusFacts, ManagerOpen DEF BackgroundMove
<1>6. CASE ScanSelect \/ ScanSync \/ ScanStart \/ ScanStartFull
  BY <1>6 DEF ScanSelect, ScanSync, ScanStart, ScanStartFull
<1> QED
  BY <1>2, <1>3, <1>4, <1>5, <1>6 DEF Scanner

LEMMA CleanupLife ==
    ASSUME TypeOK, Cleanup, db'.status # db.status
    PROVE  BackgroundMove(db.status, db'.status) /\ SameOpen(db, db')
<1>1. db \in DB
  BY DEF TypeOK
<1> DEFINE q == ResetQueued(db, "pending")
<1>2. q \in DB /\ SameOpen(db, q) /\ q.status = db.status
  BY <1>1, ManagerOpen, ResetQueuedFacts DEF Waiting
<1>3. CASE CleanErrors
  <2>1. db' = PauseRunning(q)
    BY <1>3 DEF CleanErrors
  <2> HIDE DEF q
  <2>2. db.status = "running" /\ db'.status = "paused" /\ db'.rcpt = q.rcpt
        /\ db'.deliverable = q.deliverable
    BY <1>2, <2>1, StatusFacts, StatusKeeps DEF Keeps, Columns
  <2> QED
    BY <1>2, <2>2, StatusOpen DEF BackgroundMove
<1>4. CASE CleanSmtp
  <2>1. db' = StartFailure(db, "running")
    BY <1>4 DEF CleanSmtp
  <2>2. db.status = "running" /\ db'.status \in {"draft", "paused"}
    BY <1>1, <2>1, StartFailureFacts
  <2> QED
    BY <1>1, <2>1, <2>2, ManagerOpen DEF BackgroundMove
<1>5. CASE CleanFinish
  <2>1. db' = FinishRunning(db)
    BY <1>5 DEF CleanFinish
  <2>2. db.status = "running" /\ db'.status \in {"finished", "paused"}
    BY <1>1, <2>1, StatusFacts
  <2> QED
    BY <1>1, <2>1, <2>2, ManagerOpen DEF BackgroundMove
<1>6. CASE CleanPause \/ CleanDefer \/ CleanCancel
  <2>1. /\ \A to \in Waiting : ResetQueued(db, to).status = db.status
        /\ CancelUnsent(db).status = db.status
    BY <1>1, ResetQueuedFacts, CancelUnsentFacts
  <2> QED
    BY <1>6, <2>1 DEF CleanPause, CleanDefer, CleanCancel, Waiting
<1>7. CASE CleanFails
  BY <1>1, <1>7, HalfwayFacts DEF CleanFails
<1>8. CASE CleanStart \/ CleanDecide \/ CleanErrorsDone
  BY <1>8 DEF CleanStart, CleanDecide, CleanErrorsDone
<1> QED
  BY <1>3, <1>4, <1>5, <1>6, <1>7, <1>8 DEF Cleanup

LEMMA BackgroundLife ==
    ASSUME TypeOK, [Next]_vars, ~Users, db'.status # db.status
    PROVE  BackgroundMove(db.status, db'.status) /\ SameOpen(db, db')
<1>1. db \in DB /\ used.day + 1 \in Nat
  BY DEF TypeOK, Uses
<1>2. CASE Scanner
  BY <1>2, ScannerLife
<1>3. CASE Cleanup
  BY <1>3, CleanupLife
<1>4. ASSUME db.status = "running" /\ db' = Defer(db, used.day + 1)
      PROVE  BackgroundMove(db.status, db'.status) /\ SameOpen(db, db')
  BY <1>1, <1>4, DeferFacts, ManagerOpen DEF BackgroundMove
<1>5. CASE Scheduler
  <2>1. \A batch : Claim(db, batch).status = db.status
    BY <1>1, SetRowsColumns DEF Claim
  <2>2. SchedRenderFails => db'.status = db.status
    BY RenderFacts
  <2>3. \/ db' = db \/ (db.status = "running" /\ db' = Defer(db, used.day + 1))
        \/ SchedRenderFails
        \/ \E batch \in SUBSET Recipients : db' = Claim(db, batch)
    BY <1>5 DEF Scheduler, SchedStopped, SchedRead, SchedClaim, SchedFails, SchedNoSender,
                SchedDefer, SchedDeferFails, SchedPush, SchedAbandon, SchedRequeue,
                SchedRequeueFull, SchedWake, SchedStopWaiting
  <2>4. db.status = "running" /\ db' = Defer(db, used.day + 1)
    BY <2>1, <2>2, <2>3
  <2> QED
    BY <1>4, <2>4
<1>6. CASE \E r \in Recipients : Worker(r)
  <2>1. PICK r \in Recipients : Worker(r)
    BY <1>6
  <2>2. /\ MarkSent(db, r).status = db.status /\ MarkPending(db, r).status = db.status
        /\ RecordFailure(db, r).status = db.status
    BY <1>1, MarkSentFacts, MarkPendingFacts, RecordFailureFacts
  <2>3. db.status = "running" /\ db' = Defer(db, used.day + 1)
    BY <2>1, <2>2 DEF Worker, WorkerTake, WorkerAccepted, WorkerSent, WorkerSentFails,
       WorkerFailed, WorkerFailedUnrecorded, WorkerBlocked, WorkerCancelled, WorkerRelease,
       WorkerReleaseFails, WorkerQuota, WorkerDefer, WorkerDeferFails
  <2> QED
    BY <1>4, <2>3
<1>7. CASE WorkerTail \/ NextDay \/ Crash \/ UNCHANGED vars
  <2>1. db'.status = db.status
    BY <1>1, <1>7 DEF WorkerTail, WorkerDone, WorkerError, WorkerMediaError, NextDay, Crash,
                      vars, DB
  <2> QED
    BY <2>1
<1> QED
  BY <1>2, <1>3, <1>5, <1>6, <1>7 DEF Next

\* Whatever a user changes, nobody is opened.
LEMMA UsersLife ==
    ASSUME TypeOK, Users, db'.status # db.status
    PROVE  Lifecycle!Control \/ Lifecycle!Disable
<1>1. db \in DB
  BY DEF TypeOK
<1>2. ASSUME NEW to \in CampaignStatuses, UserStatus(to) PROVE Lifecycle!Control
  <2>1. MayBecome(db, to) /\ db' = ManualStatus(db, to)
    BY <1>2 DEF UserStatus
  <2>2. /\ db'.deliverable = db.deliverable
        /\ db'.status = IF to = "running" /\ db.sendAt THEN "scheduled" ELSE to
        /\ \A r \in Recipients : \/ db'.rcpt[r] = db.rcpt[r]
                                 \/ db.rcpt[r] \in Unsent /\ db'.rcpt[r] = "cancelled"
    BY <1>1, <2>1, ManualStatusOnly DEF Columns
  <2>3. Open' \subseteq Open
    BY <2>2 DEF Open, In, Unsent
  <2> QED
    BY <2>1, <2>2, <2>3 DEF MayBecome, Lifecycle!Control
<1>3. CASE UserRetry
  <2>1. db.status = "paused" /\ \E chosen : db' = RetrySelected(db, chosen)
    BY <1>3 DEF UserRetry
  <2>2. db'.deliverable = db.deliverable /\ db'.rcpt = db.rcpt /\ db'.status = "running"
    BY <1>1, <2>1, RetrySelectedOnly DEF Columns
  <2> QED
    BY <2>1, <2>2 DEF Open, In, Lifecycle!Control
<1>4. CASE SmtpRemove
  <2>1. db' = PauseForSMTP(db)
    BY <1>4 DEF SmtpRemove
  <2>2. Open' = Open
    BY <1>1, <2>1, ManagerOpen DEF SameOpen, Open
  <2>3. \/ db.status = "running" /\ db'.status = "paused"
        \/ db.status \in {"scheduled", "deferred"} /\ db'.status = "draft"
    BY <1>1, <2>1 DEF PauseForSMTP, ResetQueued, SetRows, DB
  <2> QED
    BY <2>2, <2>3 DEF Lifecycle!Disable
<1>5. CASE PoolUnsubscribe
  <2>1. PICK r \in Pool : db' = UnsubscribePool(db, r)
    BY <1>5 DEF PoolUnsubscribe
  <2> QED
    BY <1>1, <2>1, UnsubscribePoolFacts DEF Recipients
<1>6. CASE UserStop \/ SmtpStop \/ Undeliverable \/ RemoveRecipient
  BY <1>1, <1>6 DEF UserStop, SmtpStop, Undeliverable, RemoveRecipient, Remove, DB
<1> QED
  BY <1>2, <1>3, <1>4, <1>5, <1>6 DEF Users

LEMMA LifecycleStep ==
    ASSUME IInv, [Next]_vars
    PROVE  [Lifecycle!Next]_(Lifecycle!life)
<1>1. TypeOK /\ Counts /\ PipeObeys /\ EndedRows /\ Bounded /\ FinishRight
  BY DEF IInv, Core, Counts
<1>2. Open' \subseteq Recipients
  BY DEF Open, In
<1>3. CASE db'.status = db.status
  <2>1. db.status = "finished" => Open' \subseteq Open
    BY <1>1, FinishedShrinks
  <2>2. Lifecycle!Settle
    BY <1>2, <1>3, <2>1 DEF Lifecycle!Settle
  <2> QED
    BY <2>2 DEF Lifecycle!Next
<1>4. CASE db'.status # db.status /\ Users
  BY <1>1, <1>4, UsersLife DEF Lifecycle!Next
<1>5. CASE db'.status # db.status /\ ~Users
  <2>1. BackgroundMove(db.status, db'.status) /\ Open' = Open
    BY <1>1, <1>5, BackgroundLife DEF SameOpen, Open
  <2>2. db'.status = "finished" => Open = {} \/ Misled
    BY <1>1, <1>5, SettledAtEnd
  <2> QED
    BY <2>1, <2>2 DEF BackgroundMove, Lifecycle!Next, Lifecycle!Start, Lifecycle!Suspend,
                      Lifecycle!Finish
<1> QED
  BY <1>3, <1>4, <1>5

\* Every status is one the life of a campaign knows at that point, and finished comes only
\* when nobody is left or from a sender misled in one of the two ways of Misled, through
\* any number of pauses, resumes, retries, deletions, faults and crashes (NextCampaigns,
\* cleanup, DeferCampaign, UpdateCampaignStatus).
THEOREM LifecycleCorrect == Spec => ImplementsLifecycle
<1>1. Init => Lifecycle!Init
  <2> SUFFICES ASSUME Init PROVE Lifecycle!Init
    OBVIOUS
  <2>1. db.status \in {"draft", "scheduled", "running"} /\ db.deliverable = Recipients
        /\ \A r \in Recipients : db.rcpt[r] = "pending"
    BY DEF Init
  <2> QED
    BY <2>1 DEF Lifecycle!Init, Open, In, Unsent
<1>2. IInv /\ [Next]_vars => [Lifecycle!Next]_(Lifecycle!life)
  BY LifecycleStep
<1> QED
  BY <1>1, <1>2, InvariantCorrect, PTL DEF Spec, ImplementsLifecycle, Lifecycle!Spec

=============================================================================
