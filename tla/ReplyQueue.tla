----------------------------- MODULE ReplyQueue -----------------------------
(* The queue of answers: one event after the other is leased, given to the       *)
(* classifier and decided (cmd/reply_ai.go, core/reply_ai.go). A lease may run   *)
(* out while its holder waits for the classifier; another process then takes the *)
(* event, and what the first one still has to say must not count any more.       *)
EXTENDS ReplyScan

queueVars == <<mailbox, owner, leave, rule, settings, test, mail, arrived>>

(***************************************************************************)
(* Leases. A lease token is fresh with every claim; so is the number of     *)
(* attempts, which stands for it.                                          *)
(***************************************************************************)
Claimable(k) ==
    /\ event[k].attempts < MaxAttempts
    /\ \/ event[k].at \in {"pending", "failed"} /\ event[k].due
       \/ event[k].at = "processing" /\ event[k].lapsed

Held(p) == event[run[p].key].at = "processing" /\ event[run[p].key].attempts = run[p].attempt

Claim(p, k) ==
    /\ run[p].at = "queue" /\ Claimable(k)
    /\ event' = [event EXCEPT ![k].at = "processing", ![k].attempts = @ + 1,
                              ![k].lapsed = FALSE, ![k].due = FALSE]
    /\ run' = [run EXCEPT ![p] = [Idle EXCEPT !.at = "read", !.key = k,
                                              !.attempt = event[k].attempts + 1]]
    /\ UNCHANGED <<mailboxVars, cursor, ledger, waived>>

\* Nothing to claim, or the claim failed: the round is over.
QueueEmpty(p) ==
    /\ run[p].at = "queue"
    /\ run' = [run EXCEPT ![p] = Idle]
    /\ IF \E k \in Keys : Claimable(k) THEN Spend("faults") ELSE UNCHANGED left
    /\ UNCHANGED <<queueVars, customers, cursor, event, ledger, waived>>

\* Two minutes, and the five minutes before a failed event is due again.
Lapse(k) ==
    /\ event[k].at = "processing" /\ ~event[k].lapsed /\ Spend("lapses")
    /\ event' = [event EXCEPT ![k].lapsed = TRUE]
    /\ UNCHANGED <<queueVars, customers, cursor, ledger, run, waived>>

Due(k) ==
    /\ event[k].at = "failed" /\ ~event[k].due /\ event[k].attempts < MaxAttempts
    /\ event' = [event EXCEPT ![k].due = TRUE]
    /\ UNCHANGED <<mailboxVars, cursor, ledger, run, waived>>

(***************************************************************************)
(* One event: what it is about is read without a lock, the classifier is    *)
(* asked, and a transaction reads everything again before it acts.         *)
(***************************************************************************)
Permitted(k) == /\ settings.ai
                /\ Readable /\ mailbox.ai
                /\ event[k].from \in customers.found

ReadEvent(p) ==
    /\ run[p].at = "read"
    /\ run' = [run EXCEPT ![p].at = IF Permitted(run[p].key) THEN "classify" ELSE "finish"]
    /\ UNCHANGED <<mailboxVars, cursor, event, ledger, waived>>

\* Another intent, or too little confidence, ends the event.
Classify(p) ==
    /\ run[p].at = "classify"
    /\ \E verdict \in {"finish", "apply"} : run' = [run EXCEPT ![p].at = verdict]
    /\ UNCHANGED <<mailboxVars, cursor, event, ledger, waived>>

\* A complaint is a bounce as well.
Blocklisted(c, complaint) ==
    [customers EXCEPT !.blocked = @ \cup {c},
                      !.bounced = IF complaint THEN @ \cup {c} ELSE @]

\* Mutant: the transaction does not look at the lease again.
ApplyUnleased(p) ==
    LET k == run[p].key IN
    /\ run[p].at = "apply"
    /\ IF Permitted(k)
       THEN /\ event' = [event EXCEPT ![k].at = "processed", ![k].body = FALSE]
            /\ \E complaint \in BOOLEAN : customers' = Blocklisted(event[k].from, complaint)
            /\ run' = [run EXCEPT ![p] = [Idle EXCEPT !.at = "queue"]]
       ELSE /\ run' = [run EXCEPT ![p].at = "finish"]
            /\ UNCHANGED <<event, customers>>
    /\ UNCHANGED <<queueVars, left, cursor, ledger, waived>>

ApplyReplyAIAction(p) ==
    LET k == run[p].key IN
    /\ run[p].at = "apply"
    /\ IF settings.ai /\ ~Held(p)
       THEN /\ run' = [run EXCEPT ![p] = [Idle EXCEPT !.at = "queue"]]
            /\ UNCHANGED <<event, customers>>
       ELSE IF Permitted(k)
       THEN /\ event' = [event EXCEPT ![k].at = "processed", ![k].body = FALSE]
            /\ \E complaint \in BOOLEAN : customers' = Blocklisted(event[k].from, complaint)
            /\ run' = [run EXCEPT ![p] = [Idle EXCEPT !.at = "queue"]]
       ELSE /\ run' = [run EXCEPT ![p].at = "finish"]
            /\ UNCHANGED <<event, customers>>
    /\ UNCHANGED <<queueVars, left, cursor, ledger, waived>>

\* A statement whose lease is gone changes nothing, and is no error.
FinishReplyAIEvent(p) ==
    LET k == run[p].key IN
    /\ run[p].at = "finish"
    /\ event' = IF Held(p) THEN [event EXCEPT ![k].at = "ignored", ![k].body = FALSE] ELSE event
    /\ run' = [run EXCEPT ![p] = [Idle EXCEPT !.at = "queue"]]
    /\ UNCHANGED <<mailboxVars, cursor, ledger, waived>>

\* The database or the classifier fails.
WorkFails(p) ==
    /\ run[p].at \in {"read", "classify", "apply", "finish"} /\ Spend("faults")
    /\ run' = [run EXCEPT ![p].at = "fail"]
    /\ UNCHANGED <<queueVars, customers, cursor, event, ledger, waived>>

\* The last attempt drops the text of the answer.
FailReplyAIEvent(p) ==
    LET k == run[p].key IN
    /\ run[p].at = "fail"
    /\ event' = IF Held(p)
                THEN [event EXCEPT ![k].at = "failed", ![k].due = FALSE,
                                   ![k].body = @ /\ event[k].attempts < MaxAttempts]
                ELSE event
    /\ run' = [run EXCEPT ![p] = [Idle EXCEPT !.at = "queue"]]
    /\ UNCHANGED <<mailboxVars, cursor, ledger, waived>>

\* The error of that statement is ignored.
FailLost(p) ==
    /\ run[p].at = "fail" /\ Spend("faults")
    /\ run' = [run EXCEPT ![p] = [Idle EXCEPT !.at = "queue"]]
    /\ UNCHANGED <<queueVars, customers, cursor, event, ledger, waived>>

Crash(p) ==
    /\ run[p].at # "idle" /\ Spend("crashes")
    /\ run' = [run EXCEPT ![p] = Idle]
    /\ UNCHANGED <<queueVars, customers, cursor, event, ledger, waived>>

QueueStep(p) ==
    \/ \E k \in Keys : Claim(p, k)
    \/ QueueEmpty(p) \/ ReadEvent(p) \/ Classify(p)
    \/ ApplyReplyAIAction(p) \/ FinishReplyAIEvent(p)
    \/ WorkFails(p) \/ FailReplyAIEvent(p) \/ FailLost(p) \/ Crash(p)
=============================================================================
