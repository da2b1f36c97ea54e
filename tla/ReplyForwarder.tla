--------------------------- MODULE ReplyForwarder ---------------------------
(* The forwarding of what arrives in the mailbox of a member who left            *)
(* (cmd/reply_forwarder.go). Every round reads all of the mailbox again; a row   *)
(* per message decides who may hand it to the sending queue. The forwarding scan *)
(* runs beside the one that reads answers, one per process.                      *)
EXTENDS ReplyQueue

VARIABLES
    fwd,            \* reply_forward_messages, by message key
    relay,          \* per process: its round
    handed,         \* per message key: how often the sending queue took it
    torn            \* per message key: handed over, and the row never learnt of it

relayVars == <<fwd, relay, handed, torn>>

NoRow == [at |-> "none", attempts |-> 0, ready |-> FALSE, stale |-> FALSE]
AtRest == [at |-> "idle", uid |-> 0, upTo |-> 0, attempt |-> 0]

RelayKey(p) == mail[relay[p].uid].key
Live(k) == \E p \in Processes : relay[p].at \in {"push", "won", "lost"} /\ RelayKey(p) = k

\* One statement selects the rules; a round that finds none does nothing.
RelaySelect(p) ==
    /\ relay[p].at = "idle" /\ left.rounds > 0
    /\ rule = "active" /\ mailbox.status = "retained" /\ mailbox.verified
    /\ left' = [left EXCEPT !.rounds = @ - 1]
    /\ relay' = [relay EXCEPT ![p] = [AtRest EXCEPT !.at = "visit", !.upTo = arrived]]
    /\ UNCHANGED <<queueVars, customers, scanVars, fwd, handed, torn>>

RelayDone(p) ==
    /\ relay[p].at = "visit"
    /\ \/ relay[p].uid = relay[p].upTo /\ UNCHANGED left
       \/ Spend("faults")
    /\ relay' = [relay EXCEPT ![p] = AtRest]
    /\ UNCHANGED <<queueVars, customers, scanVars, fwd, handed, torn>>

\* A message the round cannot read or does not forward is passed over.
Forwardable(m) == m.kind \in {"reply", "hard", "soft"}

\* Mutant: a row is taken over whoever still works on it.
ClaimableRowAnyway(k) ==
    \/ fwd[k].at = "none"
    \/ fwd[k].at = "failed" /\ fwd[k].attempts < MaxForwards /\ fwd[k].ready
    \/ fwd[k].at = "pending"

\* A failure whose backoff is over, or a claim that outlived its lease.
ClaimableRow(k) ==
    \/ fwd[k].at = "none"
    \/ fwd[k].at = "failed" /\ fwd[k].attempts < MaxForwards /\ fwd[k].ready
    \/ fwd[k].at = "pending" /\ fwd[k].stale

RelayClaim(p) ==
    LET u == relay[p].uid + 1
        k == mail[u].key
        mine == Forwardable(mail[u]) /\ ClaimableRow(k)
    IN /\ relay[p].at = "visit" /\ relay[p].uid < relay[p].upTo
       /\ fwd' = IF mine THEN [fwd EXCEPT ![k] = [at |-> "pending", attempts |-> @.attempts + 1,
                                                  ready |-> FALSE, stale |-> FALSE]]
                 ELSE fwd
       /\ relay' = [relay EXCEPT ![p].uid = u,
                                 ![p].at = IF mine THEN "push" ELSE "visit",
                                 ![p].attempt = IF mine THEN fwd[k].attempts + 1 ELSE 0]
       /\ UNCHANGED <<mailboxVars, scanVars, handed, torn>>

\* The queue of the campaign manager takes the message, or is full for three seconds.
PushMessage(p) ==
    /\ relay[p].at = "push"
    /\ relay' = [relay EXCEPT ![p].at = "won"]
    /\ handed' = [handed EXCEPT ![RelayKey(p)] = @ + 1]
    /\ UNCHANGED <<mailboxVars, scanVars, fwd, torn>>

PushFails(p) ==
    /\ relay[p].at = "push" /\ Spend("faults")
    /\ relay' = [relay EXCEPT ![p].at = "lost"]
    /\ UNCHANGED <<queueVars, customers, scanVars, fwd, handed, torn>>

\* The outcome is written where the claim still is the one of this attempt.
OwnsRow(p) == LET row == fwd[RelayKey(p)] IN row.at = "pending" /\ row.attempts = relay[p].attempt

Outlived(p, status) == IF OwnsRow(p) THEN [fwd EXCEPT ![RelayKey(p)].at = status] ELSE fwd

RecordReplyForwardSuccess(p) ==
    /\ relay[p].at = "won"
    /\ fwd' = Outlived(p, "forwarded")
    /\ relay' = [relay EXCEPT ![p].at = "visit"]
    /\ UNCHANGED <<mailboxVars, scanVars, handed, torn>>

RecordReplyForwardFailure(p) ==
    /\ relay[p].at = "lost"
    /\ fwd' = Outlived(p, "failed")
    /\ relay' = [relay EXCEPT ![p].at = "visit"]
    /\ UNCHANGED <<mailboxVars, scanVars, handed, torn>>

\* The database loses the outcome; the lease makes up for it later. After a success
\* the message goes out again.
OutcomeLost(p) ==
    /\ relay[p].at \in {"won", "lost"} /\ Spend("faults")
    /\ relay' = [relay EXCEPT ![p].at = "visit"]
    /\ torn' = [torn EXCEPT ![RelayKey(p)] = IF relay[p].at = "won" THEN @ + 1 ELSE @]
    /\ UNCHANGED <<queueVars, customers, scanVars, fwd, handed>>

RelayCrash(p) ==
    /\ relay[p].at # "idle" /\ Spend("crashes")
    /\ relay' = [relay EXCEPT ![p] = AtRest]
    /\ torn' = IF relay[p].at = "won" THEN [torn EXCEPT ![RelayKey(p)] = @ + 1] ELSE torn
    /\ UNCHANGED <<queueVars, customers, scanVars, fwd, handed>>

\* The backoff of a failure ends. A lease of five minutes ends only when its holder
\* is gone: an attempt takes three seconds.
Backoff(k) ==
    /\ fwd[k].at = "failed" /\ ~fwd[k].ready /\ fwd[k].attempts < MaxForwards
    /\ fwd' = [fwd EXCEPT ![k].ready = TRUE]
    /\ UNCHANGED <<mailboxVars, scanVars, relay, handed, torn>>

Outlive(k) ==
    /\ fwd[k].at = "pending" /\ ~fwd[k].stale /\ ~Live(k)
    /\ fwd' = [fwd EXCEPT ![k].stale = TRUE]
    /\ UNCHANGED <<mailboxVars, scanVars, relay, handed, torn>>

RelayInit ==
    /\ fwd = [k \in Keys |-> NoRow]
    /\ relay = [p \in Processes |-> AtRest]
    /\ handed = [k \in Keys |-> 0]
    /\ torn = [k \in Keys |-> 0]

RelayStep(p) ==
    \/ RelaySelect(p) \/ RelayDone(p) \/ RelayClaim(p)
    \/ PushMessage(p) \/ PushFails(p)
    \/ RecordReplyForwardSuccess(p) \/ RecordReplyForwardFailure(p) \/ OutcomeLost(p)
    \/ RelayCrash(p)
=============================================================================
