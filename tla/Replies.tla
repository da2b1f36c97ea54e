------------------------------ MODULE Replies ------------------------------
(* A mailbox, its owner and managers, the scans, the queue of answers and the    *)
(* forwarding, all at once.                                                      *)
EXTENDS ReplyForwarder

vars == <<mailboxVars, scanVars, relayVars>>

Init == MailboxInit /\ ScanInit /\ RelayInit

Next ==
    \/ MailboxStep /\ UNCHANGED <<scanVars, relayVars>>
    \/ \E p \in Processes : ScanStep(p) /\ UNCHANGED relayVars
    \/ \E p \in Processes : QueueStep(p) /\ UNCHANGED relayVars
    \/ \E k \in Keys : (Lapse(k) \/ Due(k)) /\ UNCHANGED relayVars
    \/ \E p \in Processes : RelayStep(p)
    \/ \E k \in Keys : Backoff(k) \/ Outlive(k)

Spec == Init /\ [][Next]_vars

(***************************************************************************)
(* Properties.                                                             *)
(***************************************************************************)
EventType ==
    [at : {"none", "pending", "processing", "failed", "processed", "ignored"},
     attempts : 0..MaxAttempts, due : BOOLEAN, lapsed : BOOLEAN, body : BOOLEAN,
     from : Customers \cup {0}]

Scanning == {"open", "advanced", "fetched", "report", "record", "handled"}
Working == {"read", "classify", "apply", "finish", "fail"}

RunType ==
    [at : Scanning \cup Working \cup {"idle", "queue"}, conn : Conns \cup {"none"},
     ai : BOOLEAN, bounce : BOOLEAN, uid : Nat, upTo : Nat, i : Nat, key : Nat, attempt : Nat]

CustomersType ==
    [blocked : SUBSET Customers, bounced : SUBSET Customers, found : SUBSET Customers,
     hard : [Customers -> Nat], provider : [Customers -> Nat], told : [Customers -> Nat]]

TypeOK ==
    /\ mail \in Mailing /\ arrived \in 0..Len(mail) /\ left \in Budget
    /\ mailbox \in [conn : Conns, verified : BOOLEAN, scanning : BOOLEAN, ai : BOOLEAN,
                    bounce : BOOLEAN, status : {"pending", "active", "disabled", "retained"}]
    /\ settings \in [ai : BOOLEAN, bounce : BOOLEAN]
    /\ rule \in {"none", "active", "disabled"}
    /\ customers \in CustomersType
    /\ cursor \in [conn : Conns \cup {"none"}, uid : Nat] /\ cursor.uid <= arrived
    /\ event \in [Keys -> EventType]
    /\ ledger \in [Keys -> [Customers -> {"none", "ignored", "hard", "soft", "blocklisted"}]]
    /\ run \in [Processes -> RunType]
    /\ waived \subseteq Messages

\* The message is in the database, or it was passed while nobody wanted its kind.
Told(u, n) == u \in waived \/ \A i \in 1..n : ledger[mail[u].key][mail[u].to[i]] # "none"

Covered(u) ==
    IF IsReport(mail[u]) THEN Told(u, Len(mail[u].to))
    ELSE u \in waived \/ event[mail[u].key].at # "none"

CoveredUpTo(n) == \A u \in Messages : u <= n => Covered(u)

\* A scan opened the mailbox under a connection that was tested and reads messages that
\* arrived, and those behind it are covered; a worker has an event of the queue.
Sound(r) ==
    /\ r.conn # "none" => r.conn \in Good
    /\ r.at \in Scanning \ {"open"} => r.uid <= arrived /\ r.upTo <= arrived
    /\ r.at \in {"advanced", "handled"} => CoveredUpTo(r.uid)
    /\ r.at \in {"fetched", "report", "record", "handled"} => r.uid \in Messages
    /\ r.at \in {"fetched", "report", "record"} => CoveredUpTo(r.uid - 1)
    /\ r.at = "fetched" => r.i = 1
    /\ r.at \in {"report", "record"} =>
          /\ IsReport(mail[r.uid]) /\ Told(r.uid, r.i - 1)
          /\ r.i \in 1..Len(mail[r.uid].to) + (IF r.at = "report" THEN 1 ELSE 0)
    /\ r.at \in Working => r.key \in Keys

Counted(c) == {k \in Keys : ledger[k][c] \in {"hard", "blocklisted"}}

\* The state is well formed; a mailbox counts as verified, and is opened by a scan, only
\* under a connection that was tested, whatever was edited while a test was in flight;
\* and the bounces of a customer are exactly the reports in the ledger and those of the
\* providers, however often a report was read (TestReplyMailbox, RecordReplyBounce). The
\* cursor never passes a message that is in the database in no form: every message up to it
\* has its event, or a row of the ledger for each of its recipients, unless nobody wanted
\* that kind of message when it was read (replyIMAPCursor, ingestReplyAIMessage).
WellKept ==
    /\ TypeOK
    /\ mailbox.verified => mailbox.conn \in Good
    /\ CoveredUpTo(cursor.uid)
    /\ \A p \in Processes : Sound(run[p])
    /\ \A c \in Customers : customers.hard[c] = Cardinality(Counted(c)) + customers.provider[c]

Decided == {k \in Keys : event[k].at \in {"processed", "ignored"}}
Settled == {d \in Keys \X Customers : ledger[d[1]][d[2]] # "none"}

\* Nobody is blocklisted but by the step that decides an answer or a report, by a provider's
\* bounce or an administrator.
BlockedForReason ==
    \/ customers'.blocked \subseteq customers.blocked
    \/ left'.provider + left'.resent < left.provider + left.resent
    \/ \E k \in Keys \ Decided : event'[k].at = "processed"
    \/ \E d \in (Keys \X Customers) \ Settled : ledger'[d[1]][d[2]] = "blocklisted"

OutcomesKept ==
    /\ \A k \in Decided : event'[k] = event[k]
    /\ \A d \in Settled : ledger'[d[1]][d[2]] = ledger[d[1]][d[2]]
    /\ \A k \in Keys : fwd[k].at = "forwarded" => fwd'[k] = fwd[k]
    /\ BlockedForReason

\* What is decided stays decided: an answer's event, a report's row of the ledger and a
\* forwarded message keep their outcome whatever a late worker still does, and nobody is
\* blocklisted without a reason (finish-reply-ai-event, fail-reply-ai-event,
\* ApplyReplyAIAction).
DecidedOnce == [][OutcomesKept]_vars

Relaying(p) == relay[p].at \in {"push", "won", "lost"}

\* Whoever forwards a message holds the claim of its row, alone, until the outcome is known.
Claimed ==
    /\ fwd \in [Keys -> [at : {"none", "pending", "failed", "forwarded"}, attempts : Nat,
                         ready : BOOLEAN, stale : BOOLEAN]]
    /\ relay \in [Processes -> [at : {"idle", "visit", "push", "won", "lost"}, uid : Nat,
                                upTo : Nat, attempt : Nat]]
    /\ handed \in [Keys -> Nat] /\ torn \in [Keys -> Nat]
    /\ \A p \in Processes :
        /\ relay[p].uid <= relay[p].upTo /\ relay[p].upTo <= arrived
        /\ Relaying(p) =>
              /\ relay[p].uid \in Messages /\ OwnsRow(p) /\ ~fwd[RelayKey(p)].stale
              /\ \A q \in Processes : Relaying(q) /\ RelayKey(q) = RelayKey(p) => q = p

\* A message is handed to the sending queue once, and once more for each time the
\* database did not learn of it: claims never overlap, and what is forwarded or being
\* forwarded is not forwarded by another round (forwardOneReply).
ForwardedOnce ==
    /\ Claimed
    /\ \A k \in Keys :
        handed[k] = torn[k] + (IF fwd[k].at = "forwarded" THEN 1 ELSE 0)
                    + Cardinality({p \in Processes : relay[p].at = "won" /\ RelayKey(p) = k})
=============================================================================
