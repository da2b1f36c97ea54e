----------------------------- MODULE ReplyScan -----------------------------
(* The scan that reads new mail into the queue of answers and the ledger of     *)
(* delivery reports (cmd/reply_ai.go, cmd/reply_imap.go, core/reply_bounce.go).  *)
(* It deletes nothing and remembers how far it came in a cursor. Two scans of one *)
(* mailbox may overlap: another server's, or one that overran its time limit.    *)
EXTENDS ReplyMailbox

VARIABLES
    cursor,         \* the row of reply_mailbox_scan_cursors
    event,          \* reply_ai_events: the answers, by message key
    ledger,         \* reply_bounce_events: the reports, by message key and recipient; of a
                    \* recorded one the type of the bounce
    run,            \* per process: its scan, or the answer it is working on
    waived          \* of the messages: those passed while nobody wanted their kind

scanVars == <<cursor, event, ledger, run, waived>>

Messages == 1..Len(mail)
Keys == {mail[u].key : u \in Messages}

NoEvent == [at |-> "none", attempts |-> 0, due |-> FALSE, lapsed |-> FALSE, body |-> FALSE,
            from |-> 0]
NewEvent(m) == [NoEvent EXCEPT !.at = "pending", !.due = TRUE, !.body = TRUE, !.from = m.to[1]]
Unread == [NoEvent EXCEPT !.at = "ignored"]

Idle == [at |-> "idle", conn |-> "none", ai |-> FALSE, bounce |-> FALSE, uid |-> 0, upTo |-> 0,
         i |-> 0, key |-> 0, attempt |-> 0]

\* The message a scan is at, and the recipient of a report.
Current(p) == mail[run[p].uid]
Recipient(p) == Current(p).to[run[p].i]

(***************************************************************************)
(* Which mailbox is scanned, and from where.                               *)
(***************************************************************************)
\* get-reply-ai-mailboxes: the row and both settings in one statement.
Wanted(kind) == mailbox[kind] /\ settings[kind]
Readable == mailbox.status = "active" /\ mailbox.scanning /\ mailbox.verified /\ Owns
Selected == Readable /\ (Wanted("ai") \/ Wanted("bounce"))

ScanSelect(p) ==
    /\ run[p].at = "idle" /\ left.scans[p] > 0
    /\ left' = [left EXCEPT !.scans[p] = @ - 1]
    /\ run' = [run EXCEPT ![p] =
           IF Selected THEN [Idle EXCEPT !.at = "open", !.conn = mailbox.conn,
                                         !.ai = Wanted("ai"), !.bounce = Wanted("bounce")]
           ELSE [Idle EXCEPT !.at = "queue"]]
    /\ UNCHANGED <<mailbox, owner, leave, rule, settings, test, customers, mail, arrived,
                   cursor, event, ledger, waived>>

\* The cursor counts only for the connection it was written under.
ScanOpen(p) ==
    LET last == IF cursor.conn = run[p].conn THEN cursor.uid ELSE 0
        seen == IF arrived - last > ScanBatch THEN last + ScanBatch ELSE arrived
    IN /\ run[p].at = "open" /\ run[p].conn \in Good
       /\ run' = [run EXCEPT ![p].at = "advanced", ![p].uid = last, ![p].upTo = seen]
       /\ UNCHANGED <<mailboxVars, cursor, event, ledger, waived>>

ScanDone(p) ==
    /\ run[p].at = "advanced" /\ run[p].uid >= run[p].upTo
    /\ run' = [run EXCEPT ![p] = [Idle EXCEPT !.at = "queue"]]
    /\ UNCHANGED <<mailboxVars, cursor, event, ledger, waived>>

(***************************************************************************)
(* One message: an answer, a report, a malformed one, one that is too large. *)
(* The switches are those read when the scan began.                        *)
(***************************************************************************)
IsReport(m) == m.kind \in {"hard", "soft"}

ScanNext(p) ==
    /\ run[p].at = "advanced" /\ run[p].uid < run[p].upTo
    /\ run' = [run EXCEPT ![p].at = "fetched", ![p].uid = @ + 1, ![p].i = 1]
    /\ UNCHANGED <<mailboxVars, cursor, event, ledger, waived>>

\* What ingestion makes of a message that is not a report: the row to be inserted.
Row(p) ==
    LET m == Current(p) IN
    IF m.kind = "large" \/ (m.kind = "broken" /\ run[p].ai) THEN Unread
    ELSE IF m.kind = "reply" /\ run[p].ai THEN NewEvent(m)
    ELSE NoEvent

\* ON CONFLICT (reply_mailbox_id, message_key) DO NOTHING.
Inserted(key, row) == IF event[key].at = "none" THEN row ELSE event[key]

IngestMessage(p) ==
    LET m == Current(p) IN
    /\ run[p].at = "fetched" /\ ~IsReport(m)
    /\ event' = [event EXCEPT ![m.key] = Inserted(m.key, Row(p))]
    /\ waived' = IF Row(p).at = "none" THEN waived \cup {run[p].uid} ELSE waived
    /\ run' = [run EXCEPT ![p].at = "handled"]
    /\ UNCHANGED <<mailboxVars, cursor, ledger>>

IngestReport(p) ==
    /\ run[p].at = "fetched" /\ IsReport(Current(p))
    /\ run' = [run EXCEPT ![p].at = IF run[p].bounce THEN "report" ELSE "handled"]
    /\ waived' = IF run[p].bounce THEN waived ELSE waived \cup {run[p].uid}
    /\ UNCHANGED <<mailboxVars, cursor, event, ledger>>

(***************************************************************************)
(* A report, one recipient after the other: the delivery is looked up, then *)
(* a transaction checks everything again and writes what follows from it.   *)
(***************************************************************************)
ResolveRecipient(p) ==
    LET m == Current(p) IN
    /\ run[p].at = "report" /\ run[p].i <= Len(m.to)
    /\ IF Recipient(p) \in customers.found
       THEN /\ run' = [run EXCEPT ![p].at = "record"]
            /\ UNCHANGED ledger
       ELSE /\ run' = [run EXCEPT ![p].i = @ + 1]
            /\ ledger' = [ledger EXCEPT ![m.key][Recipient(p)] = IF @ = "none" THEN "ignored"
                                                                 ELSE @]
    /\ UNCHANGED <<mailboxVars, cursor, event, waived>>

\* What stands against recording a bounce of c, when the transaction looks.
Ignored(c) ==
    \/ ~(Readable /\ mailbox.bounce /\ settings.bounce)
    \/ c \notin customers.found
    \/ c \in customers.blocked

\* The owner's account disabled: no row. A recipient decided before: no change.
Outcome(m, c) ==
    LET num == customers.hard[c] + 1 IN
    IF ~owner.enabled \/ ledger[m.key][c] # "none" THEN ledger[m.key][c]
    ELSE IF Ignored(c) THEN "ignored"
    ELSE IF m.kind = "hard" /\ num >= Threshold THEN "blocklisted"
    ELSE m.kind

RecordReplyBounce(p) ==
    LET m == Current(p)
        c == Recipient(p)
        counts == /\ Outcome(m, c) # ledger[m.key][c]
                  /\ Outcome(m, c) \in {"hard", "soft", "blocklisted"}
    IN /\ run[p].at = "record"
       /\ ledger' = [ledger EXCEPT ![m.key][c] = Outcome(m, c)]
       /\ customers' = [customers EXCEPT
              !.hard[c] = IF counts /\ m.kind = "hard" THEN @ + 1 ELSE @,
              !.bounced = IF counts THEN @ \cup {c} ELSE @,
              !.blocked = IF counts /\ Outcome(m, c) = "blocklisted" THEN @ \cup {c} ELSE @]
       /\ waived' = IF owner.enabled THEN waived ELSE waived \cup {run[p].uid}
       /\ run' = [run EXCEPT ![p].at = "report", ![p].i = @ + 1]
       /\ UNCHANGED <<mailbox, owner, leave, rule, settings, test, mail, arrived, left,
                      cursor, event>>

ReportDone(p) ==
    /\ run[p].at = "report" /\ run[p].i > Len(Current(p).to)
    /\ run' = [run EXCEPT ![p].at = "handled"]
    /\ UNCHANGED <<mailboxVars, cursor, event, ledger, waived>>

(***************************************************************************)
(* The cursor moves when the message is in the database: under another      *)
(* connection it starts over, under the same one it never goes back.        *)
(***************************************************************************)
Advanced(p) ==
    [conn |-> run[p].conn,
     uid |-> IF cursor.conn = run[p].conn /\ cursor.uid > run[p].uid THEN cursor.uid
             ELSE run[p].uid]

ScanAdvance(p) ==
    /\ run[p].at = "handled"
    /\ cursor' = Advanced(p)
    /\ run' = [run EXCEPT ![p].at = "advanced"]
    /\ UNCHANGED <<mailboxVars, event, ledger, waived>>

\* The mail server or the database fails, or the time is up: the scan ends where it is.
ScanFails(p) ==
    /\ run[p].at \in {"open", "advanced", "fetched", "report", "record", "handled"}
    /\ \/ run[p].conn \notin Good /\ UNCHANGED left
       \/ Spend("faults")
    /\ run' = [run EXCEPT ![p] = [Idle EXCEPT !.at = "queue"]]
    /\ UNCHANGED <<mailbox, owner, leave, rule, settings, test, customers, mail, arrived,
                   cursor, event, ledger, waived>>

ScanInit ==
    /\ cursor = [conn |-> "none", uid |-> 0]
    /\ event = [k \in Keys |-> NoEvent]
    /\ ledger = [k \in Keys |-> [c \in Customers |-> "none"]]
    /\ run = [p \in Processes |-> Idle]
    /\ waived = {}

ScanStep(p) ==
    \/ ScanSelect(p) \/ ScanOpen(p) \/ ScanDone(p) \/ ScanNext(p)
    \/ IngestMessage(p) \/ IngestReport(p)
    \/ ResolveRecipient(p) \/ RecordReplyBounce(p) \/ ReportDone(p)
    \/ ScanAdvance(p) \/ ScanFails(p)
=============================================================================
