---------------------------- MODULE ReplyMailbox ----------------------------
(* One mailbox of an organization in which customers' answers and delivery       *)
(* reports arrive (cmd/reply_mailboxes.go, queries/replies.sql): its connection, *)
(* the verification of that connection, the switches under which it is read,     *)
(* and what becomes of it when its owner leaves the organization.                *)
EXTENDS Integers, Sequences, FiniteSets

CONSTANTS
    Conns,          \* connection settings: server, port, folder, user and password
    Forms,          \* what the owner may submit: a connection and three switches
    Good,           \* those under which the mail server lets the application in
    Customers,
    Processes,      \* servers, or an overrun scan going on beside the next one
    Threshold,      \* bounce.actions.hard.count, with the action "blocklist"
    MaxAttempts,    \* attempts at a reply (3 in queries/replies.sql)
    MaxForwards,    \* replyForwardMaxAttempts
    ScanBatch,      \* replyAIMaxMessages
    Bounds          \* scenarios: the mail that arrives, and how often anything else happens

\* Messages have the key they are recorded under, and an answer has a sender.
Mailing ==
    {m \in Seq([kind : {"reply", "hard", "soft", "broken", "large"}, key : Nat, to : Seq(Customers)]) :
        \A u \in 1..Len(m) : m[u].kind = "reply" => m[u].to # <<>>}

Budget ==
    [edits : Nat, tests : Nat, leaves : Nat, rules : Nat, switches : Nat, moves : Nat, unblocks : Nat,
     provider : Nat, resent : Nat, scans : [Processes -> Nat], rounds : Nat, faults : Nat,
     crashes : Nat, lapses : Nat]

ASSUME ReplyAssumption ==
    /\ Good \subseteq Conns /\ Good # {}
    /\ Forms \subseteq [conn : Conns, scanning : BOOLEAN, ai : BOOLEAN, bounce : BOOLEAN]
    /\ Threshold \in Nat \ {0}
    /\ MaxAttempts \in Nat \ {0}
    /\ MaxForwards \in Nat \ {0}
    /\ ScanBatch \in Nat \ {0}
    /\ \A b \in Bounds : b.mail \in Mailing /\ b.arrived \in 0..Len(b.mail) /\ b.left \in Budget

VARIABLES
    mailbox,        \* the row of reply_mailboxes
    owner,          \* the owner's account, and their membership in the active organization
    leave,          \* the request that removes the owner: "no", "retain", "rule"
    rule,           \* the row of reply_forward_rules: "none", "active", "disabled"
    settings,       \* the platform's settings reply_ai and bounce.enabled
    test,           \* a connection test in flight: what it read of the mailbox
    customers,      \* who is blocklisted or excluded, whose delivery is found, bounce rows,
                    \* and how many bounces the providers told of
    mail,           \* the messages of the mailbox in UID order, arrived or not
    arrived,        \* how many have arrived
    left            \* what may still happen, per kind

mailboxVars == <<mailbox, owner, leave, rule, settings, test, customers, mail, arrived, left>>

NoTest == [conn |-> "none", status |-> "none"]
Spend(what) == left[what] > 0 /\ left' = [left EXCEPT ![what] = @ - 1]

\* What an edit and a test of the connection leave alone.
Kept == {"disabled", "retained"}

(***************************************************************************)
(* The owner's requests.                                                   *)
(***************************************************************************)
\* workspaceAccess and the user_id of every statement.
Owns == owner.enabled /\ owner.member

\* Without scanning, only the address is kept up: the connection stays as saved.
UpdateReplyMailbox(form) ==
    LET moved == form.scanning /\ form.conn # mailbox.conn IN
    /\ Owns /\ Spend("edits")
    /\ mailbox' = [conn |-> IF form.scanning THEN form.conn ELSE mailbox.conn,
                   verified |-> mailbox.verified /\ ~moved,
                   scanning |-> form.scanning, ai |-> form.ai, bounce |-> form.bounce,
                   status |-> IF mailbox.status \in Kept THEN mailbox.status
                              ELSE IF ~form.scanning THEN "active"
                              ELSE IF moved \/ ~mailbox.verified THEN "pending"
                              ELSE mailbox.status]
    /\ UNCHANGED <<owner, leave, rule, settings, test, customers, mail, arrived>>

\* The test reads the saved connection, then talks to the mail server.
TestReplyMailbox ==
    /\ Owns /\ mailbox.scanning /\ test = NoTest /\ Spend("tests")
    /\ test' = [conn |-> mailbox.conn, status |-> mailbox.status]
    /\ UNCHANGED <<mailbox, owner, leave, rule, settings, customers, mail, arrived>>

\* Mutant: the answer counts for whatever connection is saved by now.
TestAppliesAlways == test.conn \in Good /\ mailbox.scanning

TestApplies ==
    /\ test.conn \in Good
    /\ mailbox.scanning
    /\ mailbox.conn = test.conn
    /\ mailbox.status = test.status

TestAnswered ==
    /\ test # NoTest
    /\ test' = NoTest
    /\ mailbox' = IF TestApplies
                  THEN [mailbox EXCEPT !.verified = TRUE,
                                       !.status = IF @ \in Kept THEN @ ELSE "active"]
                  ELSE mailbox
    /\ UNCHANGED <<owner, leave, rule, settings, customers, mail, arrived, left>>

DisableReplyMailbox ==
    /\ Owns /\ Spend("edits")
    /\ mailbox' = [mailbox EXCEPT !.status = "disabled"]
    /\ UNCHANGED <<owner, leave, rule, settings, test, customers, mail, arrived>>

EnableReplyMailbox ==
    /\ Owns /\ mailbox.status = "disabled" /\ Spend("edits")
    /\ mailbox' = [mailbox EXCEPT !.status = IF ~mailbox.scanning \/ mailbox.verified
                                             THEN "active" ELSE "pending"]
    /\ UNCHANGED <<owner, leave, rule, settings, test, customers, mail, arrived>>

(***************************************************************************)
(* The owner leaves: the membership ends, then the mailbox is retained, then *)
(* the rule that forwards its mail to a manager is written.                 *)
(***************************************************************************)
MemberLeaves ==
    /\ owner.member /\ leave = "no" /\ Spend("leaves")
    /\ owner' = [owner EXCEPT !.member = FALSE]
    /\ leave' = "retain"
    /\ UNCHANGED <<mailbox, rule, settings, test, customers, mail, arrived>>

RetainMailbox ==
    /\ leave = "retain"
    /\ mailbox' = IF mailbox.verified THEN [mailbox EXCEPT !.status = "retained"] ELSE mailbox
    /\ leave' = IF mailbox.verified THEN "rule" ELSE "no"
    /\ UNCHANGED <<owner, rule, settings, test, customers, mail, arrived, left>>

CreateRule ==
    /\ leave = "rule"
    /\ rule' = "active"
    /\ leave' = "no"
    /\ UNCHANGED <<mailbox, owner, settings, test, customers, mail, arrived, left>>

MemberReturns ==
    /\ ~owner.member /\ leave = "no" /\ Spend("leaves")
    /\ owner' = [owner EXCEPT !.member = TRUE]
    /\ UNCHANGED <<mailbox, leave, rule, settings, test, customers, mail, arrived>>

\* A manager pauses or resumes the forwarding.
UpdateReplyForwardRule(status) ==
    /\ rule # "none" /\ rule # status /\ Spend("rules")
    /\ rule' = status
    /\ UNCHANGED <<mailbox, owner, leave, settings, test, customers, mail, arrived>>

(***************************************************************************)
(* What happens around the mailbox.                                        *)
(***************************************************************************)
SwitchSetting(name) ==
    /\ Spend("switches")
    /\ settings' = [settings EXCEPT ![name] = ~@]
    /\ UNCHANGED <<mailbox, owner, leave, rule, test, customers, mail, arrived>>

SwitchOwner ==
    /\ Spend("switches")
    /\ owner' = [owner EXCEPT !.enabled = ~@]
    /\ UNCHANGED <<mailbox, leave, rule, settings, test, customers, mail, arrived>>

\* A message to customer c stops or starts being attributable: a transfer, a deletion.
DeliveryMoves(c) ==
    /\ Spend("moves")
    /\ customers' = [customers EXCEPT !.found = IF c \in @ THEN @ \ {c} ELSE @ \cup {c}]
    /\ UNCHANGED <<mailbox, owner, leave, rule, settings, test, mail, arrived>>

Arrive ==
    /\ arrived < Len(mail)
    /\ arrived' = arrived + 1
    /\ UNCHANGED <<mailbox, owner, leave, rule, settings, test, customers, mail, left>>

\* An administrator takes a customer off the blocklist.
Unblock(c) ==
    /\ c \in customers.blocked /\ Spend("unblocks")
    /\ customers' = [customers EXCEPT !.blocked = @ \ {c}]
    /\ UNCHANGED <<mailbox, owner, leave, rule, settings, test, mail, arrived>>

\* A bounce reported by a mail provider: the row that brings the count to the threshold
\* is the last one written, and nothing is written of a blocklisted customer.
Bounced(c) ==
    LET num == customers.hard[c] + 1
        written == c \notin customers.blocked /\ num <= Threshold
    IN [customers EXCEPT
           !.hard[c] = IF written THEN num ELSE @,
           !.provider[c] = IF written THEN @ + 1 ELSE @,
           !.bounced = IF written THEN @ \cup {c} ELSE @,
           !.blocked = IF num >= Threshold THEN @ \cup {c} ELSE @]

RecordBounce(c) ==
    /\ Spend("provider")
    /\ customers' = [Bounced(c) EXCEPT !.told[c] = @ + 1]
    /\ UNCHANGED <<mailbox, owner, leave, rule, settings, test, mail, arrived>>

\* The queue was full at a later event of the same call: the provider sends it all again.
ResendBounce(c) ==
    /\ customers.told[c] > 0 /\ Spend("resent")
    /\ customers' = Bounced(c)
    /\ UNCHANGED <<mailbox, owner, leave, rule, settings, test, mail, arrived>>

\* Every customer with a bounce row, of whatever type, is blocklisted.
BlocklistBouncedCustomers ==
    /\ Spend("provider")
    /\ customers' = [customers EXCEPT !.blocked = @ \cup customers.bounced]
    /\ UNCHANGED <<mailbox, owner, leave, rule, settings, test, mail, arrived>>

MailboxInit ==
    /\ \E b \in Bounds : /\ mail = b.mail
                         /\ left = b.left
                         /\ arrived = b.arrived
    /\ mailbox \in [conn : {CHOOSE c \in Good : TRUE}, verified : {TRUE}, scanning : {TRUE},
                    ai : {TRUE}, bounce : {TRUE}, status : {"active"}]
    /\ owner = [enabled |-> TRUE, member |-> TRUE]
    /\ leave = "no"
    /\ rule = "none"
    /\ settings = [ai |-> TRUE, bounce |-> TRUE]
    /\ test = NoTest
    /\ customers = [blocked |-> {}, bounced |-> {}, found |-> Customers,
                    hard |-> [c \in Customers |-> 0], provider |-> [c \in Customers |-> 0],
                    told |-> [c \in Customers |-> 0]]

MailboxStep ==
    \/ \E form \in Forms : UpdateReplyMailbox(form)
    \/ TestReplyMailbox \/ TestAnswered
    \/ DisableReplyMailbox \/ EnableReplyMailbox
    \/ MemberLeaves \/ RetainMailbox \/ CreateRule \/ MemberReturns
    \/ \E status \in {"active", "disabled"} : UpdateReplyForwardRule(status)
    \/ \E name \in {"ai", "bounce"} : SwitchSetting(name)
    \/ SwitchOwner
    \/ \E c \in Customers : DeliveryMoves(c) \/ Unblock(c) \/ RecordBounce(c) \/ ResendBounce(c)
    \/ BlocklistBouncedCustomers
    \/ Arrive
=============================================================================
