--------------------------- MODULE Subscriptions ---------------------------
(***************************************************************************)
(* Customers, lists and memberships as operators and imports change them.  *)
(*                                                                         *)
(* PostgreSQL runs at READ COMMITTED. A handler reads before its           *)
(* transaction begins; a transaction that locks its customers first sees   *)
(* what was committed until then; a statement without that lock keeps the  *)
(* snapshot it began with, however long it waits for a row, and does not   *)
(* see the memberships that another transaction inserts meanwhile.         *)
(*                                                                         *)
(* refused and blocked are history variables: what was taken away from a   *)
(* campaign and has not been given back on purpose.                        *)
(***************************************************************************)
EXTENDS Integers, FiniteSets

CONSTANTS
    Customers,
    Lists,
    Bounds   \* bound: how many operations of each kind an instance makes, and its tables

VARIABLES
    customer,    \* customers.status, "none" where there is no row
    membership,  \* customer_list_memberships.status of a customer and a list
    list,        \* customer_lists.type
    double,      \* lists with a double opt-in
    writer,      \* an open transaction: the rows it locks, what it commits
    statement,   \* a statement that runs on the snapshot it began with
    request,     \* a request of an operator that passed its handler
    form,        \* a page of a recipient that is being handled
    recipient,   \* campaign_recipients of the campaign
    refused,     \* memberships that were unsubscribed
    blocked,     \* customers an operator or the automation blocklisted
    left         \* operations left of the instance's bound, and campaigns.type

Pairs == Customers \X Lists
Statuses == {"none", "unconfirmed", "confirmed", "unsubscribed"}
Blockable == {"enabled", "disabled", "blocklisted"}
Operations == {"none", "edit", "add", "remove", "unsubscribe", "block", "unblock", "delete",
               "delete lists", "prune lists", "prune locked"}

\* A membership belongs to a customer there is.
ASSUME SubscriptionsAssumption ==
    \A b \in Bounds :
        /\ b.customers \in [Customers -> Blockable \cup {"none"}]
        /\ b.lists \in [Lists -> {"none", "private", "public", "deleted"}]
        /\ b.double \subseteq Lists
        /\ b.membership \in [Pairs -> Statuses]
        /\ \A p \in Pairs : b.membership[p] # "none" => b.customers[p[1]] # "none"

NoWriter == [who |-> {}, status |-> "none", rows |-> {}, to |-> [p \in Pairs |-> "none"],
             blocks |-> FALSE, overwrites |-> FALSE]
NoStatement == [kind |-> "none", who |-> {}, seen |-> {}]
NoRequest == [op |-> "none", who |-> {}, lists |-> {}, permitted |-> {}, status |-> "",
              membership |-> "", locked |-> {}]
NoForm == [at |-> "none", who |-> {}, lists |-> {}, status |-> ""]

SubscriptionsTypeOK ==
    /\ customer \in [Customers -> Blockable \cup {"none"}]
    /\ membership \in [Pairs -> Statuses]
    /\ list \in [Lists -> {"none", "private", "public", "deleted"}]
    /\ double \subseteq Lists
    /\ writer \in [who : SUBSET Customers, status : Blockable \cup {"none"}, rows : SUBSET Pairs,
                   to : [Pairs -> Statuses], blocks : BOOLEAN, overwrites : BOOLEAN]
    /\ statement \in [kind : {"none", "unsubscribe", "block", "orphans"},
                      who : SUBSET Customers, seen : SUBSET Pairs]
    /\ request \in [op : Operations, who : SUBSET Customers, lists : SUBSET Lists,
                    permitted : SUBSET Lists, status : Blockable \cup {""},
                    membership : Statuses \cup {""}, locked : SUBSET Customers]
    /\ form \in [at : {"none", "profile", "read", "unsubscribe", "confirm"},
                 who : SUBSET Customers, lists : SUBSET Lists, status : Blockable \cup {""}]
    /\ recipient \in [Customers -> {"none", "pending", "queued"}]
    /\ refused \subseteq Pairs /\ blocked \subseteq Customers

SubscriptionsInit ==
    /\ \E b \in Bounds :
        /\ left = b.left
        /\ customer = b.customers /\ list = b.lists
        /\ membership = b.membership /\ double = b.double
    /\ writer = NoWriter /\ statement = NoStatement /\ request = NoRequest /\ form = NoForm
    /\ recipient = [c \in Customers |-> "none"]
    /\ refused = {} /\ blocked = {}

Spend(kind) == left[kind] > 0 /\ left' = [left EXCEPT ![kind] = @ - 1]

-----------------------------------------------------------------------------
(* Statements, as functions of the memberships they find. *)

Exists(C) == \A c \in C : customer[c] # "none"
Live(L) == {l \in L : list[l] \in {"private", "public"}}
Of(C) == {p \in Pairs : p[1] \in C}
Held(C) == {p \in Of(C) : membership[p] # "none"}

Put(m, P, s) == [p \in Pairs |-> IF p \in P THEN s ELSE m[p]]

\* upsert-workspace-customer, and the second statement of the public form.
Upserted(P, status, s, overwrite) ==
    Put(membership, {p \in P : overwrite \/ membership[p] = "none"},
        IF status = "blocklisted" THEN "unsubscribed" ELSE s)

\* add-customers-to-customer-lists: without a status, the one there is stays.
Added(P, s) ==
    IF s = "" THEN Put(membership, {p \in P : membership[p] = "none"}, "unconfirmed")
    ELSE Put(membership, P, s)

\* unsubscribe-customers-from-customer-lists.
Unsubscribed(P) == Put(membership, {p \in P : membership[p] # "none"}, "unsubscribed")

\* Mutant: the lists of the form are all as the form says.
EditedAll(c, L, permitted, status, s) ==
    Put(Put(membership, {c} \X (permitted \ L), "none"), {c} \X L, s)

\* update-customer-with-customer-lists: what was confirmed or unsubscribed stays.
Edited(c, L, permitted, status, s) ==
    LET kept == Put(membership, {c} \X (permitted \ L), "none")
        given == {c} \X L
    IN  IF status = "blocklisted" THEN Put(kept, given, "unsubscribed")
        ELSE Put(kept, {p \in given : kept[p] \in {"none", "unconfirmed"}}, s)

-----------------------------------------------------------------------------
(* Locks. *)

\* No other transaction holds a row of these customers.
Free(C) == C \cap (writer.who \cup request.locked) = {}

\* Nor a row of these memberships: one that is only inserted is not seen, and is no obstacle.
Unlocked(P) == ~\E p \in P \cap writer.rows : membership[p] # "none"

\* The rows of lists are locked against a transaction that inserts memberships of theirs.
Settled(L) == \A p \in writer.rows : p[2] \notin L

tables == <<customer, membership, list, double>>
history == <<refused, blocked>>

Drop(P) ==
    /\ membership' = Put(membership, P, "none")
    /\ refused' = refused \ P

\* Customers take their places in the campaign along; what is under way for them finds
\* that they are gone, even when the address comes back.
Delete(C) ==
    /\ customer' = [c \in Customers |-> IF c \in C THEN "none" ELSE customer[c]]
    /\ recipient' = [c \in Customers |-> IF c \in C THEN "none" ELSE recipient[c]]
    /\ blocked' = blocked \ C
    /\ form' = IF form.who \cap C = {} THEN form ELSE NoForm

StatementWithout(C) ==
    IF statement.who \subseteq C THEN NoStatement
    ELSE [statement EXCEPT !.who = @ \ C, !.seen = @ \ Of(C)]

\* Nothing of a request is done when a row it names is gone.
RequestWithout(C) == IF request.who \cap C = {} THEN request ELSE NoRequest

-----------------------------------------------------------------------------
(* Handlers of operators: each reads, checks and leaves a request. *)

Ask(op, C, L, permitted, status, s) ==
    /\ Spend("operator")
    /\ request = NoRequest
    /\ request' = [op |-> op, who |-> C, lists |-> L, permitted |-> permitted, status |-> status,
                   membership |-> s, locked |-> {}]
    /\ UNCHANGED <<tables, history, writer, statement, form, recipient>>

\* What a filter of the list of customers selects.
Matching(l, s) == {c \in Customers : customer[c] # "none" /\ membership[<<c, l>>] = s}

\* The form posts a status, or the one that was just read stands.
UpdateCustomer(c, L, permitted, posted, s) ==
    /\ Exists({c}) /\ L \subseteq Live(permitted)
    /\ s \in {"unconfirmed", "confirmed"}
    /\ Ask("edit", {c}, L, permitted, IF posted = "" THEN customer[c] ELSE posted, s)

ManageCustomerListMemberships(op, C, L, s) ==
    /\ C # {} /\ Exists(C)
    /\ L # {} /\ L \subseteq Live(Lists)
    /\ Ask(op, C, L, {}, "", s)

ManageCustomerListMembershipsByFilter(op, from, L, s) ==
    /\ L # {} /\ L \subseteq Live(Lists) /\ from[1] \in Live(Lists)
    /\ Matching(from[1], from[2]) # {}
    /\ Ask(op, Matching(from[1], from[2]), L, {}, "", s)

BlocklistCustomers(C) == C # {} /\ Exists(C) /\ Ask("block", C, {}, {}, "", "")

BlocklistCustomersByFilter(from) ==
    /\ Matching(from[1], from[2]) # {}
    /\ Ask("block", Matching(from[1], from[2]), {}, {}, "", "")

\* The report of the delivery provider: addresses are matched first, then set or cleared.
BlocklistProviderFailure(C, op) ==
    /\ op \in {"block", "unblock"}
    /\ C # {} /\ Exists(C)
    /\ Ask(op, C, {}, {}, "", "")

DeleteCustomers(C) == C # {} /\ Exists(C) /\ Ask("delete", C, {}, {}, "", "")

DeleteCustomersByFilter(from) ==
    /\ Matching(from[1], from[2]) # {}
    /\ Ask("delete", Matching(from[1], from[2]), {}, {}, "", "")

\* With their customers, or without.
DeleteLists(L, op) ==
    /\ op \in {"delete lists", "prune lists"}
    /\ L # {} /\ L \subseteq Live(Lists)
    /\ Ask(op, {}, L, {}, "", "")

-----------------------------------------------------------------------------
(* Transactions of operators: customers are locked first, then lists. *)

\* Every row the request names is still there, and no other transaction holds it.
Run(op) ==
    /\ request.op = op
    /\ Exists(request.who) /\ request.lists \subseteq Live(Lists)
    /\ Free(request.who) /\ Settled(request.lists)
    /\ request' = NoRequest
    /\ UNCHANGED <<list, double, writer, left>>

Asked == request.who \X request.lists

\* What is posted counts as the decision of the operator, except for memberships
\* that stay as they were.
UpdateCustomerWithListsInWorkspace ==
    /\ Run("edit")
    /\ \E c \in request.who :
        LET gone == {c} \X (request.permitted \ request.lists) IN
        /\ customer' = [customer EXCEPT ![c] = request.status]
        /\ membership' = Edited(c, request.lists, request.permitted, request.status,
                               request.membership)
        /\ refused' = refused \ gone
        /\ blocked' = IF request.status = "blocklisted" THEN blocked ELSE blocked \ {c}
    /\ UNCHANGED <<statement, form, recipient>>

AddSubscriptionsInWorkspace ==
    /\ Run("add")
    /\ membership' = Added(Asked, request.membership)
    /\ refused' = IF request.membership = "" THEN refused ELSE refused \ Asked
    /\ blocked' = blocked \ request.who
    /\ UNCHANGED <<customer, statement, form, recipient>>

DeleteSubscriptionsInWorkspace ==
    /\ Run("remove")
    /\ Drop(Asked)
    /\ UNCHANGED <<customer, blocked, statement, form, recipient>>

UnsubscribeListsInWorkspace ==
    /\ Run("unsubscribe")
    /\ membership' = Unsubscribed(Asked)
    /\ refused' = refused \cup {p \in Asked : membership[p] # "none"}
    /\ UNCHANGED <<customer, blocked, statement, form, recipient>>

\* blocklist-customers, as the operator and the automation of the provider run it:
\* with the customers locked before the statement begins.
Blocklist(C) ==
    /\ customer' = [c \in Customers |-> IF c \in C THEN "blocklisted" ELSE customer[c]]
    /\ membership' = Unsubscribed(Of(C))
    /\ refused' = refused \cup Held(C)
    /\ blocked' = blocked \cup C

BlocklistCustomersInWorkspace ==
    /\ Run("block")
    /\ Blocklist(request.who)
    /\ UNCHANGED <<statement, form, recipient>>

\* Only the status comes back.
SetCustomersBlocklistInWorkspace ==
    /\ Run("unblock")
    /\ customer' = [c \in Customers |-> IF c \in request.who THEN "enabled" ELSE customer[c]]
    /\ blocked' = blocked \ request.who
    /\ UNCHANGED <<membership, refused, statement, form, recipient>>

DeleteCustomersInWorkspace ==
    /\ Run("delete")
    /\ Delete(request.who) /\ Drop(Of(request.who))
    /\ statement' = StatementWithout(request.who)

\* Memberships of a deleted list go with it, and campaigns lose it.
DeleteListsInWorkspace ==
    /\ request.op = "delete lists"
    /\ request.lists \subseteq Live(Lists) /\ Settled(request.lists)
    /\ Drop(Customers \X request.lists)
    /\ list' = [l \in Lists |-> IF l \in request.lists THEN "deleted" ELSE list[l]]
    /\ request' = NoRequest
    /\ UNCHANGED <<customer, double, blocked, writer, statement, form, recipient, left>>

On(L) == {c \in Customers : \E l \in L : membership[<<c, l>>] # "none"}

\* Mutant: whether they are on another list by now is not looked at.
UnsharedEarly(C, L) == C

\* Of these customers, those that are on no other list.
Unshared(C, L) == {c \in C : \A l \in Lists \ L : membership[<<c, l>>] = "none"}

\* The customers of the lists are locked before the lists.
LockListCustomers ==
    /\ request.op = "prune lists"
    /\ request.lists \subseteq Live(Lists) /\ Free(On(request.lists))
    /\ request' = [request EXCEPT !.op = "prune locked", !.locked = On(request.lists)]
    /\ UNCHANGED <<tables, history, writer, statement, form, recipient, left>>

\* A customer that joined in between is not locked: the request is rejected.
DeleteListsWithCustomersInWorkspace ==
    /\ request.op = "prune locked"
    /\ request.lists \subseteq Live(Lists) /\ Settled(request.lists)
    /\ IF On(request.lists) \subseteq request.locked
       THEN LET gone == Unshared(On(request.lists), request.lists) IN
            /\ Delete(gone)
            /\ Drop(Of(gone) \cup (Customers \X request.lists))
            /\ list' = [l \in Lists |-> IF l \in request.lists THEN "deleted" ELSE list[l]]
            /\ statement' = StatementWithout(gone)
       ELSE UNCHANGED <<customer, membership, list, history, statement, form, recipient>>
    /\ request' = NoRequest
    /\ UNCHANGED <<double, writer, left>>

\* A new address; one that exists is refused. The status of the membership is the
\* one of the form even when the customer is blocklisted.
InsertWorkspaceCustomer(c, L, status, s) ==
    /\ Spend("operator")
    /\ customer[c] = "none" /\ Free({c})
    /\ L \subseteq Live(Lists)
    /\ s \in {"unconfirmed", "confirmed"}
    /\ customer' = [customer EXCEPT ![c] = status]
    /\ membership' = Put(membership, {c} \X L, s)
    /\ UNCHANGED <<list, double, history, writer, statement, request, form, recipient>>

CreateListInWorkspace(l, type, optin) ==
    /\ Spend("list")
    /\ list[l] = "none"
    /\ list' = [list EXCEPT ![l] = type]
    /\ double' = IF optin THEN double \cup {l} ELSE double \ {l}
    /\ UNCHANGED <<customer, membership, history, writer, statement, request, form, recipient>>

UpdateListInWorkspace(l, type, optin) ==
    /\ Spend("list")
    /\ l \in Live(Lists) /\ Settled({l})
    /\ list' = [list EXCEPT ![l] = type]
    /\ double' = IF optin THEN double \cup {l} ELSE double \ {l}
    /\ UNCHANGED <<customer, membership, history, writer, statement, request, form, recipient>>

-----------------------------------------------------------------------------
(* Open transactions: a batch of an import, or the form of a recipient. *)

Write(c, status, P, m, blocks, overwrites) ==
    /\ writer = NoWriter /\ Free({c})
    /\ writer' = [who |-> {c}, status |-> status, rows |-> P,
                  to |-> [p \in Pairs |-> IF p \in P THEN m[p] ELSE "none"],
                  blocks |-> blocks, overwrites |-> overwrites]
    /\ UNCHANGED <<tables, history, statement, request, form, recipient>>

StatusAfter(c) == IF customer[c] = "none" THEN "enabled" ELSE customer[c]

UpsertWorkspaceCustomer(c, L, s, overwrite) ==
    /\ Spend("import")
    /\ Write(c, StatusAfter(c), {c} \X Live(L),
             Upserted({c} \X Live(L), customer[c], s, overwrite), FALSE, overwrite)

UpsertWorkspaceBlocklistCustomer(c) ==
    /\ Spend("import")
    /\ Write(c, "blocklisted", Held({c}), Unsubscribed(Held({c})), TRUE, FALSE)

Commit ==
    /\ writer # NoWriter
    /\ customer' = [c \in Customers |-> IF c \in writer.who THEN writer.status ELSE customer[c]]
    /\ membership' = [p \in Pairs |-> IF p \in writer.rows THEN writer.to[p] ELSE membership[p]]
    /\ refused' = IF writer.blocks THEN refused \cup writer.rows
                  ELSE IF writer.overwrites THEN refused \ writer.rows ELSE refused
    /\ blocked' = IF writer.blocks THEN blocked \cup writer.who ELSE blocked
    /\ writer' = NoWriter
    /\ UNCHANGED <<list, double, statement, request, form, recipient, left>>

Rollback ==
    /\ writer # NoWriter
    /\ writer' = NoWriter
    /\ UNCHANGED <<tables, history, statement, request, form, recipient, left>>

-----------------------------------------------------------------------------
(* The system: bounces, the automation of the provider, and maintenance. *)

\* record-bounce: the status alone.
BounceBlocklists(c) ==
    /\ Spend("system")
    /\ Exists({c}) /\ Free({c})
    /\ customer' = [customer EXCEPT ![c] = "blocklisted"]
    /\ UNCHANGED <<membership, list, double, history, writer, statement, request, form, recipient>>

\* Two statements: the second begins when the customer is locked.
AutomationBlocklists(c) ==
    /\ Spend("system")
    /\ Exists({c}) /\ Free({c})
    /\ Blocklist({c})
    /\ UNCHANGED <<list, double, writer, statement, request, form, recipient>>

Begin(kind, C, P) ==
    /\ statement = NoStatement
    /\ statement' = [kind |-> kind, who |-> C, seen |-> P]
    /\ UNCHANGED <<tables, history, writer, request, form, recipient>>

\* blocklist-customers without a lock of its own: for bounced customers of a workspace,
\* and for a recipient whose link names no campaign.
BlocklistUnlocked(C) == Exists(C) /\ Begin("block", C, Held(C))

BlocklistWorkspaceBouncedCustomers(C) == Spend("system") /\ BlocklistUnlocked(C)

DeleteOrphanCustomers ==
    /\ Spend("system")
    /\ LET orphans == {c \in Customers : customer[c] # "none" /\ Held({c}) = {}} IN
       orphans # {} /\ Begin("orphans", orphans, {})

DeleteBlocklistedCustomers ==
    /\ Spend("system")
    /\ LET gone == {c \in Customers : customer[c] = "blocklisted"} IN
       /\ gone # {} /\ Free(gone)
       /\ Delete(gone) /\ Drop(Of(gone))
       /\ statement' = StatementWithout(gone) /\ request' = RequestWithout(gone)
    /\ UNCHANGED <<list, double, writer>>

\* The date spares some of them.
DeleteUnconfirmedSubscriptions(old) ==
    /\ Spend("system")
    /\ LET gone == {p \in old : membership[p] = "unconfirmed" /\ p[2] \in double} IN
       gone # {} /\ Unlocked(gone) /\ Drop(gone)
    /\ UNCHANGED <<customer, list, double, blocked, writer, statement, request, form, recipient>>

\* The rows are free: the memberships the statement saw change, those it did not see stay.
Finish ==
    LET seen == {p \in statement.seen : membership[p] # "none"} IN
    /\ statement # NoStatement /\ Free(statement.who)
    /\ statement' = NoStatement
    /\ \/ /\ statement.kind \in {"block", "unsubscribe"}
          /\ membership' = Put(membership, seen, "unsubscribed")
          /\ refused' = refused \cup seen
          /\ customer' = [c \in Customers |->
                IF c \in statement.who /\ statement.kind = "block" /\ customer[c] # "none"
                THEN "blocklisted" ELSE customer[c]]
          /\ UNCHANGED <<blocked, request, form, recipient>>
       \/ /\ statement.kind = "orphans"
          /\ Delete(statement.who) /\ Drop(Of(statement.who))
          /\ request' = RequestWithout(statement.who)
    /\ UNCHANGED <<list, double, writer, left>>
=============================================================================
