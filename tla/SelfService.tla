----------------------------- MODULE SelfService -----------------------------
(***************************************************************************)
(* The pages of a recipient and the audience of a campaign, over the       *)
(* memberships of Subscriptions.                                           *)
(*                                                                         *)
(* A page reads, then writes what it read; a campaign takes its recipients *)
(* once and looks at their memberships again when it claims one.           *)
(***************************************************************************)
EXTENDS Subscriptions

CONSTANT CampaignLists   \* campaign_customer_lists

ASSUME SelfServiceAssumption == CampaignLists \subseteq Lists

vars == <<tables, history, writer, statement, request, form, recipient, left>>

OptinCampaign == left.type = "optin"

\* A customer may be deleted and the address come back: recipients of a message remain
\* known to the campaign, whoever owns them now.
Addressed(c) == recipient[c] # "none"

-----------------------------------------------------------------------------
(* Subscribing. *)

\* Lists the public form may name.
PublicSubscriptionLists == {l \in Lists : list[l] = "public"}

\* The profile and what it is subscribed to stay; only new memberships are added.
UpsertPublicWorkspaceCustomer(c, L) ==
    /\ Spend("recipient")
    /\ L # {} /\ L \subseteq PublicSubscriptionLists
    /\ Write(c, StatusAfter(c), {c} \X L,
             Upserted({c} \X L, customer[c], "unconfirmed", FALSE), FALSE, FALSE)

\* The page is about lists whose opt-in is open.
OptinPage(c, L) ==
    /\ Spend("recipient")
    /\ form = NoForm
    /\ Exists({c})
    /\ \E l \in IF L = {} THEN Lists ELSE L : membership[<<c, l>>] = "unconfirmed"
    /\ form' = [at |-> "confirm", who |-> {c}, lists |-> L, status |-> ""]
    /\ UNCHANGED <<tables, history, writer, statement, request, recipient>>

\* confirm-subscription-optin: every list of the link, whatever its status is by now.
ConfirmOptionSubscription ==
    LET P == {p \in form.who \X form.lists : membership[p] # "none"} IN
    /\ form.at = "confirm" /\ Unlocked(P)
    /\ membership' = Put(membership, P, "confirmed")
    /\ refused' = refused \ P
    /\ blocked' = IF P = {} THEN blocked ELSE blocked \ form.who
    /\ form' = NoForm
    /\ UNCHANGED <<customer, list, double, writer, statement, request, recipient, left>>

-----------------------------------------------------------------------------
(* Unsubscribing. *)

\* unsubscribe-by-campaign: the lists of the campaign, or everything.
UnsubscribeByCampaign(c, blocklist) ==
    /\ Spend("recipient")
    /\ Addressed(c)
    /\ IF blocklist THEN BlocklistUnlocked({c})
       ELSE Begin("unsubscribe", {c}, Held({c}) \cap (Customers \X CampaignLists))

\* A link without a campaign can only blocklist.
UnsubscribeWithoutCampaign(c) == Spend("recipient") /\ BlocklistUnlocked({c})

\* SubscriptionPrefs reads the profile and writes it back with the new name.
SubscriptionPrefs(c, keep) ==
    /\ Spend("recipient")
    /\ form = NoForm
    /\ Exists({c})
    /\ form' = [at |-> "profile", who |-> {c}, lists |-> keep, status |-> customer[c]]
    /\ UNCHANGED <<tables, history, writer, statement, request, recipient>>

UpdateProfile ==
    /\ form.at = "profile" /\ Free(form.who)
    /\ customer' = [c \in Customers |-> IF c \in form.who THEN form.status ELSE customer[c]]
    /\ blocked' = IF form.status = "blocklisted" THEN blocked ELSE blocked \ form.who
    /\ form' = [form EXCEPT !.at = "read"]
    /\ UNCHANGED <<membership, list, double, refused, writer, statement, request, recipient, left>>

\* Public lists that are not ticked are to be left; private ones are not on the page.
ReadSubscriptions ==
    /\ form.at = "read"
    /\ form' = [form EXCEPT !.at = "unsubscribe",
                    !.lists = {l \in PublicSubscriptionLists \ @ :
                                 \E c \in form.who : membership[<<c, l>>] # "none"}]
    /\ UNCHANGED <<tables, history, writer, statement, request, recipient, left>>

UnsubscribePreferences ==
    LET P == {p \in form.who \X form.lists : membership[p] # "none"} IN
    /\ form.at = "unsubscribe" /\ Unlocked(P)
    /\ membership' = Put(membership, P, "unsubscribed")
    /\ refused' = refused \cup P
    /\ form' = NoForm
    /\ UNCHANGED <<customer, list, double, blocked, writer, statement, request, recipient, left>>

WipeCustomerData(c) ==
    /\ Spend("recipient")
    /\ Exists({c}) /\ Free({c})
    /\ Delete({c}) /\ Drop(Of({c}))
    /\ statement' = StatementWithout({c}) /\ request' = RequestWithout({c})
    /\ UNCHANGED <<list, double, writer>>

-----------------------------------------------------------------------------
(* The campaign. *)

Reaches(c, l) ==
    /\ l \in Live(Lists)
    /\ membership[<<c, l>>] \in
         IF OptinCampaign THEN (IF l \in double THEN {"unconfirmed"} ELSE {})
         ELSE IF l \in double THEN {"confirmed"} ELSE {"unconfirmed", "confirmed"}

EnsureCampaignRecipients ==
    /\ Spend("campaign")
    /\ recipient' = [c \in Customers |->
            IF /\ recipient[c] = "none" /\ customer[c] \notin {"none", "blocklisted"}
               /\ \E l \in CampaignLists : Reaches(c, l)
            THEN "pending" ELSE recipient[c]]
    /\ UNCHANGED <<tables, history, writer, statement, request, form>>

\* Mutant: the snapshot decides.
ClaimableOnce(c) == recipient[c] = "pending"

Claimable(c) == recipient[c] = "pending" /\ \E l \in CampaignLists : Reaches(c, l)

QueueCampaignCustomers(c) ==
    /\ Claimable(c)
    /\ recipient' = [recipient EXCEPT ![c] = "queued"]
    /\ UNCHANGED <<tables, history, writer, statement, request, form, left>>

\* An attempt that failed, or was cut short, is claimed again.
ReturnToPending(c) ==
    /\ Spend("campaign")
    /\ recipient[c] = "queued"
    /\ recipient' = [recipient EXCEPT ![c] = "pending"]
    /\ UNCHANGED <<tables, history, writer, statement, request, form>>

-----------------------------------------------------------------------------
Given == {"unconfirmed", "confirmed", "unsubscribed"}

OperatorHandler ==
    \/ \E c \in Customers, permitted \in SUBSET Lists \ {{}}, t \in Blockable \cup {""} :
        \E L \in SUBSET permitted, s \in {"unconfirmed", "confirmed"} :
            UpdateCustomer(c, L, permitted, t, s)
    \/ \E C \in SUBSET Customers, L \in SUBSET Lists, s \in {"", "confirmed"} :
        ManageCustomerListMemberships("add", C, L, s)
    \/ \E C \in SUBSET Customers, L \in SUBSET Lists, op \in {"remove", "unsubscribe"} :
        ManageCustomerListMemberships(op, C, L, "")
    \/ \E from \in Lists \X Given, L \in SUBSET Lists, op \in {"add", "remove", "unsubscribe"} :
        ManageCustomerListMembershipsByFilter(op, from, L, "")
    \/ \E C \in SUBSET Customers : BlocklistCustomers(C) \/ DeleteCustomers(C)
    \/ \E from \in Lists \X Given : BlocklistCustomersByFilter(from) \/ DeleteCustomersByFilter(from)
    \/ \E C \in SUBSET Customers, op \in {"block", "unblock"} : BlocklistProviderFailure(C, op)
    \/ \E L \in SUBSET Lists, op \in {"delete lists", "prune lists"} : DeleteLists(L, op)

OperatorStep ==
    \/ UpdateCustomerWithListsInWorkspace \/ AddSubscriptionsInWorkspace
    \/ DeleteSubscriptionsInWorkspace \/ UnsubscribeListsInWorkspace
    \/ BlocklistCustomersInWorkspace \/ SetCustomersBlocklistInWorkspace
    \/ DeleteCustomersInWorkspace \/ DeleteListsInWorkspace
    \/ LockListCustomers \/ DeleteListsWithCustomersInWorkspace
    \/ \E c \in Customers, L \in SUBSET Lists, status \in Blockable, s \in Given :
        InsertWorkspaceCustomer(c, L, status, s)
    \/ \E l \in Lists, type \in {"private", "public"}, optin \in BOOLEAN :
        CreateListInWorkspace(l, type, optin) \/ UpdateListInWorkspace(l, type, optin)

SystemStep ==
    \/ \E c \in Customers, L \in SUBSET Lists, s \in Given, overwrite \in BOOLEAN :
        L # {} /\ UpsertWorkspaceCustomer(c, L, s, overwrite)
    \/ \E c \in Customers : UpsertWorkspaceBlocklistCustomer(c)
    \/ Commit \/ Rollback \/ Finish
    \/ \E c \in Customers : BounceBlocklists(c) \/ AutomationBlocklists(c)
    \/ \E C \in SUBSET Customers : C # {} /\ BlocklistWorkspaceBouncedCustomers(C)
    \/ DeleteOrphanCustomers \/ DeleteBlocklistedCustomers
    \/ \E old \in SUBSET {p \in Pairs : membership[p] = "unconfirmed"} : DeleteUnconfirmedSubscriptions(old)

RecipientStep ==
    \/ \E c \in Customers, L \in SUBSET Lists :
        UpsertPublicWorkspaceCustomer(c, L) \/ OptinPage(c, L) \/ SubscriptionPrefs(c, L)
    \/ ConfirmOptionSubscription
    \/ \E c \in Customers, blocklist \in BOOLEAN : UnsubscribeByCampaign(c, blocklist)
    \/ \E c \in Customers : UnsubscribeWithoutCampaign(c) \/ WipeCustomerData(c)
    \/ UpdateProfile \/ ReadSubscriptions \/ UnsubscribePreferences

CampaignStep ==
    \/ EnsureCampaignRecipients
    \/ \E c \in Customers : QueueCampaignCustomers(c) \/ ReturnToPending(c)

Init == SubscriptionsInit

Next == OperatorHandler \/ OperatorStep \/ SystemStep \/ RecipientStep \/ CampaignStep

Spec == Init /\ [][Next]_vars

-----------------------------------------------------------------------------
(* Properties. *)

\* A membership that was unsubscribed stays so - against imports, the public form, the
\* form of an operator and a page that was opened before - until the recipient confirms
\* that list, or an operator sets its status, overwrites it by an import or removes it.
\* Who was blocklisted by an operator, by an import or by the automation has no active
\* membership, whatever transaction was open or came later, until an operator puts them
\* on a list, sets their status, or they confirm themselves.
RefusalHolds ==
    /\ SubscriptionsTypeOK
    /\ \A p \in refused : membership[p] = "unsubscribed"
    /\ \A c \in blocked, l \in Lists : membership[<<c, l>>] \in {"none", "unsubscribed"}

ConsentAsked ==
    \A c \in Customers : recipient[c] = "pending" /\ recipient'[c] = "queued" =>
        \E l \in CampaignLists :
            /\ <<c, l>> \notin refused /\ c \notin blocked
            /\ membership[<<c, l>>] = "confirmed" \/ OptinCampaign \/ l \notin double

\* A message is claimed only for who is on a list of the campaign without having refused
\* it, with the opt-in the list asks for.
ClaimedOnConsent == [][ConsentAsked]_vars

OthersSpared ==
    \A c \in Customers :
        /\ request.op = "prune locked" /\ request' = NoRequest
        /\ (\E l \in Lists \ request.lists : membership[<<c, l>>] # "none")
        => customer'[c] = customer[c]

\* Deleting lists with their customers spares who is on another list, joined in between
\* or not.
SharedCustomersStay == [][OthersSpared]_vars
=============================================================================
