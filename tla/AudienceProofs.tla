---------------------------- MODULE AudienceProofs ----------------------------
(* Whom a campaign may reach: first the memberships of customers in lists, for    *)
(* any customers, lists and bounds (SelfService); then the snapshot of public     *)
(* pools and what is claimed and sent from it, for any pools, organizations,      *)
(* contacts, servers, quotas and scenarios (PoolAllocator).                       *)
EXTENDS SelfService, PoolAllocator, FiniteSetTheorems, WellFoundedInduction, TLAPS

-----------------------------------------------------------------------------
(* Memberships: the inductive invariant. *)

\* What was refused is unsubscribed.
RefusedStay == \A p \in refused : membership[p] = "unsubscribed"

\* Who is blocked is on no list.
BlockedOnNone == \A c \in blocked, l \in Lists : membership[<<c, l>>] \in {"none", "unsubscribed"}

\* A row of a membership has a row of its customer.
MembersExist == \A p \in Pairs : membership[p] # "none" => customer[p[1]] # "none"

BlockedListed == \A c \in blocked : customer[c] = "blocklisted"

\* What a request, a page and a statement carry from where they began.
RequestFits ==
    /\ request.op = "edit" => request.status \in Blockable /\ request.membership \in Statuses
    /\ request.op \in {"prune lists", "prune locked"} => request.who = {}
    /\ request.locked \cap writer.who = {}

FormFits == form.at = "profile" => form.status \in Blockable

StatementFits == statement.seen \subseteq Of(statement.who)

\* What an open transaction will write, against what is committed now.
WriterFits ==
    /\ writer.rows \subseteq Of(writer.who)
    /\ \A c \in writer.who :
          /\ writer.status \in Blockable
          /\ ~writer.blocks => \/ writer.status = customer[c]
                               \/ customer[c] = "none" /\ writer.status = "enabled"
          /\ writer.blocks => writer.status = "blocklisted"
    /\ writer.blocks =>
          /\ \A p \in writer.rows : writer.to[p] = "unsubscribed"
          /\ \A p \in Of(writer.who) \ writer.rows : membership[p] = "none"
    /\ ~writer.blocks /\ ~writer.overwrites =>
          \A p \in writer.rows : membership[p] = "none" \/ writer.to[p] = membership[p]
    /\ ~writer.blocks /\ writer.status = "blocklisted" =>
          \A p \in writer.rows : membership[p] = "none" \/ writer.overwrites => writer.to[p] = "unsubscribed"

MembershipsSafe == RefusedStay /\ BlockedOnNone /\ MembersExist /\ BlockedListed

AudienceInv == SubscriptionsTypeOK /\ MembershipsSafe /\ RequestFits /\ FormFits /\ StatementFits /\ WriterFits

-----------------------------------------------------------------------------
(* Statements. *)

LEMMA PutFacts ==
    ASSUME NEW m \in [Pairs -> Statuses], NEW P, NEW s \in Statuses
    PROVE  /\ Put(m, P, s) \in [Pairs -> Statuses]
           /\ \A p \in Pairs : Put(m, P, s)[p] = IF p \in P THEN s ELSE m[p]
BY DEF Put

LEMMA PairFacts ==
    /\ \A p \in Pairs : p[1] \in Customers /\ p[2] \in Lists /\ p = <<p[1], p[2]>>
    /\ \A c \in Customers, l \in Lists : <<c, l>> \in Pairs
BY DEF Pairs

LEMMA InitHolds == Init => AudienceInv
<1> SUFFICES ASSUME Init PROVE AudienceInv
  OBVIOUS
<1> USE DEF Init, SubscriptionsInit, NoWriter, NoStatement, NoRequest, NoForm
<1>1. PICK b \in Bounds : /\ customer = b.customers /\ list = b.lists
                          /\ membership = b.membership /\ double = b.double
  BY DEF Init, SubscriptionsInit
<1>2. SubscriptionsTypeOK
  BY <1>1, SubscriptionsAssumption DEF SubscriptionsTypeOK, Operations, Statuses
<1>3. MembershipsSafe
  BY <1>1, SubscriptionsAssumption DEF MembershipsSafe, RefusedStay, BlockedOnNone, MembersExist, BlockedListed
<1>4. RequestFits /\ FormFits /\ StatementFits /\ WriterFits
  BY DEF RequestFits, FormFits, StatementFits, WriterFits, Of
<1> QED
  BY <1>2, <1>3, <1>4 DEF AudienceInv

-----------------------------------------------------------------------------
(* Steps that leave the rows alone. *)

\* Nothing that is refused or blocked is touched, and no transaction.
Untouched == UNCHANGED <<customer, membership, refused, blocked, writer>>

LEMMA UntouchedSafe ==
    ASSUME AudienceInv, Untouched
    PROVE  /\ MembershipsSafe'
           /\ WriterFits'
BY DEF AudienceInv, Untouched, MembershipsSafe, RefusedStay, BlockedOnNone, MembersExist, BlockedListed,
       WriterFits, Of

LEMMA AskKeeps ==
    ASSUME AudienceInv,
           NEW op \in Operations, NEW C \in SUBSET Customers, NEW L \in SUBSET Lists,
           NEW permitted \in SUBSET Lists, NEW status \in Blockable \cup {""},
           NEW s \in Statuses \cup {""},
           op = "edit" => status \in Blockable /\ s \in Statuses,
           op \in {"prune lists", "prune locked"} => C = {},
           Ask(op, C, L, permitted, status, s)
    PROVE  AudienceInv'
<1> USE DEF Ask, tables, history
<1>1. MembershipsSafe' /\ WriterFits'
  BY UntouchedSafe DEF Untouched
<1>2. SubscriptionsTypeOK'
  BY ZenonT(40) DEF AudienceInv, SubscriptionsTypeOK
<1>3. RequestFits' /\ FormFits' /\ StatementFits'
  BY DEF AudienceInv, RequestFits, FormFits, StatementFits, Of
<1> QED
  BY <1>1, <1>2, <1>3 DEF AudienceInv

LEMMA HandlersKeep ==
    ASSUME AudienceInv, OperatorHandler
    PROVE  AudienceInv'
<1> USE DEF Operations, Statuses, Given
<1>0. customer \in [Customers -> Blockable \cup {"none"}]
  BY DEF AudienceInv, SubscriptionsTypeOK
<1>1. ASSUME NEW c \in Customers, NEW permitted \in SUBSET Lists, NEW t \in Blockable \cup {""},
             NEW L \in SUBSET permitted, NEW s \in {"unconfirmed", "confirmed"},
             UpdateCustomer(c, L, permitted, t, s)
      PROVE  AudienceInv'
  <2>1. customer[c] \in Blockable
    BY <1>0, <1>1 DEF UpdateCustomer, Exists
  <2> DEFINE status == IF t = "" THEN customer[c] ELSE t
  <2>2. status \in Blockable
    BY <2>1
  <2>3. Ask("edit", {c}, L, permitted, status, s)
    BY <1>1 DEF UpdateCustomer
  <2> HIDE DEF status
  <2> QED
    BY <2>2, <2>3, AskKeeps
<1>2. ASSUME NEW C \in SUBSET Customers, NEW L \in SUBSET Lists, NEW s \in {"", "confirmed"},
             NEW op \in {"add", "remove", "unsubscribe"},
             ManageCustomerListMemberships(op, C, L, s)
      PROVE  AudienceInv'
  BY <1>2, AskKeeps DEF ManageCustomerListMemberships
<1>3. ASSUME NEW from \in Lists \X Given PROVE Matching(from[1], from[2]) \in SUBSET Customers
  BY DEF Matching
<1>4. ASSUME NEW from \in Lists \X Given, NEW L \in SUBSET Lists, NEW op \in {"add", "remove", "unsubscribe"},
             ManageCustomerListMembershipsByFilter(op, from, L, "")
      PROVE  AudienceInv'
  <2>1. Ask(op, Matching(from[1], from[2]), L, {}, "", "")
    BY <1>4 DEF ManageCustomerListMembershipsByFilter
  <2> QED
    BY <1>3, <2>1, AskKeeps
<1>5. ASSUME NEW C \in SUBSET Customers, BlocklistCustomers(C) \/ DeleteCustomers(C)
      PROVE  AudienceInv'
  BY <1>5, AskKeeps DEF BlocklistCustomers, DeleteCustomers
<1>6. ASSUME NEW from \in Lists \X Given, BlocklistCustomersByFilter(from) \/ DeleteCustomersByFilter(from)
      PROVE  AudienceInv'
  <2>1. \E op \in {"block", "delete"} : Ask(op, Matching(from[1], from[2]), {}, {}, "", "")
    BY <1>6 DEF BlocklistCustomersByFilter, DeleteCustomersByFilter
  <2> QED
    BY <1>3, <2>1, AskKeeps
<1>7. ASSUME NEW C \in SUBSET Customers, NEW op \in {"block", "unblock"}, BlocklistProviderFailure(C, op)
      PROVE  AudienceInv'
  BY <1>7, AskKeeps DEF BlocklistProviderFailure
<1>8. ASSUME NEW L \in SUBSET Lists, NEW op \in {"delete lists", "prune lists"}, DeleteLists(L, op)
      PROVE  AudienceInv'
  BY <1>8, AskKeeps DEF DeleteLists
<1>9. CASE \E c \in Customers, permitted \in SUBSET Lists \ {{}}, t \in Blockable \cup {""} :
             \E L \in SUBSET permitted, s \in {"unconfirmed", "confirmed"} :
                 UpdateCustomer(c, L, permitted, t, s)
  <2>1. PICK c \in Customers, permitted \in SUBSET Lists, t \in Blockable \cup {""} :
               \E L \in SUBSET permitted, s \in {"unconfirmed", "confirmed"} :
                   UpdateCustomer(c, L, permitted, t, s)
    BY <1>9
  <2>2. PICK L \in SUBSET permitted, s \in {"unconfirmed", "confirmed"} :
               UpdateCustomer(c, L, permitted, t, s)
    BY <2>1
  <2> QED
    BY <2>2, <1>1
<1>10. CASE \/ \E C \in SUBSET Customers, L \in SUBSET Lists, s \in {"", "confirmed"} :
                 ManageCustomerListMemberships("add", C, L, s)
            \/ \E C \in SUBSET Customers, L \in SUBSET Lists, op \in {"remove", "unsubscribe"} :
                 ManageCustomerListMemberships(op, C, L, "")
  BY <1>2, <1>10
<1>11. CASE \E from \in Lists \X Given, L \in SUBSET Lists, op \in {"add", "remove", "unsubscribe"} :
              ManageCustomerListMembershipsByFilter(op, from, L, "")
  BY <1>4, <1>11
<1> QED
  BY <1>5, <1>6, <1>7, <1>8, <1>9, <1>10, <1>11 DEF OperatorHandler

Pages ==
    [at : {"none", "profile", "read", "unsubscribe", "confirm"},
     who : SUBSET Customers, lists : SUBSET Lists, status : Blockable \cup {""}]

LEMMA PageKeeps ==
    ASSUME AudienceInv, form' \in Pages, form'.at = "profile" => form'.status \in Blockable,
           UNCHANGED <<tables, history, writer, statement, request, recipient>>
    PROVE  AudienceInv'
<1> USE DEF tables, history, Pages
<1>1. MembershipsSafe' /\ WriterFits'
  BY UntouchedSafe DEF Untouched
<1>2. SubscriptionsTypeOK'
  BY ZenonT(40) DEF AudienceInv, SubscriptionsTypeOK
<1>3. RequestFits' /\ FormFits' /\ StatementFits'
  BY DEF AudienceInv, RequestFits, FormFits, StatementFits, Of
<1> QED
  BY <1>1, <1>2, <1>3 DEF AudienceInv

\* A page is opened, or takes a step of its own.
LEMMA PagesKeep ==
    ASSUME AudienceInv,
           \/ \E c \in Customers, L \in SUBSET Lists : OptinPage(c, L) \/ SubscriptionPrefs(c, L)
           \/ ReadSubscriptions
    PROVE  AudienceInv'
<1>0. form \in Pages /\ customer \in [Customers -> Blockable \cup {"none"}]
  BY DEF AudienceInv, SubscriptionsTypeOK, Pages
<1>1. ASSUME NEW c \in Customers, NEW L \in SUBSET Lists, OptinPage(c, L) PROVE AudienceInv'
  <2>1. form' = [at |-> "confirm", who |-> {c}, lists |-> L, status |-> ""]
    BY <1>1 DEF OptinPage
  <2>2. form' \in Pages /\ form'.at # "profile"
    BY <2>1 DEF Pages
  <2> QED
    BY <1>1, <2>2, PageKeeps DEF OptinPage
<1>2. ASSUME NEW c \in Customers, NEW L \in SUBSET Lists, SubscriptionPrefs(c, L) PROVE AudienceInv'
  <2>1. form' = [at |-> "profile", who |-> {c}, lists |-> L, status |-> customer[c]]
        /\ customer[c] \in Blockable
    BY <1>0, <1>2 DEF SubscriptionPrefs, Exists
  <2>2. form' \in Pages /\ form'.status \in Blockable
    BY <2>1 DEF Pages
  <2> QED
    BY <1>2, <2>2, PageKeeps DEF SubscriptionPrefs
<1>3. ASSUME ReadSubscriptions PROVE AudienceInv'
  <2>1. form' \in Pages /\ form'.at # "profile"
    BY <1>0, <1>3 DEF ReadSubscriptions, Pages, PublicSubscriptionLists
  <2> QED
    BY <1>3, <2>1, PageKeeps DEF ReadSubscriptions
<1> QED
  BY <1>1, <1>2, <1>3

LEMMA BeginKeeps ==
    ASSUME AudienceInv, NEW kind \in {"unsubscribe", "block", "orphans"}, NEW C \in SUBSET Customers,
           NEW P \in SUBSET Pairs, P \subseteq Of(C), Begin(kind, C, P)
    PROVE  AudienceInv'
<1> USE DEF Begin, tables, history
<1>1. MembershipsSafe' /\ WriterFits'
  BY UntouchedSafe DEF Untouched
<1>2. SubscriptionsTypeOK'
  BY ZenonT(40) DEF AudienceInv, SubscriptionsTypeOK
<1>3. RequestFits' /\ FormFits' /\ StatementFits'
  BY DEF AudienceInv, RequestFits, FormFits, StatementFits, Of
<1> QED
  BY <1>1, <1>2, <1>3 DEF AudienceInv

\* A statement begins on its snapshot.
LEMMA BeginningsKeep ==
    ASSUME AudienceInv,
           \/ \E c \in Customers, blocklist \in BOOLEAN : UnsubscribeByCampaign(c, blocklist)
           \/ \E c \in Customers : UnsubscribeWithoutCampaign(c)
           \/ \E C \in SUBSET Customers : BlocklistWorkspaceBouncedCustomers(C)
           \/ DeleteOrphanCustomers
    PROVE  AudienceInv'
<1>1. ASSUME NEW C PROVE Held(C) \in SUBSET Pairs /\ Held(C) \subseteq Of(C)
  BY DEF Held, Of
<1>2. ASSUME NEW C \in SUBSET Customers, BlocklistUnlocked(C) PROVE AudienceInv'
  BY <1>1, <1>2, BeginKeeps DEF BlocklistUnlocked
<1>3. ASSUME NEW c \in Customers, NEW blocklist \in BOOLEAN, UnsubscribeByCampaign(c, blocklist)
      PROVE  AudienceInv'
  <2>1. CASE blocklist
    BY <1>2, <1>3, <2>1 DEF UnsubscribeByCampaign
  <2>2. CASE ~blocklist
    <3> DEFINE P == Held({c}) \cap (Customers \X CampaignLists)
    <3>1. Begin("unsubscribe", {c}, P)
      BY <1>3, <2>2 DEF UnsubscribeByCampaign
    <3>2. P \in SUBSET Pairs /\ P \subseteq Of({c})
      BY <1>1
    <3> HIDE DEF P
    <3> QED
      BY <3>1, <3>2, BeginKeeps
  <2> QED
    BY <2>1, <2>2
<1>4. ASSUME DeleteOrphanCustomers PROVE AudienceInv'
  BY <1>4, BeginKeeps DEF DeleteOrphanCustomers
<1> QED
  BY <1>2, <1>3, <1>4 DEF UnsubscribeWithoutCampaign, BlocklistWorkspaceBouncedCustomers

\* The campaign and the lists.
LEMMA CampaignKeeps ==
    ASSUME AudienceInv, CampaignStep
    PROVE  AudienceInv'
<1>0. recipient \in [Customers -> {"none", "pending", "queued"}]
  BY DEF AudienceInv, SubscriptionsTypeOK
<1>1. UNCHANGED <<tables, history, writer, statement, request, form>>
  BY DEF CampaignStep, EnsureCampaignRecipients, QueueCampaignCustomers, ReturnToPending
<1>2. recipient' \in [Customers -> {"none", "pending", "queued"}]
  <2>1. CASE EnsureCampaignRecipients
    BY <1>0, <2>1 DEF EnsureCampaignRecipients
  <2>2. ASSUME NEW c \in Customers, QueueCampaignCustomers(c) \/ ReturnToPending(c)
        PROVE  recipient' \in [Customers -> {"none", "pending", "queued"}]
    BY <1>0, <2>2 DEF QueueCampaignCustomers, ReturnToPending
  <2> QED
    BY <2>1, <2>2 DEF CampaignStep
<1> USE DEF tables, history
<1>3. MembershipsSafe' /\ WriterFits'
  BY <1>1, UntouchedSafe DEF Untouched
<1>4. SubscriptionsTypeOK'
  BY <1>1, <1>2, ZenonT(40) DEF AudienceInv, SubscriptionsTypeOK
<1>5. RequestFits' /\ FormFits' /\ StatementFits'
  BY <1>1 DEF AudienceInv, RequestFits, FormFits, StatementFits, Of
<1> QED
  BY <1>3, <1>4, <1>5 DEF AudienceInv

LEMMA ListsKeep ==
    ASSUME AudienceInv, NEW l \in Lists, NEW type \in {"private", "public"}, NEW optin \in BOOLEAN,
           CreateListInWorkspace(l, type, optin) \/ UpdateListInWorkspace(l, type, optin)
    PROVE  AudienceInv'
<1>1. /\ list' = [list EXCEPT ![l] = type]
      /\ double' = IF optin THEN double \cup {l} ELSE double \ {l}
      /\ UNCHANGED <<customer, membership, history, writer, statement, request, form, recipient>>
  BY DEF CreateListInWorkspace, UpdateListInWorkspace
<1> USE DEF history
<1>2. MembershipsSafe' /\ WriterFits'
  BY <1>1, UntouchedSafe DEF Untouched
<1>3. list' \in [Lists -> {"none", "private", "public", "deleted"}] /\ double' \subseteq Lists
  BY <1>1 DEF AudienceInv, SubscriptionsTypeOK
<1>4. SubscriptionsTypeOK'
  BY <1>1, <1>3, ZenonT(40) DEF AudienceInv, SubscriptionsTypeOK
<1>5. RequestFits' /\ FormFits' /\ StatementFits'
  BY <1>1 DEF AudienceInv, RequestFits, FormFits, StatementFits, Of
<1> QED
  BY <1>2, <1>4, <1>5 DEF AudienceInv

LEMMA LockKeeps ==
    ASSUME AudienceInv, LockListCustomers
    PROVE  AudienceInv'
<1> USE DEF LockListCustomers, tables, history
<1>1. MembershipsSafe' /\ WriterFits'
  BY UntouchedSafe DEF Untouched
<1>2. On(request.lists) \in SUBSET Customers
  BY DEF On
<1>3. SubscriptionsTypeOK'
  BY <1>2, ZenonT(40) DEF AudienceInv, SubscriptionsTypeOK, Operations
<1>4. RequestFits' /\ FormFits' /\ StatementFits'
  <2>1. request' = [request EXCEPT !.op = "prune locked", !.locked = On(request.lists)]
        /\ request \in [op : Operations, who : SUBSET Customers, lists : SUBSET Lists,
                    permitted : SUBSET Lists, status : Blockable \cup {""},
                    membership : Statuses \cup {""}, locked : SUBSET Customers]
    BY DEF AudienceInv, SubscriptionsTypeOK
  <2>2. request'.op = "prune locked" /\ request'.locked = On(request.lists) /\ request'.who = request.who
    BY <2>1
  <2>3. On(request.lists) \cap writer.who = {}
    BY DEF Free
  <2> QED
    BY <2>2, <2>3 DEF AudienceInv, RequestFits, FormFits, StatementFits, Of
<1> QED
  BY <1>1, <1>3, <1>4 DEF AudienceInv

-----------------------------------------------------------------------------
(* Steps that change rows. *)

Marks == [Customers -> Blockable \cup {"none"}]
Rows == [Pairs -> Statuses]
Waiting == [kind : {"none", "unsubscribe", "block", "orphans"}, who : SUBSET Customers, seen : SUBSET Pairs]

LEMMA TypeFacts ==
    ASSUME AudienceInv
    PROVE  /\ customer \in Marks /\ membership \in Rows /\ statement \in Waiting /\ form \in Pages
           /\ recipient \in [Customers -> {"none", "pending", "queued"}]
           /\ list \in [Lists -> {"none", "private", "public", "deleted"}]
           /\ request.who \in SUBSET Customers /\ request.lists \in SUBSET Lists
           /\ request.status \in Blockable \cup {""} /\ request.membership \in Statuses \cup {""}
           /\ request.locked \in SUBSET Customers
           /\ writer.who \in SUBSET Customers /\ writer.rows \in SUBSET Pairs
           /\ writer.to \in Rows /\ writer.status \in Blockable \cup {"none"}
           /\ writer.blocks \in BOOLEAN /\ writer.overwrites \in BOOLEAN
           /\ refused \subseteq Pairs /\ blocked \subseteq Customers
BY DEF AudienceInv, SubscriptionsTypeOK, Marks, Rows, Waiting, Pages

\* Only rows of these customers change.
OnlyOf(C) ==
    /\ \A c \in Customers \ C : customer'[c] = customer[c]
    /\ \A p \in Pairs \ Of(C) : membership'[p] = membership[p]

\* What an open transaction read and wrote is as it was.
WriterFrame ==
    /\ writer' = writer
    /\ \A c \in writer.who : customer'[c] = customer[c]
    /\ \A p \in writer.rows : membership'[p] = membership[p]
    /\ \A p \in Of(writer.who) : membership[p] = "none" => membership'[p] = "none"

LEMMA FrameFits ==
    ASSUME AudienceInv, WriterFrame
    PROVE  WriterFits'
BY DEF AudienceInv, WriterFits, WriterFrame, Of

LEMMA OnlyOfFrame ==
    ASSUME AudienceInv, NEW C \in SUBSET Customers, C \cap writer.who = {}, OnlyOf(C), writer' = writer
    PROVE  WriterFrame
<1>1. writer.rows \subseteq Of(writer.who) /\ writer.who \subseteq Customers
  BY TypeFacts DEF AudienceInv, WriterFits
<1>2. Of(writer.who) \subseteq Pairs \ Of(C)
  BY <1>1 DEF Of
<1> QED
  BY <1>1, <1>2 DEF WriterFrame, OnlyOf

\* What is the same for all steps that change rows while the transaction stays open.
LEMMA ChangeKeeps ==
    ASSUME AudienceInv, WriterFrame, MembershipsSafe',
           customer' \in Marks, membership' \in Rows, refused' \subseteq Pairs, blocked' \subseteq Customers,
           list' \in [Lists -> {"none", "private", "public", "deleted"}], double' = double,
           recipient' \in [Customers -> {"none", "pending", "queued"}],
           request' \in {request, NoRequest},
           statement' \in Waiting, StatementFits',
           form' \in Pages, FormFits'
    PROVE  AudienceInv'
<1>1. WriterFits' /\ writer' = writer
  BY FrameFits DEF WriterFrame
<1>2. CASE request' = request
  <2>1. SubscriptionsTypeOK'
    BY <1>1, <1>2, ZenonT(40) DEF AudienceInv, SubscriptionsTypeOK, Marks, Rows, Waiting, Pages
  <2>2. RequestFits'
    BY <1>1, <1>2 DEF AudienceInv, RequestFits
  <2> QED
    BY <1>1, <2>1, <2>2 DEF AudienceInv
<1>3. CASE request' = NoRequest
  <2>1. SubscriptionsTypeOK'
    BY <1>1, <1>3, ZenonT(40) DEF AudienceInv, SubscriptionsTypeOK, Marks, Rows, Waiting, Pages, NoRequest, Operations
  <2>2. RequestFits'
    BY <1>1, <1>3 DEF RequestFits, NoRequest
  <2> QED
    BY <1>1, <2>1, <2>2 DEF AudienceInv
<1> QED
  BY <1>2, <1>3

\* A transaction of an operator over the customers of its request.
LEMMA RunKeeps ==
    ASSUME AudienceInv, NEW op, Run(op), OnlyOf(request.who), MembershipsSafe',
           customer' \in Marks, membership' \in Rows, refused' \subseteq Pairs, blocked' \subseteq Customers,
           UNCHANGED <<statement, form, recipient>>
    PROVE  AudienceInv'
<1>1. WriterFrame
  <2>1. request.who \cap writer.who = {} /\ writer' = writer
    BY DEF Run, Free
  <2> QED
    BY <2>1, TypeFacts, OnlyOfFrame
<1>2. StatementFits' /\ FormFits'
  BY DEF AudienceInv, StatementFits, FormFits, Of
<1> QED
  BY <1>1, <1>2, TypeFacts, ChangeKeeps DEF Run

LEMMA EditKeeps ==
    ASSUME AudienceInv, UpdateCustomerWithListsInWorkspace
    PROVE  AudienceInv'
<1>1. PICK k \in request.who :
        /\ customer' = [customer EXCEPT ![k] = request.status]
        /\ membership' = Edited(k, request.lists, request.permitted, request.status, request.membership)
        /\ refused' = refused \ ({k} \X (request.permitted \ request.lists))
        /\ blocked' = IF request.status = "blocklisted" THEN blocked ELSE blocked \ {k}
  BY DEF UpdateCustomerWithListsInWorkspace
<1>2. Run("edit") /\ UNCHANGED <<statement, form, recipient>>
  BY DEF UpdateCustomerWithListsInWorkspace
<1>3. request.status \in Blockable /\ request.membership \in Statuses
  BY <1>2 DEF Run, AudienceInv, RequestFits
<1>4. k \in Customers /\ customer \in Marks /\ membership \in Rows
  BY TypeFacts
<1> DEFINE gone == {k} \X (request.permitted \ request.lists)
           given == {k} \X request.lists
           kept == Put(membership, gone, "none")
<1>5. kept \in Rows /\ \A p \in Pairs : kept[p] = IF p \in gone THEN "none" ELSE membership[p]
  BY <1>4, PutFacts DEF Rows, Statuses
<1>6. ASSUME NEW p \in Pairs
      PROVE  /\ membership'[p] \in Statuses
             /\ p \notin Of({k}) => membership'[p] = membership[p]
             /\ p \in gone => membership'[p] = "none"
             /\ request.status = "blocklisted" => membership'[p] \in {kept[p], "unsubscribed"}
             /\ membership[p] = "unsubscribed" /\ p \notin gone => membership'[p] = "unsubscribed"
  <2>1. CASE request.status = "blocklisted"
    <3>1. membership' = Put(kept, given, "unsubscribed")
      BY <1>1, <2>1 DEF Edited
    <3>2. membership'[p] = IF p \in given THEN "unsubscribed" ELSE kept[p]
      BY <3>1 DEF Put
    <3> QED
      BY <1>5, <2>1, <3>2, PairFacts DEF Rows, Statuses, Of
  <2>2. CASE request.status # "blocklisted"
    <3>1. membership' = Put(kept, {q \in given : kept[q] \in {"none", "unconfirmed"}}, request.membership)
      BY <1>1, <2>2 DEF Edited
    <3>2. membership'[p] = IF p \in given /\ kept[p] \in {"none", "unconfirmed"}
                           THEN request.membership ELSE kept[p]
      BY <3>1 DEF Put
    <3> QED
      BY <1>3, <1>5, <2>2, <3>2, PairFacts DEF Rows, Statuses, Of
  <2> QED
    BY <2>1, <2>2
<1>7. membership' \in Rows
  <2>1. membership' = [p \in Pairs |-> membership'[p]]
    BY <1>1 DEF Edited, Put
  <2> QED
    BY <1>6, <2>1 DEF Rows
<1>8. OnlyOf(request.who)
  BY <1>1, <1>4, <1>6 DEF OnlyOf, Marks, Of
<1>9. customer' \in Marks /\ refused' \subseteq Pairs /\ blocked' \subseteq Customers
  BY <1>1, <1>3, <1>4, TypeFacts DEF Marks
<1>10. MembershipsSafe'
  <2>1. RefusedStay'
    BY <1>1, <1>6, TypeFacts DEF RefusedStay, AudienceInv, MembershipsSafe
  <2>2. ASSUME NEW b \in blocked', NEW l \in Lists PROVE membership'[<<b, l>>] \in {"none", "unsubscribed"}
    <3>1. b \in blocked /\ <<b, l>> \in Pairs /\ membership[<<b, l>>] \in {"none", "unsubscribed"}
      BY <1>1, <2>2, TypeFacts, PairFacts DEF AudienceInv, MembershipsSafe, BlockedOnNone
    <3>2. request.status = "blocklisted" \/ <<b, l>> \notin Of({k})
      BY <1>1, <2>2 DEF Of
    <3> QED
      BY <1>5, <1>6, <3>1, <3>2
  <2>3. MembersExist'
    BY <1>1, <1>3, <1>4, <1>6, PairFacts DEF MembersExist, AudienceInv, MembershipsSafe, Marks, Blockable, Of
  <2>4. BlockedListed'
    BY <1>1, <1>4, TypeFacts DEF BlockedListed, AudienceInv, MembershipsSafe, Marks
  <2> QED
    BY <2>1, <2>2, <2>3, <2>4 DEF MembershipsSafe, BlockedOnNone
<1> QED
  BY <1>2, <1>7, <1>8, <1>9, <1>10, RunKeeps

\* What Blocklist does to the rows.
LEMMA BlocklistFacts ==
    ASSUME AudienceInv, NEW C \in SUBSET Customers, Exists(C), Blocklist(C)
    PROVE  /\ customer' \in Marks /\ membership' \in Rows /\ refused' \subseteq Pairs
           /\ blocked' \subseteq Customers /\ OnlyOf(C) /\ MembershipsSafe'
<1>1. customer \in Marks /\ membership \in Rows /\ refused \subseteq Pairs /\ blocked \subseteq Customers
  BY TypeFacts
<1>2. \A c \in Customers : customer'[c] = IF c \in C THEN "blocklisted" ELSE customer[c]
  BY DEF Blocklist
<1>3. \A p \in Pairs : membership'[p] = IF p[1] \in C /\ membership[p] # "none" THEN "unsubscribed"
                                        ELSE membership[p]
  BY DEF Blocklist, Unsubscribed, Put, Of
<1>4. refused' = refused \cup {p \in Pairs : p[1] \in C /\ membership[p] # "none"}
      /\ blocked' = blocked \cup C
  BY DEF Blocklist, Held, Of
<1>5. customer' \in Marks
  BY <1>1 DEF Blocklist, Marks, Blockable
<1>6. membership' \in Rows
  BY <1>1 DEF Blocklist, Unsubscribed, Put, Rows, Statuses
<1>7. OnlyOf(C)
  BY <1>2, <1>3 DEF OnlyOf, Of
<1>8. MembershipsSafe'
  <2>1. RefusedStay'
    BY <1>1, <1>3, <1>4 DEF RefusedStay, AudienceInv, MembershipsSafe
  <2>2. BlockedOnNone'
    <3>1. ASSUME NEW c \in blocked', NEW l \in Lists PROVE membership'[<<c, l>>] \in {"none", "unsubscribed"}
      BY <1>1, <1>3, <1>4, <3>1, PairFacts DEF AudienceInv, MembershipsSafe, BlockedOnNone
    <3> QED
      BY <3>1 DEF BlockedOnNone
  <2>3. MembersExist'
    BY <1>2, <1>3, PairFacts DEF MembersExist, AudienceInv, MembershipsSafe
  <2>4. BlockedListed'
    BY <1>1, <1>2, <1>4 DEF BlockedListed, AudienceInv, MembershipsSafe
  <2> QED
    BY <2>1, <2>2, <2>3, <2>4 DEF MembershipsSafe
<1> QED
  BY <1>1, <1>4, <1>5, <1>6, <1>7, <1>8

LEMMA BlockedStay ==
    ASSUME AudienceInv, blocked' \subseteq blocked,
           \A p \in Pairs : p[1] \in blocked' => membership'[p] \in {membership[p], "none", "unsubscribed"}
    PROVE  BlockedOnNone'
<1>1. ASSUME NEW c \in blocked', NEW l \in Lists PROVE membership'[<<c, l>>] \in {"none", "unsubscribed"}
  <2>1. c \in blocked /\ <<c, l>> \in Pairs /\ <<c, l>>[1] = c
    BY <1>1, TypeFacts DEF Pairs
  <2>2. membership[<<c, l>>] \in {"none", "unsubscribed"}
    BY <2>1 DEF AudienceInv, MembershipsSafe, BlockedOnNone
  <2>3. membership'[<<c, l>>] \in {membership[<<c, l>>], "none", "unsubscribed"}
    BY <1>1, <2>1
  <2> QED
    BY <2>2, <2>3
<1> QED
  BY <1>1 DEF BlockedOnNone

\* No customer is gone, and no membership is new.
LEMMA MembersStay ==
    ASSUME AudienceInv,
           \A c \in Customers : customer[c] # "none" => customer'[c] # "none",
           \A p \in Pairs : membership'[p] # "none" => membership[p] # "none" \/ customer'[p[1]] # "none"
    PROVE  MembersExist'
BY PairFacts DEF AudienceInv, MembershipsSafe, MembersExist

LEMMA AddKeeps ==
    ASSUME AudienceInv, AddSubscriptionsInWorkspace
    PROVE  AudienceInv'
<1>1. Run("add") /\ UNCHANGED <<customer, statement, form, recipient>>
  BY DEF AddSubscriptionsInWorkspace
<1>2. blocked' = blocked \ request.who /\ refused' = IF request.membership = "" THEN refused ELSE refused \ Asked
  BY DEF AddSubscriptionsInWorkspace
<1>3. \A c \in request.who : customer[c] # "none"
  BY <1>1 DEF Run, Exists
<1>4. Asked \subseteq Pairs /\ \A p \in Pairs : p \in Asked => p[1] \in request.who
  BY TypeFacts DEF Asked, Pairs
<1>5. membership' \in Rows
      /\ \A p \in Pairs :
            /\ p \notin Asked => membership'[p] = membership[p]
            /\ request.membership = "" /\ membership[p] # "none" => membership'[p] = membership[p]
  <2>1. CASE request.membership = ""
    <3>1. membership' = Put(membership, {p \in Asked : membership[p] = "none"}, "unconfirmed")
      BY <2>1 DEF AddSubscriptionsInWorkspace, Added
    <3> QED
      BY <2>1, <3>1, TypeFacts DEF Put, Rows, Statuses
  <2>2. CASE request.membership # ""
    <3>1. membership' = Put(membership, Asked, request.membership) /\ request.membership \in Statuses
      BY <2>2, TypeFacts DEF AddSubscriptionsInWorkspace, Added
    <3> QED
      BY <2>2, <3>1, TypeFacts DEF Put, Rows
  <2> QED
    BY <2>1, <2>2
<1>6. OnlyOf(request.who)
  BY <1>1, <1>4, <1>5 DEF OnlyOf, Of
<1>7. MembershipsSafe'
  <2>1. RefusedStay'
    BY <1>2, <1>5, TypeFacts DEF RefusedStay, AudienceInv, MembershipsSafe
  <2>2. BlockedOnNone'
    BY <1>2, <1>4, <1>5, BlockedStay
  <2>3. MembersExist' /\ BlockedListed'
    BY <1>1, <1>2, <1>3, <1>4, <1>5 DEF MembersExist, BlockedListed, AudienceInv, MembershipsSafe
  <2> QED
    BY <2>1, <2>2, <2>3 DEF MembershipsSafe
<1> QED
  BY <1>1, <1>2, <1>5, <1>6, <1>7, TypeFacts, RunKeeps

\* Memberships that are dropped are refused no longer.
LEMMA DropFacts ==
    ASSUME AudienceInv, NEW P \in SUBSET Pairs, Drop(P)
    PROVE  /\ membership' \in Rows /\ refused' \subseteq Pairs
           /\ \A p \in Pairs : membership'[p] = IF p \in P THEN "none" ELSE membership[p]
           /\ RefusedStay'
<1>1. membership \in Rows /\ refused \subseteq Pairs
  BY TypeFacts
<1>2. \A p \in Pairs : membership'[p] = IF p \in P THEN "none" ELSE membership[p]
  BY DEF Drop, Put
<1>3. membership' \in Rows
  BY <1>1 DEF Drop, Put, Rows, Statuses
<1> QED
  BY <1>1, <1>2, <1>3 DEF Drop, RefusedStay, AudienceInv, MembershipsSafe

LEMMA RemoveKeeps ==
    ASSUME AudienceInv, DeleteSubscriptionsInWorkspace
    PROVE  AudienceInv'
<1>1. Run("remove") /\ Drop(Asked) /\ UNCHANGED <<customer, blocked, statement, form, recipient>>
  BY DEF DeleteSubscriptionsInWorkspace
<1>2. Asked \subseteq Pairs /\ Asked \subseteq Of(request.who)
  BY TypeFacts DEF Asked, Pairs, Of
<1>3. /\ membership' \in Rows /\ refused' \subseteq Pairs /\ RefusedStay'
      /\ \A p \in Pairs : membership'[p] = IF p \in Asked THEN "none" ELSE membership[p]
  BY <1>1, <1>2, DropFacts
<1>4. OnlyOf(request.who)
  BY <1>1, <1>2, <1>3 DEF OnlyOf
<1>5. MembershipsSafe'
  <2>1. BlockedOnNone'
    BY <1>1, <1>3, BlockedStay
  <2>2. MembersExist'
    BY <1>1, <1>3, MembersStay
  <2> QED
    BY <1>1, <1>3, <2>1, <2>2 DEF AudienceInv, MembershipsSafe, BlockedListed
<1> QED
  BY <1>1, <1>3, <1>4, <1>5, TypeFacts, RunKeeps

LEMMA UnsubscribeKeeps ==
    ASSUME AudienceInv, UnsubscribeListsInWorkspace
    PROVE  AudienceInv'
<1>1. /\ Run("unsubscribe") /\ UNCHANGED <<customer, blocked, statement, form, recipient>>
      /\ refused' = refused \cup {p \in Asked : membership[p] # "none"}
  BY DEF UnsubscribeListsInWorkspace
<1>2. Asked \subseteq Pairs /\ Asked \subseteq Of(request.who)
  BY TypeFacts DEF Asked, Pairs, Of
<1>3. /\ membership' \in Rows
      /\ \A p \in Pairs : membership'[p] = IF p \in Asked /\ membership[p] # "none" THEN "unsubscribed"
                                           ELSE membership[p]
  BY TypeFacts DEF UnsubscribeListsInWorkspace, Unsubscribed, Put, Rows, Statuses
<1>4. OnlyOf(request.who)
  BY <1>1, <1>2, <1>3 DEF OnlyOf
<1>5. MembershipsSafe'
  <2>1. RefusedStay'
    BY <1>1, <1>2, <1>3, TypeFacts DEF RefusedStay, AudienceInv, MembershipsSafe
  <2>2. BlockedOnNone'
    BY <1>1, <1>3, BlockedStay
  <2>3. MembersExist'
    BY <1>1, <1>3, MembersStay
  <2> QED
    BY <1>1, <2>1, <2>2, <2>3 DEF AudienceInv, MembershipsSafe, BlockedListed
<1>6. refused' \subseteq Pairs
  BY <1>1, <1>2, TypeFacts
<1> QED
  BY <1>1, <1>3, <1>4, <1>5, <1>6, TypeFacts, RunKeeps

LEMMA BlockKeeps ==
    ASSUME AudienceInv, BlocklistCustomersInWorkspace
    PROVE  AudienceInv'
<1>1. Run("block") /\ Blocklist(request.who) /\ UNCHANGED <<statement, form, recipient>>
  BY DEF BlocklistCustomersInWorkspace
<1>2. Exists(request.who)
  BY <1>1 DEF Run
<1> QED
  BY <1>1, <1>2, TypeFacts, BlocklistFacts, RunKeeps

LEMMA UnblockKeeps ==
    ASSUME AudienceInv, SetCustomersBlocklistInWorkspace
    PROVE  AudienceInv'
<1>1. /\ Run("unblock") /\ UNCHANGED <<membership, refused, statement, form, recipient>>
      /\ customer' = [c \in Customers |-> IF c \in request.who THEN "enabled" ELSE customer[c]]
      /\ blocked' = blocked \ request.who
  BY DEF SetCustomersBlocklistInWorkspace
<1>2. customer' \in Marks /\ blocked' \subseteq Customers
  BY <1>1, TypeFacts DEF Marks, Blockable
<1>3. OnlyOf(request.who)
  BY <1>1 DEF OnlyOf
<1>4. MembershipsSafe'
  BY <1>1, TypeFacts, PairFacts
     DEF AudienceInv, MembershipsSafe, RefusedStay, BlockedOnNone, MembersExist, BlockedListed
<1> QED
  BY <1>1, <1>2, <1>3, <1>4, TypeFacts, RunKeeps

-----------------------------------------------------------------------------
(* Customers that are deleted. *)

\* What Delete and Drop do to the rows and to the page that is open.
LEMMA DeleteFacts ==
    ASSUME AudienceInv, NEW C \in SUBSET Customers, NEW P \in SUBSET Pairs, Of(C) \subseteq P,
           Delete(C), Drop(P)
    PROVE  /\ customer' \in Marks /\ membership' \in Rows /\ refused' \subseteq Pairs
           /\ blocked' \subseteq Customers /\ MembershipsSafe'
           /\ recipient' \in [Customers -> {"none", "pending", "queued"}]
           /\ form' \in Pages /\ FormFits'
           /\ \A c \in Customers : customer'[c] = IF c \in C THEN "none" ELSE customer[c]
           /\ \A p \in Pairs : membership'[p] = IF p \in P THEN "none" ELSE membership[p]
<1>1. /\ membership' \in Rows /\ refused' \subseteq Pairs /\ RefusedStay'
      /\ \A p \in Pairs : membership'[p] = IF p \in P THEN "none" ELSE membership[p]
  BY DropFacts
<1>2. /\ \A c \in Customers : customer'[c] = IF c \in C THEN "none" ELSE customer[c]
      /\ blocked' = blocked \ C /\ form' \in {form, NoForm}
  BY DEF Delete
<1>3. customer' \in Marks /\ recipient' \in [Customers -> {"none", "pending", "queued"}]
  BY TypeFacts DEF Delete, Marks
<1>4. form' \in Pages /\ FormFits'
  <2>1. NoForm \in Pages /\ NoForm.at # "profile"
    BY DEF NoForm, Pages
  <2> QED
    BY <1>2, <2>1, TypeFacts DEF AudienceInv, FormFits
<1>5. MembershipsSafe'
  <2>1. BlockedOnNone'
    BY <1>1, <1>2, BlockedStay
  <2>2. ASSUME NEW p \in Pairs, membership'[p] # "none" PROVE customer'[p[1]] # "none"
    <3>1. p \notin Of(C) /\ membership[p] # "none"
      BY <1>1, <2>2
    <3>2. p[1] \in Customers /\ p[1] \notin C /\ customer[p[1]] # "none"
      BY <3>1, PairFacts DEF Of, AudienceInv, MembershipsSafe, MembersExist
    <3> QED
      BY <1>2, <3>2
  <2>3. BlockedListed'
    BY <1>2, TypeFacts DEF AudienceInv, MembershipsSafe, BlockedListed
  <2> QED
    BY <1>1, <2>1, <2>2, <2>3 DEF MembershipsSafe, MembersExist
<1> QED
  BY <1>1, <1>2, <1>3, <1>4, <1>5, TypeFacts

LEMMA WithoutFits ==
    ASSUME AudienceInv, NEW C \in SUBSET Customers, statement' = StatementWithout(C)
    PROVE  statement' \in Waiting /\ StatementFits'
<1>1. statement \in Waiting /\ statement.seen \subseteq Of(statement.who)
  BY TypeFacts DEF AudienceInv, StatementFits
<1>2. CASE statement.who \subseteq C
  BY <1>2 DEF StatementWithout, NoStatement, Waiting, StatementFits, Of
<1>3. CASE ~(statement.who \subseteq C)
  <2>1. statement' = [statement EXCEPT !.who = @ \ C, !.seen = @ \ Of(C)]
    BY <1>3 DEF StatementWithout
  <2>2. statement'.who = statement.who \ C /\ statement'.seen = statement.seen \ Of(C)
    BY <1>1, <2>1 DEF Waiting
  <2>3. statement' \in Waiting
    BY <1>1, <2>1 DEF Waiting
  <2> QED
    BY <1>1, <2>2, <2>3 DEF StatementFits, Of
<1> QED
  BY <1>2, <1>3

\* Customers that no transaction holds are deleted, with their memberships.
LEMMA GoneKeeps ==
    ASSUME AudienceInv, NEW C \in SUBSET Customers, C \cap writer.who = {},
           Delete(C), Drop(Of(C)), statement' \in Waiting, StatementFits',
           request' \in {request, NoRequest}, UNCHANGED <<list, double, writer>>
    PROVE  AudienceInv'
<1>1. Of(C) \in SUBSET Pairs
  BY DEF Of
<1>2. /\ customer' \in Marks /\ membership' \in Rows /\ refused' \subseteq Pairs
      /\ blocked' \subseteq Customers /\ MembershipsSafe'
      /\ recipient' \in [Customers -> {"none", "pending", "queued"}]
      /\ form' \in Pages /\ FormFits'
      /\ \A c \in Customers : customer'[c] = IF c \in C THEN "none" ELSE customer[c]
      /\ \A p \in Pairs : membership'[p] = IF p \in Of(C) THEN "none" ELSE membership[p]
  BY <1>1, DeleteFacts
<1>3. OnlyOf(C)
  BY <1>2 DEF OnlyOf
<1>4. WriterFrame
  BY <1>3, OnlyOfFrame
<1>5. list' \in [Lists -> {"none", "private", "public", "deleted"}] /\ double' = double
  BY TypeFacts
<1> QED
  BY <1>2, <1>4, <1>5, ChangeKeeps

LEMMA DeletionsKeep ==
    ASSUME AudienceInv,
           \/ DeleteCustomersInWorkspace \/ DeleteBlocklistedCustomers
           \/ \E c \in Customers : WipeCustomerData(c)
    PROVE  AudienceInv'
<1>1. ASSUME NEW C PROVE RequestWithout(C) \in {request, NoRequest}
  BY DEF RequestWithout
<1>2. CASE DeleteCustomersInWorkspace
  <2>1. request.who \in SUBSET Customers /\ request.who \cap writer.who = {}
        /\ request' \in {request, NoRequest} /\ UNCHANGED <<list, double, writer>>
    BY <1>2, TypeFacts DEF DeleteCustomersInWorkspace, Run, Free
  <2>2. Delete(request.who) /\ Drop(Of(request.who)) /\ statement' = StatementWithout(request.who)
    BY <1>2 DEF DeleteCustomersInWorkspace
  <2>3. statement' \in Waiting /\ StatementFits'
    BY <2>1, <2>2, WithoutFits
  <2> QED
    BY <2>1, <2>2, <2>3, GoneKeeps
<1>3. CASE DeleteBlocklistedCustomers
  <2> DEFINE gone == {c \in Customers : customer[c] = "blocklisted"}
  <2>1. /\ gone \in SUBSET Customers /\ gone \cap writer.who = {}
        /\ Delete(gone) /\ Drop(Of(gone)) /\ statement' = StatementWithout(gone)
        /\ request' = RequestWithout(gone) /\ UNCHANGED <<list, double, writer>>
    BY <1>3 DEF DeleteBlocklistedCustomers, Free
  <2> HIDE DEF gone
  <2>2. statement' \in Waiting /\ StatementFits'
    BY <2>1, WithoutFits
  <2> QED
    BY <1>1, <2>1, <2>2, GoneKeeps
<1>4. ASSUME NEW c \in Customers, WipeCustomerData(c) PROVE AudienceInv'
  <2>1. /\ {c} \in SUBSET Customers /\ {c} \cap writer.who = {}
        /\ Delete({c}) /\ Drop(Of({c})) /\ statement' = StatementWithout({c})
        /\ request' = RequestWithout({c}) /\ UNCHANGED <<list, double, writer>>
    BY <1>4 DEF WipeCustomerData, Free
  <2>2. statement' \in Waiting /\ StatementFits'
    BY <2>1, WithoutFits
  <2> QED
    BY <1>1, <2>1, <2>2, GoneKeeps
<1> QED
  BY <1>2, <1>3, <1>4

\* Memberships of lists that are deleted: no open transaction writes to one.
LEMMA DeleteListsKeeps ==
    ASSUME AudienceInv, DeleteListsInWorkspace
    PROVE  AudienceInv'
<1> DEFINE P == Customers \X request.lists
<1>1. /\ Drop(P) /\ request' = NoRequest /\ Settled(request.lists)
      /\ list' = [l \in Lists |-> IF l \in request.lists THEN "deleted" ELSE list[l]]
      /\ UNCHANGED <<customer, double, blocked, writer, statement, form, recipient>>
  BY DEF DeleteListsInWorkspace
<1>2. P \in SUBSET Pairs
  BY TypeFacts DEF Pairs
<1>3. /\ membership' \in Rows /\ refused' \subseteq Pairs /\ RefusedStay'
      /\ \A p \in Pairs : membership'[p] = IF p \in P THEN "none" ELSE membership[p]
  BY <1>1, <1>2, DropFacts
<1>4. MembershipsSafe'
  <2>1. BlockedOnNone' /\ MembersExist'
    BY <1>1, <1>3, BlockedStay, MembersStay
  <2> QED
    BY <1>1, <1>3, <2>1 DEF AudienceInv, MembershipsSafe, BlockedListed
<1>5. WriterFrame
  <2>1. \A p \in writer.rows : p \notin P
    BY <1>1, PairFacts, TypeFacts DEF Settled
  <2> QED
    BY <1>1, <1>3, <2>1, TypeFacts DEF WriterFrame, Of
<1>6. list' \in [Lists -> {"none", "private", "public", "deleted"}]
  BY <1>1, TypeFacts
<1>7. FormFits' /\ StatementFits'
  BY <1>1 DEF AudienceInv, FormFits, StatementFits, Of
<1> QED
  BY <1>1, <1>3, <1>4, <1>5, <1>6, <1>7, TypeFacts, ChangeKeeps

LEMMA PruneKeeps ==
    ASSUME AudienceInv, DeleteListsWithCustomersInWorkspace
    PROVE  AudienceInv'
<1>1. request' = NoRequest /\ Settled(request.lists) /\ UNCHANGED <<double, writer>>
  BY DEF DeleteListsWithCustomersInWorkspace
<1>2. CASE On(request.lists) \subseteq request.locked
  <2> DEFINE gone == Unshared(On(request.lists), request.lists)
             P == Of(gone) \cup (Customers \X request.lists)
  <2>1. /\ Delete(gone) /\ Drop(P) /\ statement' = StatementWithout(gone)
        /\ list' = [l \in Lists |-> IF l \in request.lists THEN "deleted" ELSE list[l]]
    BY <1>2 DEF DeleteListsWithCustomersInWorkspace
  <2>2. gone \in SUBSET Customers /\ gone \cap writer.who = {}
    BY <1>2 DEF Unshared, On, AudienceInv, RequestFits
  <2>3. P \in SUBSET Pairs /\ Of(gone) \subseteq P
    BY TypeFacts DEF Pairs, Of
  <2>4. \A p \in Pairs : p \in P => p[1] \in gone \/ p[2] \in request.lists
    BY DEF Of
  <2> HIDE DEF gone, P
  <2>5. /\ customer' \in Marks /\ membership' \in Rows /\ refused' \subseteq Pairs
        /\ blocked' \subseteq Customers /\ MembershipsSafe'
        /\ recipient' \in [Customers -> {"none", "pending", "queued"}]
        /\ form' \in Pages /\ FormFits'
        /\ \A c \in Customers : customer'[c] = IF c \in gone THEN "none" ELSE customer[c]
        /\ \A p \in Pairs : membership'[p] = IF p \in P THEN "none" ELSE membership[p]
    BY <2>1, <2>2, <2>3, DeleteFacts
  <2>6. statement' \in Waiting /\ StatementFits'
    BY <2>1, <2>2, WithoutFits
  <2>7. WriterFrame
    <3>1. writer.rows \subseteq Of(writer.who) /\ writer.rows \subseteq Pairs /\ writer.who \subseteq Customers
      BY TypeFacts DEF AudienceInv, WriterFits
    <3>2. \A p \in writer.rows : p \notin P
      BY <1>1, <2>2, <2>4, <3>1 DEF Settled, Of
    <3> QED
      BY <1>1, <2>2, <2>5, <3>1, <3>2 DEF WriterFrame, Of
  <2>8. list' \in [Lists -> {"none", "private", "public", "deleted"}]
    BY <2>1, TypeFacts
  <2> QED
    BY <1>1, <2>5, <2>6, <2>7, <2>8, ChangeKeeps
<1>3. CASE ~(On(request.lists) \subseteq request.locked)
  <2>1. UNCHANGED <<customer, membership, list, refused, blocked, statement, form, recipient>>
    BY <1>3 DEF DeleteListsWithCustomersInWorkspace, history
  <2>2. MembershipsSafe'
    BY <1>1, <2>1, UntouchedSafe DEF Untouched
  <2>3. FormFits' /\ StatementFits' /\ WriterFrame
    BY <1>1, <2>1 DEF AudienceInv, FormFits, StatementFits, Of, WriterFrame
  <2> QED
    BY <1>1, <2>1, <2>2, <2>3, TypeFacts, ChangeKeeps
<1> QED
  BY <1>2, <1>3

-----------------------------------------------------------------------------
(* Steps of the system and of recipients that change rows. *)

LEMMA InsertKeeps ==
    ASSUME AudienceInv, NEW c \in Customers, NEW L \in SUBSET Lists, NEW status \in Blockable, NEW s \in Given,
           InsertWorkspaceCustomer(c, L, status, s)
    PROVE  AudienceInv'
<1>1. /\ customer[c] = "none" /\ c \notin writer.who
      /\ customer' = [customer EXCEPT ![c] = status]
      /\ membership' = Put(membership, {c} \X L, s)
      /\ UNCHANGED <<list, double, refused, blocked, writer, statement, request, form, recipient>>
  BY DEF InsertWorkspaceCustomer, Free, history
<1>2. s \in Statuses /\ status # "none"
  BY DEF Given, Statuses, Blockable
<1>3. customer' \in Marks /\ \A k \in Customers : customer'[k] = IF k = c THEN status ELSE customer[k]
  BY <1>1, TypeFacts DEF Marks
<1>4. membership' \in Rows
      /\ \A p \in Pairs : p[1] # c => membership'[p] = membership[p]
  BY <1>1, <1>2, TypeFacts, PairFacts DEF Put, Rows
<1>5. \A p \in Pairs : p[1] = c => membership[p] = "none"
  BY <1>1 DEF AudienceInv, MembershipsSafe, MembersExist
<1>6. c \notin blocked
  BY <1>1 DEF AudienceInv, MembershipsSafe, BlockedListed
<1>7. MembershipsSafe'
  <2>1. RefusedStay'
    BY <1>1, <1>4, <1>5, TypeFacts DEF AudienceInv, MembershipsSafe, RefusedStay
  <2>2. BlockedOnNone'
    BY <1>1, <1>4, <1>6, BlockedStay
  <2>3. MembersExist'
    BY <1>2, <1>3, <1>4, MembersStay
  <2>4. BlockedListed'
    BY <1>1, <1>3, <1>6, TypeFacts DEF AudienceInv, MembershipsSafe, BlockedListed
  <2> QED
    BY <2>1, <2>2, <2>3, <2>4 DEF MembershipsSafe
<1>8. WriterFrame
  <2>1. OnlyOf({c}) /\ {c} \cap writer.who = {} /\ {c} \in SUBSET Customers
    BY <1>1, <1>3, <1>4 DEF OnlyOf, Of
  <2> QED
    BY <1>1, <2>1, OnlyOfFrame
<1>9. FormFits' /\ StatementFits'
  BY <1>1 DEF AudienceInv, FormFits, StatementFits, Of
<1> QED
  BY <1>1, <1>3, <1>4, <1>7, <1>8, <1>9, TypeFacts, ChangeKeeps

\* A bounce, and the automation of the provider.
LEMMA BouncesKeep ==
    ASSUME AudienceInv, NEW c \in Customers, BounceBlocklists(c) \/ AutomationBlocklists(c)
    PROVE  AudienceInv'
<1>1. /\ Exists({c}) /\ {c} \cap writer.who = {} /\ {c} \in SUBSET Customers
      /\ UNCHANGED <<list, double, writer, statement, request, form, recipient>>
  BY DEF BounceBlocklists, AutomationBlocklists, Free
<1>2. FormFits' /\ StatementFits'
  BY <1>1 DEF AudienceInv, FormFits, StatementFits, Of
<1>3. /\ customer' \in Marks /\ membership' \in Rows /\ refused' \subseteq Pairs
      /\ blocked' \subseteq Customers /\ OnlyOf({c}) /\ MembershipsSafe'
  <2>1. CASE BounceBlocklists(c)
    <3>1. /\ customer' = [customer EXCEPT ![c] = "blocklisted"]
          /\ UNCHANGED <<membership, refused, blocked>>
      BY <2>1 DEF BounceBlocklists, history
    <3>2. customer' \in Marks
          /\ \A k \in Customers : customer'[k] = IF k = c THEN "blocklisted" ELSE customer[k]
      BY <3>1, TypeFacts DEF Marks, Blockable
    <3>3. MembersExist'
      BY <3>1, <3>2, MembersStay
    <3>4. RefusedStay' /\ BlockedOnNone' /\ BlockedListed'
      BY <3>1, <3>2, TypeFacts DEF AudienceInv, MembershipsSafe, RefusedStay, BlockedOnNone, BlockedListed
    <3> QED
      BY <3>1, <3>2, <3>3, <3>4, TypeFacts DEF MembershipsSafe, OnlyOf
  <2>2. CASE AutomationBlocklists(c)
    BY <1>1, <2>2, BlocklistFacts DEF AutomationBlocklists
  <2> QED
    BY <2>1, <2>2
<1>4. WriterFrame
  BY <1>1, <1>3, OnlyOfFrame
<1> QED
  BY <1>1, <1>2, <1>3, <1>4, TypeFacts, ChangeKeeps

LEMMA ExpireUnconfirmedKeeps ==
    ASSUME AudienceInv, NEW old \in SUBSET Pairs, DeleteUnconfirmedSubscriptions(old)
    PROVE  AudienceInv'
<1> DEFINE gone == {p \in old : membership[p] = "unconfirmed" /\ p[2] \in double}
<1>1. /\ Drop(gone) /\ Unlocked(gone)
      /\ UNCHANGED <<customer, list, double, blocked, writer, statement, request, form, recipient>>
  BY DEF DeleteUnconfirmedSubscriptions
<1>2. gone \in SUBSET Pairs /\ \A p \in gone : membership[p] # "none"
  OBVIOUS
<1> HIDE DEF gone
<1>3. /\ membership' \in Rows /\ refused' \subseteq Pairs /\ RefusedStay'
      /\ \A p \in Pairs : membership'[p] = IF p \in gone THEN "none" ELSE membership[p]
  BY <1>1, <1>2, DropFacts
<1>4. MembershipsSafe'
  <2>1. BlockedOnNone' /\ MembersExist'
    BY <1>1, <1>3, BlockedStay, MembersStay
  <2> QED
    BY <1>1, <1>3, <2>1 DEF AudienceInv, MembershipsSafe, BlockedListed
<1>5. WriterFrame
  BY <1>1, <1>2, <1>3, TypeFacts DEF WriterFrame, Unlocked, Of
<1>6. FormFits' /\ StatementFits'
  BY <1>1 DEF AudienceInv, FormFits, StatementFits, Of
<1> QED
  BY <1>1, <1>3, <1>4, <1>5, <1>6, TypeFacts, ChangeKeeps

\* The page of a recipient sets memberships that no open transaction wrote.
LEMMA PageFrame ==
    ASSUME AudienceInv, NEW P \in SUBSET Pairs, \A p \in P : membership[p] # "none", Unlocked(P),
           NEW s \in Statuses, membership' = Put(membership, P, s), UNCHANGED <<customer, writer>>
    PROVE  WriterFrame /\ MembersExist'
           /\ \A p \in Pairs : membership'[p] = IF p \in P THEN s ELSE membership[p]
<1>1. \A p \in Pairs : membership'[p] = IF p \in P THEN s ELSE membership[p]
  BY DEF Put
<1>2. MembersExist'
  BY <1>1, MembersStay
<1> QED
  BY <1>1, <1>2, TypeFacts DEF WriterFrame, Unlocked, Of

LEMMA NoFormFits ==
    ASSUME form' = NoForm
    PROVE  form' \in Pages /\ FormFits'
<1>1. NoForm \in Pages /\ NoForm.at # "profile"
  BY DEF NoForm, Pages
<1> QED
  BY <1>1 DEF FormFits

LEMMA ConfirmKeeps ==
    ASSUME AudienceInv, ConfirmOptionSubscription
    PROVE  AudienceInv'
<1> DEFINE P == {p \in form.who \X form.lists : membership[p] # "none"}
<1>1. /\ Unlocked(P) /\ membership' = Put(membership, P, "confirmed")
      /\ refused' = refused \ P /\ blocked' = IF P = {} THEN blocked ELSE blocked \ form.who
      /\ form' = NoForm
      /\ UNCHANGED <<customer, list, double, writer, statement, request, recipient>>
  BY DEF ConfirmOptionSubscription
<1>2. P \in SUBSET Pairs /\ (\A p \in P : membership[p] # "none") /\ \A p \in P : p[1] \in form.who
  BY TypeFacts DEF Pages, Pairs
<1> HIDE DEF P
<1>3. WriterFrame /\ MembersExist'
      /\ \A p \in Pairs : membership'[p] = IF p \in P THEN "confirmed" ELSE membership[p]
  BY <1>1, <1>2, PageFrame DEF Statuses
<1>4. membership' \in Rows
  BY <1>1, TypeFacts DEF Put, Rows, Statuses
<1>5. MembershipsSafe'
  <2>1. RefusedStay'
    BY <1>1, <1>3, TypeFacts DEF AudienceInv, MembershipsSafe, RefusedStay
  <2>2. BlockedOnNone'
    BY <1>1, <1>2, <1>3, BlockedStay
  <2> QED
    BY <1>1, <1>3, <2>1, <2>2 DEF AudienceInv, MembershipsSafe, BlockedListed
<1>6. StatementFits'
  BY <1>1 DEF AudienceInv, StatementFits, Of
<1> QED
  BY <1>1, <1>3, <1>4, <1>5, <1>6, NoFormFits, TypeFacts, ChangeKeeps

LEMMA PreferencesKeep ==
    ASSUME AudienceInv, UnsubscribePreferences
    PROVE  AudienceInv'
<1> DEFINE P == {p \in form.who \X form.lists : membership[p] # "none"}
<1>1. /\ Unlocked(P) /\ membership' = Put(membership, P, "unsubscribed")
      /\ refused' = refused \cup P /\ form' = NoForm
      /\ UNCHANGED <<customer, list, double, blocked, writer, statement, request, recipient>>
  BY DEF UnsubscribePreferences
<1>2. P \in SUBSET Pairs /\ (\A p \in P : membership[p] # "none")
  BY TypeFacts DEF Pages, Pairs
<1> HIDE DEF P
<1>3. WriterFrame /\ MembersExist'
      /\ \A p \in Pairs : membership'[p] = IF p \in P THEN "unsubscribed" ELSE membership[p]
  BY <1>1, <1>2, PageFrame DEF Statuses
<1>4. membership' \in Rows /\ refused' \subseteq Pairs
  BY <1>1, <1>2, TypeFacts DEF Put, Rows, Statuses
<1>5. MembershipsSafe'
  <2>1. RefusedStay'
    BY <1>1, <1>2, <1>3, TypeFacts DEF AudienceInv, MembershipsSafe, RefusedStay
  <2>2. BlockedOnNone'
    BY <1>1, <1>3, BlockedStay
  <2> QED
    BY <1>1, <1>3, <2>1, <2>2 DEF AudienceInv, MembershipsSafe, BlockedListed
<1>6. StatementFits'
  BY <1>1 DEF AudienceInv, StatementFits, Of
<1> QED
  BY <1>1, <1>3, <1>4, <1>5, <1>6, NoFormFits, TypeFacts, ChangeKeeps

LEMMA ProfileKeeps ==
    ASSUME AudienceInv, UpdateProfile
    PROVE  AudienceInv'
<1>1. /\ form.at = "profile" /\ form.who \cap writer.who = {} /\ form' = [form EXCEPT !.at = "read"]
      /\ customer' = [c \in Customers |-> IF c \in form.who THEN form.status ELSE customer[c]]
      /\ blocked' = IF form.status = "blocklisted" THEN blocked ELSE blocked \ form.who
      /\ UNCHANGED <<membership, list, double, refused, writer, statement, request, recipient>>
  BY DEF UpdateProfile, Free
<1>2. form \in Pages /\ form.who \in SUBSET Customers /\ form.status \in Blockable
  BY <1>1, TypeFacts DEF Pages, AudienceInv, FormFits
<1>3. form' \in Pages /\ FormFits'
  BY <1>1, <1>2 DEF Pages, FormFits
<1>4. customer' \in Marks /\ \A c \in form.who : customer'[c] # "none"
  BY <1>1, <1>2, TypeFacts DEF Marks, Blockable
<1>5. OnlyOf(form.who) /\ WriterFrame
  BY <1>1, <1>2, OnlyOfFrame DEF OnlyOf
<1>6. MembershipsSafe'
  <2>1. BlockedOnNone'
    BY <1>1, BlockedStay
  <2>2. MembersExist'
    BY <1>1, <1>4, MembersStay
  <2>3. BlockedListed' /\ RefusedStay'
    BY <1>1, TypeFacts DEF AudienceInv, MembershipsSafe, BlockedListed, RefusedStay
  <2> QED
    BY <2>1, <2>2, <2>3 DEF MembershipsSafe
<1>7. StatementFits'
  BY <1>1 DEF AudienceInv, StatementFits, Of
<1> QED
  BY <1>1, <1>3, <1>4, <1>5, <1>6, <1>7, TypeFacts, ChangeKeeps

\* A statement ends: what it saw is unsubscribed, or its orphans are deleted.
LEMMA FinishKeeps ==
    ASSUME AudienceInv, Finish
    PROVE  AudienceInv'
<1> DEFINE seen == {p \in statement.seen : membership[p] # "none"}
<1>1. /\ statement.who \cap writer.who = {} /\ statement' = NoStatement /\ UNCHANGED <<list, double, writer>>
  BY DEF Finish, Free
<1>2. statement.who \in SUBSET Customers /\ statement.seen \in SUBSET Pairs
      /\ statement.seen \subseteq Of(statement.who)
  BY TypeFacts DEF Waiting, AudienceInv, StatementFits
<1>3. statement' \in Waiting /\ StatementFits'
  BY <1>1 DEF NoStatement, Waiting, StatementFits, Of
<1>4. ASSUME membership' = Put(membership, seen, "unsubscribed"), refused' = refused \cup seen,
             customer' = [c \in Customers |->
                IF c \in statement.who /\ statement.kind = "block" /\ customer[c] # "none"
                THEN "blocklisted" ELSE customer[c]],
             UNCHANGED <<blocked, request, form, recipient>>
      PROVE  AudienceInv'
  <2>1. seen \in SUBSET Pairs /\ seen \subseteq Of(statement.who) /\ \A p \in seen : membership[p] # "none"
    BY <1>2
  <2> HIDE DEF seen
  <2>2. /\ membership' \in Rows
        /\ \A p \in Pairs : membership'[p] = IF p \in seen THEN "unsubscribed" ELSE membership[p]
    BY <1>4, TypeFacts DEF Put, Rows, Statuses
  <2>3. /\ customer' \in Marks
        /\ \A c \in Customers : customer'[c] \in {customer[c], "blocklisted"}
        /\ \A c \in Customers \ statement.who : customer'[c] = customer[c]
    BY <1>4, TypeFacts DEF Marks, Blockable
  <2>4. OnlyOf(statement.who)
    BY <2>1, <2>2, <2>3 DEF OnlyOf
  <2>5. WriterFrame
    BY <1>1, <1>2, <2>4, OnlyOfFrame
  <2>6. MembershipsSafe'
    <3>1. RefusedStay'
      BY <1>4, <2>1, <2>2, TypeFacts DEF AudienceInv, MembershipsSafe, RefusedStay
    <3>2. BlockedOnNone'
      BY <1>4, <2>2, BlockedStay
    <3>3. MembersExist'
      BY <2>1, <2>2, <2>3, MembersStay
    <3>4. BlockedListed'
      BY <1>4, <2>3, TypeFacts DEF AudienceInv, MembershipsSafe, BlockedListed
    <3> QED
      BY <3>1, <3>2, <3>3, <3>4 DEF MembershipsSafe
  <2>7. FormFits'
    BY <1>4 DEF AudienceInv, FormFits
  <2>8. refused' \subseteq Pairs
    BY <1>4, <2>1, TypeFacts
  <2> QED
    BY <1>1, <1>3, <1>4, <2>2, <2>3, <2>5, <2>6, <2>7, <2>8, TypeFacts, ChangeKeeps
<1>5. ASSUME Delete(statement.who), Drop(Of(statement.who)), request' = RequestWithout(statement.who)
      PROVE  AudienceInv'
  <2>1. request' \in {request, NoRequest}
    BY <1>5 DEF RequestWithout
  <2> QED
    BY <1>1, <1>2, <1>3, <1>5, <2>1, GoneKeeps
<1> QED
  BY <1>4, <1>5 DEF Finish

-----------------------------------------------------------------------------
(* Open transactions. *)

LEMMA WriteKeeps ==
    ASSUME AudienceInv, NEW c \in Customers, NEW status \in Blockable, NEW P \in SUBSET Pairs, NEW m \in Rows,
           NEW blocks \in BOOLEAN, NEW overwrites \in BOOLEAN, Write(c, status, P, m, blocks, overwrites),
           P \subseteq Of({c}),
           ~blocks => status = customer[c] \/ (customer[c] = "none" /\ status = "enabled"),
           blocks => /\ status = "blocklisted"
                     /\ \A p \in P : m[p] = "unsubscribed"
                     /\ \A p \in Of({c}) \ P : membership[p] = "none",
           ~blocks /\ ~overwrites => \A p \in P : membership[p] = "none" \/ m[p] = membership[p],
           ~blocks /\ status = "blocklisted" =>
               \A p \in P : membership[p] = "none" \/ overwrites => m[p] = "unsubscribed"
    PROVE  AudienceInv'
<1> DEFINE to == [p \in Pairs |-> IF p \in P THEN m[p] ELSE "none"]
<1>1. /\ writer' = [who |-> {c}, status |-> status, rows |-> P, to |-> to, blocks |-> blocks,
                    overwrites |-> overwrites]
      /\ c \notin request.locked
      /\ UNCHANGED <<customer, membership, list, double, refused, blocked, statement, request, form, recipient>>
  BY DEF Write, Free, tables, history
<1>2. to \in Rows /\ \A p \in P : to[p] = m[p]
  BY DEF Rows, Statuses
<1> HIDE DEF to
<1>3. SubscriptionsTypeOK'
  <2>1. writer' \in [who : SUBSET Customers, status : Blockable \cup {"none"}, rows : SUBSET Pairs,
                     to : [Pairs -> Statuses], blocks : BOOLEAN, overwrites : BOOLEAN]
    BY <1>1, <1>2 DEF Rows
  <2> QED
    BY <1>1, <2>1 DEF AudienceInv, SubscriptionsTypeOK
<1>4. MembershipsSafe'
  BY <1>1 DEF AudienceInv, MembershipsSafe, RefusedStay, BlockedOnNone, MembersExist, BlockedListed
<1>5. RequestFits' /\ FormFits' /\ StatementFits'
  BY <1>1 DEF AudienceInv, RequestFits, FormFits, StatementFits, Of
<1>6. WriterFits'
  <2>1. /\ writer'.who = {c} /\ writer'.status = status /\ writer'.rows = P /\ writer'.to = to
        /\ writer'.blocks = blocks /\ writer'.overwrites = overwrites
    BY <1>1
  <2> QED
    BY <1>1, <1>2, <2>1 DEF WriterFits, Of
<1> QED
  BY <1>3, <1>4, <1>5, <1>6 DEF AudienceInv

\* An upsert leaves what there is, unless it overwrites.
LEMMA UpsertKeeps ==
    ASSUME AudienceInv, NEW c \in Customers, NEW P \in SUBSET Pairs, P \subseteq Of({c}), NEW s \in Statuses,
           NEW overwrite \in BOOLEAN,
           Write(c, StatusAfter(c), P, Upserted(P, customer[c], s, overwrite), FALSE, overwrite)
    PROVE  AudienceInv'
<1> DEFINE status == StatusAfter(c)
           put == IF customer[c] = "blocklisted" THEN "unsubscribed" ELSE s
           m == Upserted(P, customer[c], s, overwrite)
           blocks == FALSE
<1>1. status \in Blockable /\ put \in Statuses
      /\ (status = customer[c] \/ (customer[c] = "none" /\ status = "enabled"))
  BY TypeFacts DEF StatusAfter, Marks, Blockable, Statuses
<1>2. m \in Rows
      /\ \A p \in P : m[p] = IF overwrite \/ membership[p] = "none" THEN put ELSE membership[p]
  BY <1>1, TypeFacts DEF Upserted, Put, Rows
<1>3. status = "blocklisted" => put = "unsubscribed"
  BY DEF StatusAfter
<1>4. Write(c, status, P, m, blocks, overwrite) /\ blocks \in BOOLEAN /\ ~blocks
  OBVIOUS
<1> HIDE DEF status, put, m, blocks
<1>5. ~overwrite => \A p \in P : membership[p] = "none" \/ m[p] = membership[p]
  BY <1>2
<1>6. status = "blocklisted" => \A p \in P : membership[p] = "none" \/ overwrite => m[p] = "unsubscribed"
  BY <1>2, <1>3
<1>7. m \in Rows /\ status \in Blockable
  BY <1>1, <1>2
<1> QED
  BY <1>1, <1>4, <1>5, <1>6, <1>7, WriteKeeps

LEMMA ImportsKeep ==
    ASSUME AudienceInv, NEW c \in Customers, NEW L \in SUBSET Lists, NEW s \in Given, NEW overwrite \in BOOLEAN,
           UpsertWorkspaceCustomer(c, L, s, overwrite) \/ UpsertPublicWorkspaceCustomer(c, L)
    PROVE  AudienceInv'
<1>1. s \in Statuses /\ "unconfirmed" \in Statuses
  BY DEF Given, Statuses
<1>2. CASE UpsertWorkspaceCustomer(c, L, s, overwrite)
  <2>1. {c} \X Live(L) \in SUBSET Pairs /\ {c} \X Live(L) \subseteq Of({c})
    BY DEF Live, Pairs, Of
  <2> QED
    BY <1>1, <1>2, <2>1, UpsertKeeps DEF UpsertWorkspaceCustomer
<1>3. CASE UpsertPublicWorkspaceCustomer(c, L)
  <2>1. {c} \X L \in SUBSET Pairs /\ {c} \X L \subseteq Of({c})
    BY DEF Pairs, Of
  <2> QED
    BY <1>1, <1>3, <2>1, UpsertKeeps DEF UpsertPublicWorkspaceCustomer
<1> QED
  BY <1>2, <1>3

LEMMA BlocklistImportKeeps ==
    ASSUME AudienceInv, NEW c \in Customers, UpsertWorkspaceBlocklistCustomer(c)
    PROVE  AudienceInv'
<1> DEFINE P == Held({c})
           m == Unsubscribed(P)
<1>1. P \in SUBSET Pairs /\ P \subseteq Of({c}) /\ \A p \in Of({c}) \ P : membership[p] = "none"
  BY DEF Held, Of
<1>2. m \in Rows /\ \A p \in P : m[p] = "unsubscribed"
  BY TypeFacts DEF Unsubscribed, Put, Rows, Statuses, Held, Of
<1>3. Write(c, "blocklisted", P, m, TRUE, FALSE)
  BY DEF UpsertWorkspaceBlocklistCustomer
<1> HIDE DEF P, m
<1> QED
  BY <1>1, <1>2, <1>3, WriteKeeps DEF Blockable

LEMMA NoWriterFits ==
    ASSUME writer' = NoWriter
    PROVE  /\ WriterFits'
           /\ writer' \in [who : SUBSET Customers, status : Blockable \cup {"none"}, rows : SUBSET Pairs,
                           to : [Pairs -> Statuses], blocks : BOOLEAN, overwrites : BOOLEAN]
<1>1. /\ NoWriter.who = {} /\ NoWriter.rows = {} /\ NoWriter.blocks = FALSE /\ NoWriter.status = "none"
      /\ NoWriter \in [who : SUBSET Customers, status : Blockable \cup {"none"}, rows : SUBSET Pairs,
                       to : [Pairs -> Statuses], blocks : BOOLEAN, overwrites : BOOLEAN]
  BY DEF NoWriter, Statuses
<1> QED
  BY <1>1 DEF WriterFits, Of

\* What is committed neither wakes a membership that was refused nor one of a blocked customer.
LEMMA CommitKeeps ==
    ASSUME AudienceInv, Commit \/ Rollback
    PROVE  AudienceInv'
<1>0. /\ writer' = NoWriter
      /\ UNCHANGED <<list, double, statement, request, form, recipient>>
  BY DEF Commit, Rollback, tables
<1>1. RequestFits' /\ FormFits' /\ StatementFits'
  BY <1>0 DEF AudienceInv, RequestFits, FormFits, StatementFits, Of, NoWriter
<1>2. ASSUME customer' \in Marks, membership' \in Rows, refused' \subseteq Pairs, blocked' \subseteq Customers,
             MembershipsSafe'
      PROVE  AudienceInv'
  <2>1. SubscriptionsTypeOK'
    BY <1>0, <1>2, NoWriterFits, ZenonT(40) DEF AudienceInv, SubscriptionsTypeOK, Marks, Rows
  <2> QED
    BY <1>0, <1>1, <1>2, <2>1, NoWriterFits DEF AudienceInv
<1>3. CASE Rollback
  <2>1. UNCHANGED <<customer, membership, refused, blocked>>
    BY <1>3 DEF Rollback, tables, history
  <2>2. MembershipsSafe'
    BY <2>1 DEF AudienceInv, MembershipsSafe, RefusedStay, BlockedOnNone, MembersExist, BlockedListed
  <2> QED
    BY <1>2, <2>1, <2>2, TypeFacts
<1>4. CASE Commit
  <2>1. /\ \A c \in Customers : customer'[c] = IF c \in writer.who THEN writer.status ELSE customer[c]
        /\ \A p \in Pairs : membership'[p] = IF p \in writer.rows THEN writer.to[p] ELSE membership[p]
        /\ refused' = IF writer.blocks THEN refused \cup writer.rows
                      ELSE IF writer.overwrites THEN refused \ writer.rows ELSE refused
        /\ blocked' = IF writer.blocks THEN blocked \cup writer.who ELSE blocked
    BY <1>4 DEF Commit
  <2>2. customer' \in Marks /\ membership' \in Rows
    BY <1>4, TypeFacts DEF Commit, Marks, Rows
  <2>3. refused' \subseteq Pairs /\ blocked' \subseteq Customers
    BY <2>1, TypeFacts
  <2>4. ASSUME NEW p \in refused' PROVE membership'[p] = "unsubscribed"
    <3>1. p \in Pairs /\ (p \in refused => membership[p] = "unsubscribed")
      BY <2>3 DEF AudienceInv, MembershipsSafe, RefusedStay
    <3>2. CASE p \notin writer.rows
      BY <2>1, <3>1, <3>2
    <3>3. CASE p \in writer.rows /\ writer.blocks
      BY <2>1, <3>1, <3>3 DEF AudienceInv, WriterFits
    <3>4. CASE p \in writer.rows /\ ~writer.blocks
      <4>1. p \in refused /\ ~writer.overwrites
        BY <2>1, <3>4
      <4>2. membership[p] = "none" \/ writer.to[p] = membership[p]
        BY <3>4, <4>1 DEF AudienceInv, WriterFits
      <4> QED
        BY <2>1, <3>1, <3>4, <4>1, <4>2
    <3> QED
      BY <3>2, <3>3, <3>4
  <2>5. ASSUME NEW c \in blocked' PROVE customer'[c] = "blocklisted"
    <3>1. c \in Customers /\ (c \in blocked => customer[c] = "blocklisted")
      BY <2>3 DEF AudienceInv, MembershipsSafe, BlockedListed
    <3>2. CASE c \notin writer.who
      BY <2>1, <3>1, <3>2
    <3>3. CASE c \in writer.who /\ writer.blocks
      BY <2>1, <3>1, <3>3 DEF AudienceInv, WriterFits
    <3>4. CASE c \in writer.who /\ ~writer.blocks
      BY <2>1, <3>1, <3>4 DEF AudienceInv, WriterFits
    <3> QED
      BY <3>2, <3>3, <3>4
  <2>6. ASSUME NEW c \in blocked', NEW l \in Lists PROVE membership'[<<c, l>>] \in {"none", "unsubscribed"}
    <3> DEFINE p == <<c, l>>
    <3>1. p \in Pairs /\ p[1] = c /\ c \in Customers
      BY <2>3 DEF Pairs
    <3>2. CASE writer.blocks /\ c \in writer.who
      <4>1. p \in Of(writer.who)
        BY <3>1, <3>2 DEF Of
      <4>2. p \in writer.rows => writer.to[p] = "unsubscribed"
        BY <3>2 DEF AudienceInv, WriterFits
      <4>3. p \notin writer.rows => membership[p] = "none"
        BY <3>2, <4>1 DEF AudienceInv, WriterFits
      <4> QED
        BY <2>1, <3>1, <4>2, <4>3
    <3>3. CASE ~(writer.blocks /\ c \in writer.who)
      <4>1. c \in blocked /\ membership[p] \in {"none", "unsubscribed"} /\ customer[c] = "blocklisted"
        BY <2>1, <2>6, <3>3 DEF AudienceInv, MembershipsSafe, BlockedOnNone, BlockedListed
      <4>2. CASE p \notin writer.rows
        BY <2>1, <3>1, <4>1, <4>2
      <4>3. CASE p \in writer.rows
        <5>1. c \in writer.who /\ ~writer.blocks
          BY <3>1, <3>3, <4>3 DEF AudienceInv, WriterFits, Of
        <5>2. writer.status = "blocklisted"
          BY <4>1, <5>1 DEF AudienceInv, WriterFits
        <5>3. membership[p] = "none" \/ writer.overwrites => writer.to[p] = "unsubscribed"
          BY <4>3, <5>1, <5>2 DEF AudienceInv, WriterFits
        <5>4. ~writer.overwrites => membership[p] = "none" \/ writer.to[p] = membership[p]
          BY <4>3, <5>1 DEF AudienceInv, WriterFits
        <5> QED
          BY <2>1, <3>1, <4>1, <4>3, <5>3, <5>4
      <4> QED
        BY <4>2, <4>3
    <3> QED
      BY <3>2, <3>3
  <2>7. MembersExist'
    <3>1. ASSUME NEW p \in Pairs, membership'[p] # "none" PROVE customer'[p[1]] # "none"
      <4>1. p[1] \in Customers
        BY PairFacts
      <4>2. CASE p[1] \in writer.who
        BY <2>1, <4>1, <4>2 DEF AudienceInv, WriterFits, Blockable
      <4>3. CASE p[1] \notin writer.who
        <5>1. p \notin writer.rows
          BY <4>3 DEF AudienceInv, WriterFits, Of
        <5> QED
          BY <2>1, <3>1, <4>1, <4>3, <5>1 DEF AudienceInv, MembershipsSafe, MembersExist
      <4> QED
        BY <4>2, <4>3
    <3> QED
      BY <3>1 DEF MembersExist
  <2>8. MembershipsSafe'
    BY <2>4, <2>5, <2>6, <2>7 DEF MembershipsSafe, RefusedStay, BlockedOnNone, BlockedListed
  <2> QED
    BY <1>2, <2>2, <2>3, <2>8
<1> QED
  BY <1>3, <1>4

-----------------------------------------------------------------------------
(* Every step. *)

LEMMA StutterKeeps == AudienceInv /\ UNCHANGED vars => AudienceInv'
<1> SUFFICES ASSUME AudienceInv, UNCHANGED vars PROVE AudienceInv'
  OBVIOUS
<1>1. UNCHANGED <<customer, membership, list, double, refused, blocked, writer, statement, request, form, recipient>>
  BY DEF vars, tables, history
<1>2. MembershipsSafe' /\ WriterFits'
  BY <1>1, UntouchedSafe DEF Untouched
<1>3. SubscriptionsTypeOK'
  BY <1>1, ZenonT(40) DEF AudienceInv, SubscriptionsTypeOK
<1>4. RequestFits' /\ FormFits' /\ StatementFits'
  BY <1>1 DEF AudienceInv, RequestFits, FormFits, StatementFits, Of
<1> QED
  BY <1>2, <1>3, <1>4 DEF AudienceInv

LEMMA StepKeeps == AudienceInv /\ [Next]_vars => AudienceInv'
<1> SUFFICES ASSUME AudienceInv, [Next]_vars PROVE AudienceInv'
  OBVIOUS
<1>1. CASE OperatorHandler
  BY <1>1, HandlersKeep
<1>2. CASE OperatorStep
  BY <1>2, EditKeeps, AddKeeps, RemoveKeeps, UnsubscribeKeeps, BlockKeeps, UnblockKeeps, DeletionsKeep,
     DeleteListsKeeps, LockKeeps, PruneKeeps, InsertKeeps, ListsKeep DEF OperatorStep
<1>3. CASE SystemStep
  <2>1. ASSUME NEW c \in Customers, NEW L \in SUBSET Lists, NEW s \in Given, NEW overwrite \in BOOLEAN,
               UpsertWorkspaceCustomer(c, L, s, overwrite)
        PROVE  AudienceInv'
    BY <2>1, ImportsKeep
  <2>2. ASSUME NEW old \in SUBSET {p \in Pairs : membership[p] = "unconfirmed"},
               DeleteUnconfirmedSubscriptions(old)
        PROVE  AudienceInv'
    <3>1. old \in SUBSET Pairs
      OBVIOUS
    <3> QED
      BY <2>2, <3>1, ExpireUnconfirmedKeeps
  <2> QED
    BY <1>3, <2>1, <2>2, BlocklistImportKeeps, CommitKeeps, FinishKeeps, BouncesKeep, BeginningsKeep,
       DeletionsKeep DEF SystemStep
<1>4. CASE RecipientStep
  <2>1. ASSUME NEW c \in Customers, NEW L \in SUBSET Lists, UpsertPublicWorkspaceCustomer(c, L)
        PROVE  AudienceInv'
    BY <2>1, ImportsKeep DEF Given
  <2> QED
    BY <1>4, <2>1, PagesKeep, ConfirmKeeps, BeginningsKeep, DeletionsKeep, ProfileKeeps, PreferencesKeep
       DEF RecipientStep
<1>5. CASE CampaignStep
  BY <1>5, CampaignKeeps
<1>6. CASE UNCHANGED vars
  BY <1>6, StutterKeeps
<1> QED
  BY <1>1, <1>2, <1>3, <1>4, <1>5, <1>6 DEF Next

\* In every state the system reaches, nothing that is under way can give back on its own what
\* was taken away from a campaign.
THEOREM AudienceHolds == Spec => []AudienceInv
BY InitHolds, StepKeeps, PTL DEF Spec

LEMMA InvRefusal == AudienceInv => RefusalHolds
BY DEF AudienceInv, MembershipsSafe, RefusedStay, BlockedOnNone, RefusalHolds

\* A membership that was unsubscribed stays so, and who was blocklisted is on no list, whatever
\* imports, pages, statements and operators do at the same time, until somebody gives it back on
\* purpose (RefusalHolds, the locks and conditions of the statements in src/queries).
THEOREM RefusalIsKept == Spec => []RefusalHolds
BY AudienceHolds, InvRefusal, PTL

-----------------------------------------------------------------------------
(* What a claim asks for. *)

\* No other step makes a claim.
NoClaim == \A c \in Customers : recipient'[c] \in {recipient[c], "none", "pending"}

LEMMA DeleteClaimsNothing ==
    ASSUME NEW C, Delete(C)
    PROVE  NoClaim
BY DEF Delete, NoClaim

LEMMA SystemClaimsNothing ==
    ASSUME OperatorHandler \/ OperatorStep \/ SystemStep \/ RecipientStep
    PROVE  NoClaim
<1>1. CASE OperatorHandler
  BY <1>1 DEF OperatorHandler, UpdateCustomer, ManageCustomerListMemberships,
     ManageCustomerListMembershipsByFilter, BlocklistCustomers, DeleteCustomers, BlocklistCustomersByFilter,
     DeleteCustomersByFilter, BlocklistProviderFailure, DeleteLists, Ask, NoClaim
<1>2. CASE OperatorStep
  <2>1. CASE DeleteListsWithCustomersInWorkspace
    BY <2>1, DeleteClaimsNothing DEF DeleteListsWithCustomersInWorkspace, NoClaim
  <2> QED
    BY <1>2, <2>1, DeleteClaimsNothing
       DEF OperatorStep, UpdateCustomerWithListsInWorkspace, AddSubscriptionsInWorkspace,
           DeleteSubscriptionsInWorkspace, UnsubscribeListsInWorkspace, BlocklistCustomersInWorkspace,
           SetCustomersBlocklistInWorkspace, DeleteCustomersInWorkspace, DeleteListsInWorkspace,
           LockListCustomers, InsertWorkspaceCustomer, CreateListInWorkspace, UpdateListInWorkspace, NoClaim
<1>3. CASE SystemStep
  BY <1>3, DeleteClaimsNothing
     DEF SystemStep, UpsertWorkspaceCustomer, UpsertWorkspaceBlocklistCustomer, Write, Commit, Rollback, Finish,
         BounceBlocklists, AutomationBlocklists, BlocklistWorkspaceBouncedCustomers, BlocklistUnlocked, Begin,
         DeleteOrphanCustomers, DeleteBlocklistedCustomers, DeleteUnconfirmedSubscriptions, NoClaim
<1>4. CASE RecipientStep
  BY <1>4, DeleteClaimsNothing
     DEF RecipientStep, UpsertPublicWorkspaceCustomer, Write, OptinPage, SubscriptionPrefs,
         ConfirmOptionSubscription, UnsubscribeByCampaign, UnsubscribeWithoutCampaign, BlocklistUnlocked, Begin,
         WipeCustomerData, UpdateProfile, ReadSubscriptions, UnsubscribePreferences, NoClaim
<1> QED
  BY <1>1, <1>2, <1>3, <1>4

LEMMA ClaimsAsk == AudienceInv /\ [Next]_vars => [ConsentAsked]_vars
<1> SUFFICES ASSUME AudienceInv, Next PROVE ConsentAsked
  OBVIOUS
<1>1. CASE NoClaim
  BY <1>1 DEF NoClaim, ConsentAsked
<1>2. CASE CampaignStep
  <2>1. CASE EnsureCampaignRecipients
    BY <2>1 DEF EnsureCampaignRecipients, ConsentAsked
  <2>2. ASSUME NEW k \in Customers, ReturnToPending(k) PROVE ConsentAsked
    BY <2>2, TypeFacts DEF ReturnToPending, ConsentAsked
  <2>3. ASSUME NEW k \in Customers, QueueCampaignCustomers(k) PROVE ConsentAsked
    <3>1. PICK l \in CampaignLists : Reaches(k, l)
      BY <2>3 DEF QueueCampaignCustomers, Claimable
    <3>2. l \in Lists
      BY SelfServiceAssumption
    <3>3. membership[<<k, l>>] \in {"unconfirmed", "confirmed"}
          /\ (membership[<<k, l>>] = "confirmed" \/ OptinCampaign \/ l \notin double)
      BY <3>1 DEF Reaches
    <3>4. <<k, l>> \notin refused /\ k \notin blocked
      BY <3>2, <3>3 DEF AudienceInv, MembershipsSafe, RefusedStay, BlockedOnNone
    <3>5. \A c \in Customers : c # k => recipient'[c] = recipient[c]
      BY <2>3, TypeFacts DEF QueueCampaignCustomers
    <3> QED
      BY <3>3, <3>4, <3>5 DEF ConsentAsked
  <2> QED
    BY <1>2, <2>1, <2>2, <2>3 DEF CampaignStep
<1> QED
  BY <1>1, <1>2, SystemClaimsNothing DEF Next

\* A message is claimed only for who is on a list of the campaign without having refused it
\* (ClaimedOnConsent, the condition of the statement that queues recipients).
THEOREM ClaimsHaveConsent == Spec => ClaimedOnConsent
BY AudienceHolds, ClaimsAsk, PTL DEF Spec, ClaimedOnConsent

-----------------------------------------------------------------------------
(* Lists that are deleted with their customers. *)

\* The request to delete lists is over by its own transaction only.
LEMMA OnlyPruneEnds ==
    ASSUME AudienceInv, Next, request.op = "prune locked", request' = NoRequest
    PROVE  DeleteListsWithCustomersInWorkspace
<1>1. request # NoRequest
  <2>1. NoRequest.op = "none"
    BY DEF NoRequest
  <2> QED
    BY <2>1
<1>2. ASSUME NEW C PROVE request' # RequestWithout(C)
  BY <1>1 DEF RequestWithout, AudienceInv, RequestFits
<1>3. ~OperatorHandler
  BY <1>1 DEF OperatorHandler, UpdateCustomer, ManageCustomerListMemberships,
     ManageCustomerListMembershipsByFilter, BlocklistCustomers, DeleteCustomers, BlocklistCustomersByFilter,
     DeleteCustomersByFilter, BlocklistProviderFailure, DeleteLists, Ask
<1>4. CASE OperatorStep
  BY <1>1, <1>4
     DEF OperatorStep, UpdateCustomerWithListsInWorkspace, AddSubscriptionsInWorkspace,
         DeleteSubscriptionsInWorkspace, UnsubscribeListsInWorkspace, BlocklistCustomersInWorkspace,
         SetCustomersBlocklistInWorkspace, DeleteCustomersInWorkspace, DeleteListsInWorkspace, Run,
         LockListCustomers, InsertWorkspaceCustomer, CreateListInWorkspace, UpdateListInWorkspace
<1>5. ~SystemStep
  BY <1>1, <1>2
     DEF SystemStep, UpsertWorkspaceCustomer, UpsertWorkspaceBlocklistCustomer, Write, Commit, Rollback, Finish,
         BounceBlocklists, AutomationBlocklists, BlocklistWorkspaceBouncedCustomers, BlocklistUnlocked, Begin,
         DeleteOrphanCustomers, DeleteBlocklistedCustomers, DeleteUnconfirmedSubscriptions
<1>6. ~RecipientStep
  BY <1>1, <1>2
     DEF RecipientStep, UpsertPublicWorkspaceCustomer, Write, OptinPage, SubscriptionPrefs,
         ConfirmOptionSubscription, UnsubscribeByCampaign, UnsubscribeWithoutCampaign, BlocklistUnlocked, Begin,
         WipeCustomerData, UpdateProfile, ReadSubscriptions, UnsubscribePreferences
<1>7. ~CampaignStep
  BY <1>1 DEF CampaignStep, EnsureCampaignRecipients, QueueCampaignCustomers, ReturnToPending
<1> QED
  BY <1>3, <1>4, <1>5, <1>6, <1>7 DEF Next

LEMMA PruneSpares == AudienceInv /\ [Next]_vars => [OthersSpared]_vars
<1> SUFFICES ASSUME AudienceInv, Next,
                    NEW c \in Customers, request.op = "prune locked", request' = NoRequest,
                    NEW l \in Lists \ request.lists, membership[<<c, l>>] # "none"
             PROVE  customer'[c] = customer[c]
  BY DEF OthersSpared
<1>1. DeleteListsWithCustomersInWorkspace
  BY OnlyPruneEnds
<1>2. c \notin Unshared(On(request.lists), request.lists)
  BY DEF Unshared
<1> QED
  BY <1>1, <1>2 DEF DeleteListsWithCustomersInWorkspace, Delete

\* Lists deleted with their customers leave every customer that is on another list, whenever it
\* joined (SharedCustomersStay, DeleteListsWithCustomersInWorkspace of the core).
THEOREM SharedCustomersAreSpared == Spec => SharedCustomersStay
BY AudienceHolds, PruneSpares, PTL DEF Spec, SharedCustomersStay

-----------------------------------------------------------------------------
(* Pools: the inductive invariant. *)

RowType == [status : {"none", "pending", "queued", "sent", "failed", "cancelled"},
            pool : Pools \cup {0}, org : Orgs \cup {0}, sender : Servers \cup {NoServer}]

MemberType == [Pools -> [Orgs -> [Contacts -> {"none", "active", "removed"}]]]
LeftType == [changes : Nat, controls : Nat, edits : Nat, refusals : Nat, days : Nat]
PipeType == [at : {"none", "open", "claim", "waiting", "ending"},
             stop : {"none", "pause", "smtp", "deferred"}, deferred : BOOLEAN,
             progress : BOOLEAN, queued : Nat, limit : Nat]
FlightType == Contacts \X (Servers \cup {NoServer}) \X {"queued", "accepted"} \X Nat

MastersTyped ==
    /\ contact \in [Contacts -> {"absent", "active", "archived", "blocklisted", "deleted"}]
    /\ department \in [Contacts -> Orgs]
    /\ inPool \subseteq Pools \X Contacts
    /\ org \in [Orgs -> {"active", "archived"}]
    /\ allocation \in [Pools -> [Orgs -> {"none", "active", "disabled", "detached"}]]
    /\ member \in MemberType
    /\ excluded \subseteq Pools \X Orgs \X Contacts
    /\ grant \subseteq Pools \X Orgs

CampTyped ==
    /\ camp \in {"draft", "running", "paused", "deferred", "finished"}
    /\ audience \subseteq Pools
    /\ order \in Seq(Orgs) /\ IsInjective(order)
    /\ editor \in [at : {"none", "read"}, rebuild : BOOLEAN, pools : SUBSET Pools]
    /\ bound \in PoolBounds
    /\ fresh \subseteq Pools

RowsTyped == row \in [Contacts -> RowType]

SendTyped ==
    /\ enabled \subseteq Servers
    /\ usage \in [Servers -> Nat]
    /\ cursor \in [Orgs -> Servers \cup {NoServer}]
    /\ turn \in 0..Cardinality(Orgs)
    /\ failures \in [Contacts -> Nat]
    /\ scan \in [on : BOOLEAN, pools : SUBSET Pools]
    /\ pipe \in PipeType
    /\ flight \subseteq FlightType
    /\ due \in BOOLEAN
    /\ delivered \in [Contacts -> Nat]
    /\ passed \in [Orgs -> [Orgs -> Nat]]

PoolTypes == MastersTyped /\ CampTyped /\ RowsTyped /\ SendTyped /\ budget \in LeftType

HistoryTyped == lost \in [Contacts -> Nat] /\ overtaken \in BOOLEAN

LEMMA TypeParts == HistoryTyped /\ PoolTypes => TypeOK
BY DEF TypeOK, AudienceTypeOK, HistoryTyped, PoolTypes, MastersTyped, CampTyped, RowsTyped, SendTyped,
       RowType, MemberType, LeftType, PipeType, FlightType

\* A row that exists belongs to an organization with an allocation, and nobody detaches
\* one of a selected pool while the campaign is unfinished.
RowPlaced(r) ==
    \/ r = NoRow
    \/ /\ r.status # "none" /\ r.pool \in Pools /\ r.org \in Orgs
       /\ AllScope \/ r.org = Home
       /\ allocation[r.pool][r.org] # "none"
       /\ Unfinished /\ r.pool \in audience => allocation[r.pool][r.org] # "detached"

RowsPlaced == \A k \in Contacts : RowPlaced(row[k])

\* An update that keeps the rows keeps the audience.
EditorReads ==
    editor.at = "read" /\ ~editor.rebuild => editor.pools = audience /\ editor.pools # {}

\* What the refreshes since the last change have settled for k.
Refreshes(k) ==
    /\ row[k].status = "pending" /\ row[k].pool \in fresh => Available(k)
    /\ (\E p \in fresh : Targets(p, k) # {}) =>
        row[k].status # "none" /\ (row[k].status = "pending" => row[k].pool \in fresh)

RowsRefreshed == \A k \in Contacts : Refreshes(k)

RemovedExcluded == \A p \in Pools, o \in Orgs, k \in Contacts :
    member[p][o][k] = "removed" => <<p, o, k>> \in excluded

\* A pipe that was not stopped works for a running campaign, and what it read before a
\* claim still holds.
PipeWorks ==
    /\ scan.on => pipe.at = "none"
    /\ pipe.at \in {"open", "claim", "waiting"} /\ pipe.stop = "none" =>
        camp = "running" /\ ~pipe.deferred
    /\ pipe.at = "claim" => pipe.limit >= 1
    /\ pipe.at = "claim" /\ pipe.queued = 0 => QueuedRows = {}

\* Who was passed is visited before those that passed it.
TurnsFair ==
    /\ order # << >> => turn < Len(order)
    /\ \A x, y \in Orgs : passed[x][y] > 0 /\ order # << >> =>
        \E i, j \in 0..(Len(order) - 1) : i < j /\ At(order, i) = x /\ At(order, j) = y
    /\ \A x, y \in Orgs : passed[x][y] <= 1

PoolsWell ==
    /\ PoolTypes /\ RowsPlaced /\ RowsRefreshed /\ RemovedExcluded
    /\ EditorReads /\ PipeWorks /\ TurnsFair

PoolsInv == HistoryTyped /\ PoolsWell

-----------------------------------------------------------------------------
(* Numbers. *)

\* A finite set of numbers that has a member has a smallest and a greatest one.
LEMMA ExtremesExist ==
    ASSUME NEW S \in SUBSET Nat, IsFiniteSet(S), S # {}
    PROVE  (\E x \in S : \A y \in S : x <= y) /\ (\E x \in S : \A y \in S : x >= y)
<1> DEFINE Low(T) == \E x \in T : \A y \in T : x <= y
           High(T) == \E x \in T : \A y \in T : x >= y
           Bad == {T \in SUBSET S : T # {} /\ ~(Low(T) /\ High(T))}
<1>1. Bad = {}
  <2> SUFFICES ASSUME Bad # {} PROVE FALSE
    OBVIOUS
  <2>1. IsWellFoundedOn(StrictSubsetOrdering(S), SUBSET S)
    BY FS_StrictSubsetOrderingWellFounded, FS_FiniteSubsetsOfFinite
  <2>2. Bad \subseteq SUBSET S
    OBVIOUS
  <2> HIDE DEF Bad
  <2>3. PICK T \in Bad : \A U \in Bad : ~(<<U, T>> \in StrictSubsetOrdering(S))
    BY <2>1, <2>2, WFMin
  <2>4. T \in SUBSET S /\ T # {} /\ ~(Low(T) /\ High(T))
    BY DEF Bad
  <2>5. PICK t \in T : TRUE
    BY <2>4
  <2>6. T \ {t} \notin Bad
    BY <2>3, <2>4, <2>5 DEF StrictSubsetOrdering
  <2>7. T \ {t} = {} \/ (Low(T \ {t}) /\ High(T \ {t}))
    BY <2>4, <2>6 DEF Bad
  <2>8. CASE T \ {t} = {}
    BY <2>4, <2>5, <2>8
  <2>9. CASE Low(T \ {t}) /\ High(T \ {t})
    <3>1. PICK l \in T \ {t} : \A y \in T \ {t} : l <= y
      BY <2>9
    <3>2. PICK h \in T \ {t} : \A y \in T \ {t} : h >= y
      BY <2>9
    <3>3. \A y \in T : y \in Nat
      BY <2>4
    <3>4. Low(T)
      <4>1. CASE l <= t
        BY <3>1, <3>3, <4>1
      <4>2. CASE ~(l <= t)
        <5>1. \A y \in T : t <= y
          BY <2>5, <3>1, <3>3, <4>2
        <5> QED
          BY <2>5, <5>1
      <4> QED
        BY <4>1, <4>2
    <3>5. High(T)
      <4>1. CASE h >= t
        BY <3>2, <3>3, <4>1
      <4>2. CASE ~(h >= t)
        <5>1. \A y \in T : t >= y
          BY <2>5, <3>2, <3>3, <4>2
        <5> QED
          BY <2>5, <5>1
      <4> QED
        BY <4>1, <4>2
    <3> QED
      BY <2>4, <3>4, <3>5
  <2> QED
    BY <2>7, <2>8, <2>9
<1> QED
  BY <1>1

LEMMA MinIs ==
    ASSUME NEW S \in SUBSET Nat, IsFiniteSet(S), S # {}
    PROVE  Min(S) \in S /\ \A y \in S : Min(S) <= y
BY ExtremesExist DEF Min

LEMMA MaxIs ==
    ASSUME NEW S \in SUBSET Nat, IsFiniteSet(S), S # {}
    PROVE  Max(S) \in S /\ \A y \in S : Max(S) >= y
BY ExtremesExist DEF Max

\* Remainders.
LEMMA Quotient ==
    ASSUME NEW L \in Nat, L > 0, NEW n \in Nat
    PROVE  (n % L) \in 0..(L - 1) /\ (n \div L) \in Int /\ n = L * (n \div L) + (n % L)
OBVIOUS

LEMMA Remainder ==
    ASSUME NEW L \in Nat, L > 0, NEW q \in Int, NEW r \in 0..(L - 1), L * q + r >= 0
    PROVE  (L * q + r) % L = r
<1> DEFINE n == L * q + r
<1>1. n \in Nat
  OBVIOUS
<1>2. n % L \in 0..(L - 1) /\ n \div L \in Int /\ n = L * (n \div L) + (n % L)
  BY <1>1, Quotient
<1> QED
  OBVIOUS
LEMMA RemainderAgain ==
    ASSUME NEW L \in Nat, L > 0, NEW m \in Nat, NEW i \in Nat
    PROVE  ((m % L) + i) % L = (m + i) % L
<1> DEFINE q == m \div L
           r == m % L
           s == (r + i) \div L
           t == (r + i) % L
<1>1. r \in 0..(L - 1) /\ q \in Int /\ m = L * q + r
  BY Quotient
<1>2. t \in 0..(L - 1) /\ s \in Int /\ r + i = L * s + t
  BY <1>1, Quotient
<1>3. L * (q + s) = L * q + L * s
  BY <1>1, <1>2
<1>4. m + i = L * (q + s) + t
  BY <1>1, <1>2, <1>3
<1>5. m + i >= 0 /\ q + s \in Int
  BY <1>1, <1>2
<1> HIDE DEF q, r, s, t
<1>6. (L * (q + s) + t) % L = t
  BY <1>2, <1>4, <1>5, Remainder
<1>7. (m + i) % L = t
  BY <1>4, <1>6
<1> QED
  BY <1>7 DEF t, r

LEMMA RemainderSmall ==
    ASSUME NEW L \in Nat, L > 0, NEW i \in 0..(L - 1)
    PROVE  i % L = i /\ (L + i) % L = i
<1>1. (L * 0 + i) % L = i
  BY Remainder
<1>2. (L * 1 + i) % L = i
  BY Remainder
<1>3. L * 0 = 0 /\ L * 1 = L
  OBVIOUS
<1> QED
  BY <1>1, <1>2, <1>3

-----------------------------------------------------------------------------
(* Rows. *)

Claimed == {"queued", "sent", "failed", "cancelled"}

LEMMA OrgNumbers == IsFiniteSet(Orgs) /\ Orgs \in SUBSET Nat
BY AudienceAssumption

LEMMA RankNatural ==
    ASSUME NEW turns \in Seq(Orgs), NEW o \in Orgs
    PROVE  Rank(turns, o) \in Nat
<1>1. CASE Contains(turns, o)
  <2>1. PICK i \in 1..Len(turns) : turns[i] = o
    BY <1>1 DEF Contains
  <2>2. \E j \in DOMAIN turns : turns[j] = o
    BY <2>1
  <2>3. Rank(turns, o) \in DOMAIN turns
    BY <1>1, <2>2 DEF Rank
  <2> QED
    BY <2>3
<1>2. CASE ~Contains(turns, o)
  BY <1>2, OrgNumbers DEF Rank
<1> QED
  BY <1>1, <1>2

LEMMA TargetsAreOrgs ==
    ASSUME NEW p, NEW k
    PROVE  Targets(p, k) \subseteq Orgs /\ IsFiniteSet(Targets(p, k))
<1>1. Targets(p, k) \subseteq Orgs
  BY AudienceAssumption DEF Targets
<1> QED
  BY <1>1, OrgNumbers, FS_Subset

LEMMA ChosenIsTarget ==
    ASSUME NEW turns \in Seq(Orgs), NEW p, NEW k, Targets(p, k) # {}
    PROVE  Chosen(turns, p, k) \in Targets(p, k)
<1> DEFINE S == Targets(p, k)
           R == {Rank(turns, o) : o \in S}
<1>1. S \subseteq Orgs /\ IsFiniteSet(S)
  BY TargetsAreOrgs
<1>2. R \in SUBSET Nat
  BY <1>1, RankNatural
<1>3. IsFiniteSet(R)
  <2>1. [o \in S |-> Rank(turns, o)] \in Surjection(S, R)
    BY DEF Surjection
  <2> QED
    BY <1>1, <2>1, FS_Surjection
<1>4. R # {}
  OBVIOUS
<1> HIDE DEF R
<1>5. PICK m \in R : \A y \in R : m <= y
  BY <1>2, <1>3, <1>4, ExtremesExist
<1>6. PICK o \in S : m = Rank(turns, o)
  BY <1>5 DEF R
<1>7. \A x \in S : Rank(turns, o) <= Rank(turns, x)
  BY <1>5, <1>6 DEF R
<1> QED
  BY <1>6, <1>7 DEF Chosen

\* What a refresh makes of a row: it moves one that waits to a pool of which the contact
\* can be sent to, prunes one of its pool, or leaves it.
LEMMA RefreshedCases ==
    ASSUME NEW k, NEW r, NEW turns, NEW p
    PROVE  \/ /\ Targets(p, k) # {} /\ r.status \in {"none", "pending"}
              /\ Refreshed(k, r, turns, p) =
                    [r EXCEPT !.status = "pending", !.pool = p, !.org = Chosen(turns, p, k)]
           \/ /\ Targets(p, k) = {} /\ r.status = "pending" /\ r.pool = p
              /\ AllScope \/ r.org = Home
              /\ Refreshed(k, r, turns, p) = NoRow
           \/ /\ Targets(p, k) # {} => r.status \notin {"none", "pending"}
              /\ ~(/\ Targets(p, k) = {} /\ r.status = "pending" /\ r.pool = p
                   /\ AllScope \/ r.org = Home)
              /\ Refreshed(k, r, turns, p) = r
BY DEF Refreshed

LEMMA RefreshedType ==
    ASSUME NEW k, NEW r \in RowType, NEW turns \in Seq(Orgs), NEW p \in Pools
    PROVE  Refreshed(k, r, turns, p) \in RowType
<1> DEFINE moved == [r EXCEPT !.status = "pending", !.pool = p, !.org = Chosen(turns, p, k)]
<1>1. NoRow \in RowType
  BY DEF NoRow, RowType
<1>2. Targets(p, k) # {} => moved \in RowType
  <2> SUFFICES ASSUME Targets(p, k) # {} PROVE moved \in RowType
    OBVIOUS
  <2>1. Chosen(turns, p, k) \in Orgs
    BY ChosenIsTarget, TargetsAreOrgs
  <2> QED
    BY <2>1 DEF RowType
<1>3. \/ Targets(p, k) # {} /\ Refreshed(k, r, turns, p) = moved
      \/ Refreshed(k, r, turns, p) \in {NoRow, r}
  BY DEF Refreshed
<1> QED
  BY <1>1, <1>2, <1>3

\* A sequence of the members of a finite set has every one of them, once.
LEMMA SequenceOfAll ==
    ASSUME NEW S, IsFiniteSet(S), NEW s \in SetToSeqs(S)
    PROVE  /\ Cardinality(S) \in Nat
           /\ s \in [1..Cardinality(S) -> S] /\ s \in Seq(S) /\ Len(s) = Cardinality(S)
           /\ \A x \in S : \E i \in 1..Cardinality(S) : s[i] = x
           /\ IsInjective(s)
<1> DEFINE n == Cardinality(S)
<1>1. n \in Nat
  BY FS_CardinalityType
<1>2. s \in [1..n -> S] /\ \A i, j \in 1..n : i # j => s[i] # s[j]
  BY DEF SetToSeqs
<1>3. s \in Injection(1..n, S)
  BY <1>2 DEF Injection, IsInjective
<1>4. Cardinality(1..n) = n
  BY <1>1, FS_Interval
<1> HIDE DEF n
<1>5. s \in Surjection(1..n, S)
  BY <1>3, <1>4, FS_Injection DEF n
<1>6. \A x \in S : \E i \in 1..n : s[i] = x
  BY <1>5 DEF Surjection
<1> QED
  BY <1>1, <1>2, <1>3, <1>6 DEF n, Injection

LEMMA PoolNumbers ==
    ASSUME NEW S \in SUBSET Pools
    PROVE  IsFiniteSet(S) /\ S \in SUBSET Nat
BY AudienceAssumption, FS_Subset

\* What an update makes of the row of k.
AttachedWell(r, x, pools, k) ==
    \/ r.status \in Claimed /\ x = r
    \/ /\ r.status \in {"none", "pending"} /\ x.status = "pending"
       /\ x.pool \in pools /\ x.org \in Targets(x.pool, k)
       /\ \/ x.sender = r.sender
          \/ x.sender = NoServer /\ x.pool # r.pool /\ r.pool \in pools
    \/ /\ r.status \in {"none", "pending"} /\ \A p \in pools : Targets(p, k) = {}
       /\ \/ x = NoRow
          \/ x = r /\ (r.status = "pending" /\ r.pool \in pools => ~(AllScope \/ r.org = Home))

LEMMA AttachedRow ==
    ASSUME NEW pools \in SUBSET Pools, NEW turns \in Seq(Orgs), NEW sequence \in SetToSeqs(pools),
           NEW k \in Contacts, Kept(pools, k) \in RowType
    PROVE  /\ Attached(pools, turns, sequence)[k] \in RowType
           /\ AttachedWell(Kept(pools, k), Attached(pools, turns, sequence)[k], pools, k)
<1> DEFINE r == Kept(pools, k)
           n == Cardinality(pools)
           hits == {i \in DOMAIN sequence : Targets(sequence[i], k) # {}}
           ownFirst == \E i \in DOMAIN sequence : sequence[i] = r.pool /\ \A h \in hits : i < h
           start == IF ownFirst THEN Refreshed(k, r, turns, r.pool) ELSE r
           last == sequence[Max(hits)]
           x == Attached(pools, turns, sequence)[k]
<1>1. /\ n \in Nat /\ sequence \in [1..n -> pools]
      /\ \A p \in pools : \E i \in 1..n : sequence[i] = p
  BY PoolNumbers, SequenceOfAll
<1>2. x = IF hits = {} THEN start ELSE Refreshed(k, start, turns, last)
  BY DEF Attached
<1>3. hits # {} => /\ Max(hits) \in hits /\ last \in pools /\ last \in Pools
                   /\ Targets(last, k) # {}
  <2> SUFFICES ASSUME hits # {} PROVE Max(hits) \in hits
    BY <1>1
  <2>1. hits \in SUBSET (1..n) /\ IsFiniteSet(1..n)
    BY <1>1, FS_Interval
  <2>2. hits \in SUBSET Nat /\ IsFiniteSet(hits)
    BY <2>1, <1>1, FS_Subset
  <2> QED
    BY <2>2, MaxIs
<1>4. ownFirst => r.pool \in pools /\ r.pool \in Pools
  BY <1>1
<1>5. ownFirst => Targets(r.pool, k) = {}
  <2> SUFFICES ASSUME ownFirst, Targets(r.pool, k) # {} PROVE FALSE
    OBVIOUS
  <2>1. PICK i \in DOMAIN sequence : sequence[i] = r.pool /\ \A h \in hits : i < h
    OBVIOUS
  <2>2. i \in hits
    BY <2>1
  <2> QED
    BY <1>1, <2>1, <2>2
<1>n. NoRow \in RowType
  BY DEF NoRow, RowType
<1>6. /\ start \in {r, NoRow} /\ start \in RowType
      /\ start # r => ownFirst /\ r.status = "pending" /\ start = NoRow
  <2>1. CASE ownFirst
    <3>1. Targets(r.pool, k) = {}
      BY <1>5, <2>1
    <3>2. start = Refreshed(k, r, turns, r.pool)
      BY <2>1
    <3> HIDE DEF ownFirst, start
    <3>3. start = r \/ (start = NoRow /\ r.status = "pending")
      BY <3>1, <3>2 DEF Refreshed
    <3> QED
      BY <2>1, <3>3, <1>n
  <2>2. CASE ~ownFirst
    BY <2>2
  <2> QED
    BY <2>1, <2>2
<1>7. start # r => ownFirst /\ r.status = "pending" /\ start = NoRow
  BY <1>6
<1>8. CASE hits = {}
  <2>1. x = start
    BY <1>2, <1>8
  <2>2. \A p \in pools : Targets(p, k) = {}
    BY <1>1, <1>8
  <2>3. r.pool \in pools => ownFirst
    BY <1>1, <1>8
  <2>4. CASE ownFirst /\ r.status = "pending" /\ (AllScope \/ r.org = Home)
    <3>1. start = NoRow
      BY <2>4, <1>5 DEF Refreshed
    <3> QED
      BY <2>1, <2>2, <2>4, <3>1, <1>6 DEF AttachedWell
  <2>5. CASE ~(ownFirst /\ r.status = "pending" /\ (AllScope \/ r.org = Home))
    <3>1. start = r
      BY <2>5, <1>5 DEF Refreshed
    <3>2. r.status \in Claimed \/ r.status \in {"none", "pending"}
      BY DEF RowType, Claimed
    <3> QED
      BY <2>1, <2>2, <2>3, <2>5, <3>1, <3>2, <1>6 DEF AttachedWell
  <2> QED
    BY <2>4, <2>5
<1>9. CASE hits # {}
  <2>1. x = Refreshed(k, start, turns, last) /\ x \in RowType
    <3>1. x = Refreshed(k, start, turns, last)
      BY <1>2, <1>9
    <3>2. start \in RowType /\ last \in Pools
      BY <1>3, <1>6, <1>9
    <3> HIDE DEF start, last, x
    <3> QED
      BY <3>1, <3>2, RefreshedType
  <2>2. CASE r.status \in Claimed
    <3>1. start = r
      BY <1>7, <2>2 DEF Claimed
    <3>2. x = r
      BY <2>1, <2>2, <3>1, <1>3, <1>9 DEF Refreshed, Claimed
    <3> QED
      BY <2>1, <2>2, <3>2 DEF AttachedWell
  <2>3. CASE r.status \notin Claimed
    <3>1. r.status \in {"none", "pending"}
      BY <2>3 DEF RowType, Claimed
    <3>2. start.status \in {"none", "pending"}
      BY <1>6, <3>1 DEF NoRow
    <3>3. x = [start EXCEPT !.status = "pending", !.pool = last, !.org = Chosen(turns, last, k)]
      BY <2>1, <3>2, <1>3, <1>9 DEF Refreshed
    <3>4. Chosen(turns, last, k) \in Targets(last, k)
      BY <1>3, <1>9, ChosenIsTarget
    <3>5. x.status = "pending" /\ x.pool = last /\ x.org \in Targets(last, k) /\ x.sender = start.sender
      BY <3>3, <3>4, <1>6 DEF RowType
    <3>6. \/ x.sender = r.sender
          \/ x.sender = NoServer /\ x.pool # r.pool /\ r.pool \in pools
      <4>1. CASE start = r
        BY <4>1, <3>5
      <4>2. CASE start # r
        <5>1. start.sender = NoServer /\ r.pool \in pools
          BY <4>2, <1>4, <1>7 DEF NoRow
        <5>2. last # r.pool
          BY <4>2, <1>3, <1>5, <1>7, <1>9
        <5> QED
          BY <3>5, <5>1, <5>2
      <4> QED
        BY <4>1, <4>2
    <3> QED
      BY <2>1, <3>1, <3>5, <3>6, <1>3, <1>9 DEF AttachedWell
  <2> QED
    BY <2>2, <2>3
<1> QED
  BY <1>8, <1>9

-----------------------------------------------------------------------------
(* Steps that only mark rows. *)

RowsMarked == \A k \in Contacts :
    /\ row'[k].pool = row[k].pool /\ row'[k].org = row[k].org
    /\ row[k] = NoRow => row'[k] = NoRow
    /\ row[k].status # "none" => row'[k].status # "none"
    /\ row'[k].status = "pending" => row[k].status = "pending" \/ fresh' = {}

AllocationsStay ==
    /\ Unfinished' => Unfinished
    /\ \A p \in Pools, o \in Orgs :
        /\ allocation[p][o] # "none" => allocation'[p][o] # "none"
        /\ /\ Unfinished' /\ p \in audience /\ (AllScope \/ o = Home)
           /\ allocation'[p][o] = "detached"
           => allocation[p][o] = "detached"

MastersStay == fresh' = {} \/ (fresh' = fresh /\ UNCHANGED masterVars)

LEMMA MarkedKeeps ==
    ASSUME RowsPlaced, RowsRefreshed, RowsMarked, AllocationsStay, MastersStay,
           UNCHANGED <<audience, bound>>
    PROVE  RowsPlaced' /\ RowsRefreshed'
<1>1. RowsPlaced'
  <2> SUFFICES ASSUME NEW k \in Contacts PROVE RowPlaced(row[k])'
    BY DEF RowsPlaced
  <2>1. RowPlaced(row[k])
    BY DEF RowsPlaced
  <2>2. CASE row[k] = NoRow
    BY <2>2 DEF RowsMarked, RowPlaced
  <2>3. CASE row[k] # NoRow
    BY <2>1, <2>3 DEF RowPlaced, RowsMarked, AllocationsStay, AllScope
  <2> QED
    BY <2>2, <2>3
<1>2. RowsRefreshed'
  <2>1. CASE fresh' = {}
    BY <2>1 DEF RowsRefreshed, Refreshes
  <2>2. CASE fresh' = fresh /\ UNCHANGED masterVars
    <3> SUFFICES ASSUME NEW k \in Contacts PROVE Refreshes(k)'
      BY DEF RowsRefreshed
    <3>1. CASE fresh' = {}
      BY <3>1 DEF Refreshes
    <3>2. CASE fresh' # {}
      <4>1. \A p, o : Deliverable(p, o, k)' <=> Deliverable(p, o, k)
        BY <2>2 DEF Deliverable, masterVars, AllScope
      <4>2. \A p : Targets(p, k)' = Targets(p, k)
        BY <4>1 DEF Targets, AllScope
      <4>3. row'[k].pool = row[k].pool /\ row'[k].org = row[k].org
        BY DEF RowsMarked
      <4>4. row[k].status # "none" => row'[k].status # "none"
        BY DEF RowsMarked
      <4>5. row'[k].status = "pending" => row[k].status = "pending"
        BY <3>2 DEF RowsMarked
      <4>6. Available(k)' <=> Available(k)
        BY <4>1, <4>3 DEF Available
      <4> QED
        BY <2>2, <4>2, <4>3, <4>4, <4>5, <4>6 DEF RowsRefreshed, Refreshes
    <3> QED
      BY <3>1, <3>2
  <2> QED
    BY <2>1, <2>2 DEF MastersStay
<1> QED
  BY <1>1, <1>2

LEMMA SameRowsMarked ==
    ASSUME UNCHANGED row
    PROVE  RowsMarked
BY DEF RowsMarked

LEMMA SameAllocations ==
    ASSUME UNCHANGED masterVars, camp' = "finished" \/ camp # "finished"
    PROVE  AllocationsStay
BY DEF AllocationsStay, masterVars, Unfinished

-----------------------------------------------------------------------------
(* The master data. *)

LEMMA AssignedIs ==
    ASSUME member \in MemberType, NEW p \in Pools, NEW o \in Orgs, NEW k \in Contacts
    PROVE  /\ Assigned(p, o, k) \in MemberType
           /\ \A x \in Pools, y \in Orgs, z \in Contacts :
                \/ Assigned(p, o, k)[x][y][z] = member[x][y][z]
                \/ Assigned(p, o, k)[x][y][z] = "active"
<1> DEFINE m == [member EXCEPT ![p][o][k] = "active"]
<1>1. /\ m \in MemberType
      /\ \A x \in Pools, y \in Orgs, z \in Contacts :
            m[x][y][z] = IF x = p /\ y = o /\ z = k THEN "active" ELSE member[x][y][z]
  BY DEF MemberType
<1>2. Assigned(p, o, k) \in {m, member}
  BY DEF Assigned
<1> HIDE DEF m
<1> QED
  BY <1>1, <1>2

\* What a change of the masters keeps.
MastersSafe == MastersTyped' /\ RemovedExcluded' /\ AllocationsStay

LEMMA AllocationsSame ==
    ASSUME UNCHANGED <<allocation, camp>>
    PROVE  AllocationsStay
BY DEF AllocationsStay, Unfinished

LEMMA GrantSafe ==
    ASSUME MastersTyped, RemovedExcluded, NEW p \in Pools, NEW o \in Orgs, ChangeGrant(p, o)
    PROVE  MastersSafe
<1>1. AllocationsStay
  BY AllocationsSame DEF ChangeGrant, Changes, campVars
<1> QED
  BY <1>1 DEF MastersSafe, MastersTyped, RemovedExcluded, ChangeGrant

LEMMA ContactsSafe ==
    ASSUME MastersTyped, RemovedExcluded, NEW p \in Pools, NEW o \in Orgs, NEW k \in Contacts,
           \/ CreatePoolContact(p, k, o) \/ UpdatePoolContact(p, k, o)
           \/ \E blocklist \in BOOLEAN : ImportPoolContact(p, k, o, blocklist)
    PROVE  MastersSafe
<1>1. /\ member' = Assigned(p, o, k) /\ UNCHANGED <<org, allocation, excluded, grant, camp>>
      /\ department' = [department EXCEPT ![k] = o]
  BY DEF CreatePoolContact, UpdatePoolContact, ImportPoolContact, Changes, campVars
<1>2. inPool' \in {inPool, inPool \cup {<<p, k>>}}
  BY DEF CreatePoolContact, UpdatePoolContact, ImportPoolContact
<1>3. contact' \in [Contacts -> {"absent", "active", "archived", "blocklisted", "deleted"}]
  <2>1. CASE CreatePoolContact(p, k, o)
    BY <2>1 DEF CreatePoolContact, MastersTyped
  <2>2. CASE UpdatePoolContact(p, k, o)
    BY <2>2 DEF UpdatePoolContact, MastersTyped
  <2>3. CASE \E blocklist \in BOOLEAN : ImportPoolContact(p, k, o, blocklist)
    <3>1. PICK blocklist \in BOOLEAN : ImportPoolContact(p, k, o, blocklist)
      BY <2>3
    <3>2. \A x \in Contacts : contact[x] \in {"absent", "active", "archived", "blocklisted", "deleted"}
      BY DEF MastersTyped
    <3> QED
      BY <3>1, <3>2 DEF ImportPoolContact
  <2> QED
    BY <2>1, <2>2, <2>3
<1>4. AllocationsStay
  BY <1>1, AllocationsSame
<1>5. member \in MemberType
  BY DEF MastersTyped
<1>6. member' \in MemberType
  BY <1>1, <1>5, AssignedIs
<1>7. RemovedExcluded'
  BY <1>1, <1>5, AssignedIs DEF RemovedExcluded
<1>8. MastersTyped'
  <2>1. department' \in [Contacts -> Orgs]
    BY <1>1 DEF MastersTyped
  <2>2. inPool' \subseteq Pools \X Contacts
    BY <1>2 DEF MastersTyped
  <2> QED
    BY <1>1, <1>3, <1>6, <2>1, <2>2 DEF MastersTyped
<1> QED
  BY <1>4, <1>7, <1>8 DEF MastersSafe

LEMMA AllocateSafe ==
    ASSUME MastersTyped, RemovedExcluded, NEW p \in Pools, NEW o \in Orgs, NEW across \in BOOLEAN,
           CreateOrgPoolAllocation(p, o, across)
    PROVE  MastersSafe
<1>1. /\ allocation[p][o] = "none" /\ allocation' = [allocation EXCEPT ![p][o] = "active"]
      /\ member' = [member EXCEPT ![p][o] = [k \in Contacts |->
                    IF <<p, k>> \in inPool /\ department[k] = o THEN "active" ELSE @[k]]]
      /\ UNCHANGED <<contact, department, inPool, org, excluded, grant, camp>>
  BY DEF CreateOrgPoolAllocation, Changes, campVars
<1>2. member \in MemberType /\ allocation \in [Pools -> [Orgs -> {"none", "active", "disabled", "detached"}]]
  BY DEF MastersTyped
<1>3. \A x \in Pools, y \in Orgs : allocation'[x][y] = IF x = p /\ y = o THEN "active" ELSE allocation[x][y]
  BY <1>1, <1>2
<1>4. allocation' \in [Pools -> [Orgs -> {"none", "active", "disabled", "detached"}]]
  BY <1>1, <1>2
<1>5. member' \in MemberType
  BY <1>1, <1>2 DEF MemberType
<1>6. \A x \in Pools, y \in Orgs, z \in Contacts :
        member'[x][y][z] \in {member[x][y][z], "active"}
  BY <1>1, <1>2 DEF MemberType
<1>7. AllocationsStay
  BY <1>1, <1>3 DEF AllocationsStay, Unfinished
<1>8. RemovedExcluded'
  BY <1>1, <1>6 DEF RemovedExcluded
<1>9. MastersTyped'
  BY <1>1, <1>4, <1>5 DEF MastersTyped
<1> QED
  BY <1>7, <1>8, <1>9 DEF MastersSafe

LEMMA StateSafe ==
    ASSUME MastersTyped, RemovedExcluded, NEW p \in Pools, NEW o \in Orgs,
           NEW from \in {"active", "disabled", "detached"}, NEW to \in {"active", "disabled", "detached"},
           ChangeAllocation(p, o, from, to)
    PROVE  MastersSafe
<1>1. /\ allocation' = [allocation EXCEPT ![p][o] = to]
      /\ to = "detached" => ~References(p, o)
      /\ UNCHANGED <<contact, department, inPool, org, member, excluded, grant, camp>>
  BY DEF ChangeAllocation, Changes, campVars
<1>2. allocation \in [Pools -> [Orgs -> {"none", "active", "disabled", "detached"}]]
  BY DEF MastersTyped
<1>3. \A x \in Pools, y \in Orgs : allocation'[x][y] = IF x = p /\ y = o THEN to ELSE allocation[x][y]
  BY <1>1, <1>2
<1>4. allocation' \in [Pools -> [Orgs -> {"none", "active", "disabled", "detached"}]]
  BY <1>1, <1>2
<1>5. AllocationsStay
  BY <1>1, <1>3 DEF AllocationsStay, Unfinished, References
<1>6. RemovedExcluded'
  BY <1>1 DEF RemovedExcluded
<1>7. MastersTyped'
  BY <1>1, <1>4 DEF MastersTyped
<1> QED
  BY <1>5, <1>6, <1>7 DEF MastersSafe

LEMMA MembersSafe ==
    ASSUME MastersTyped, RemovedExcluded, NEW p \in Pools, NEW o \in Orgs, NEW k \in Contacts,
           \/ ImportAllocationMember(p, o, k)
           \/ \E highest \in BOOLEAN : AssignMember(p, o, k, highest)
           \/ RemoveMember(p, o, k) \/ RestoreMember(p, o, k)
    PROVE  MastersSafe
<1> DEFINE Placed(s) == [member EXCEPT ![p][o][k] = s]
<1>1. UNCHANGED <<contact, department, inPool, org, allocation, grant, camp>>
  BY DEF ImportAllocationMember, AssignMember, RemoveMember, RestoreMember, MayChangeMember, Changes,
         campVars
<1>2. \/ /\ member' = Placed("active") /\ excluded' \in {excluded, excluded \ {<<p, o, k>>}}
      \/ member' = Placed("removed") /\ excluded' = excluded \cup {<<p, o, k>>}
  BY DEF ImportAllocationMember, AssignMember, RemoveMember, RestoreMember
<1>3. member \in MemberType
  BY DEF MastersTyped
<1>4. \A s \in {"active", "removed"} :
        /\ Placed(s) \in MemberType
        /\ \A x \in Pools, y \in Orgs, z \in Contacts :
                Placed(s)[x][y][z] = IF x = p /\ y = o /\ z = k THEN s ELSE member[x][y][z]
  <2> TAKE s \in {"active", "removed"}
  <2> QED
    BY <1>3 DEF MemberType
<1> HIDE DEF Placed
<1>5. RemovedExcluded'
  <2> SUFFICES ASSUME NEW x \in Pools, NEW y \in Orgs, NEW z \in Contacts,
                      member'[x][y][z] = "removed"
               PROVE  <<x, y, z>> \in excluded'
    BY DEF RemovedExcluded
  <2>1. CASE x = p /\ y = o /\ z = k
    BY <2>1, <1>2, <1>4
  <2>2. CASE ~(x = p /\ y = o /\ z = k)
    <3>1. member[x][y][z] = "removed"
      BY <2>2, <1>2, <1>4
    <3>2. <<x, y, z>> \in excluded /\ <<x, y, z>> # <<p, o, k>>
      BY <2>2, <3>1 DEF RemovedExcluded
    <3> QED
      BY <3>2, <1>2
  <2> QED
    BY <2>1, <2>2
<1>6. MastersTyped'
  BY <1>1, <1>2, <1>4 DEF MastersTyped
<1> QED
  BY <1>1, <1>5, <1>6, AllocationsSame DEF MastersSafe

LEMMA ContactEndsSafe ==
    ASSUME MastersTyped, RemovedExcluded, NEW p \in Pools, NEW k \in Contacts,
           ClearPoolContactEmail(p, k) \/ DeletePoolContact(p, k)
    PROVE  MastersSafe
<1>1. AllocationsStay
  BY AllocationsSame DEF ClearPoolContactEmail, DeletePoolContact, Changes, campVars
<1>2. CASE ClearPoolContactEmail(p, k)
  BY <1>1, <1>2 DEF ClearPoolContactEmail, MastersSafe, MastersTyped, RemovedExcluded
<1>3. CASE DeletePoolContact(p, k)
  <2>1. /\ contact' = [contact EXCEPT ![k] = "deleted"]
        /\ inPool' = {x \in inPool : x[2] # k}
        /\ member' = [x \in Pools |-> [o \in Orgs |-> [member[x][o] EXCEPT ![k] = "none"]]]
        /\ excluded' = {x \in excluded : x[3] # k}
        /\ UNCHANGED <<department, org, allocation, grant>>
    BY <1>3 DEF DeletePoolContact
  <2>2. member \in MemberType
    BY DEF MastersTyped
  <2>3. member' \in MemberType
    BY <2>1, <2>2 DEF MemberType
  <2>4. \A x \in Pools, y \in Orgs, z \in Contacts :
            member'[x][y][z] = IF z = k THEN "none" ELSE member[x][y][z]
    BY <2>1, <2>2 DEF MemberType
  <2>5. RemovedExcluded'
    BY <2>1, <2>4 DEF RemovedExcluded
  <2>6. MastersTyped'
    BY <2>1, <2>3 DEF MastersTyped
  <2> QED
    BY <1>1, <2>5, <2>6 DEF MastersSafe
<1> QED
  BY <1>2, <1>3

LEMMA ArchiveSafe ==
    ASSUME MastersTyped, RemovedExcluded, NEW o \in Orgs, ArchiveOrganization(o)
    PROVE  MastersSafe
<1>1. AllocationsStay
  BY AllocationsSame DEF ArchiveOrganization, Changes, campVars
<1> QED
  BY <1>1 DEF MastersSafe, MastersTyped, RemovedExcluded, ArchiveOrganization

LEMMA FeedbackSafe ==
    ASSUME MastersTyped, RowsTyped, RowsPlaced, RemovedExcluded, NEW k \in Contacts,
           RecordPoolBounce(k) \/ UnsubscribePoolByCampaign(k)
    PROVE  MastersSafe
<1>1. AllocationsStay
  BY AllocationsSame DEF RecordPoolBounce, UnsubscribePoolByCampaign, Changes, campVars
<1>2. /\ excluded' = excluded \cup {<<row[k].pool, row[k].org, k>>}
      /\ row[k].status # "none"
      /\ UNCHANGED <<contact, department, inPool, org, allocation, member, grant>>
  BY DEF RecordPoolBounce, UnsubscribePoolByCampaign
<1>3. row[k].pool \in Pools /\ row[k].org \in Orgs
  BY <1>2 DEF RowsPlaced, RowPlaced, NoRow
<1> QED
  BY <1>1, <1>2, <1>3 DEF MastersSafe, MastersTyped, RemovedExcluded

-----------------------------------------------------------------------------
(* The parts of the invariant that a step leaves alone. *)

LEMMA PipeKept ==
    ASSUME PipeWorks, UNCHANGED <<scan, pipe, camp>>, QueuedRows = {} => QueuedRows' = {}
    PROVE  PipeWorks'
BY DEF PipeWorks

LEMMA TurnsKept ==
    ASSUME TurnsFair, UNCHANGED <<order, turn, passed>>
    PROVE  TurnsFair'
BY DEF TurnsFair, At

LEMMA EditorKept ==
    ASSUME EditorReads, UNCHANGED <<editor, audience>>
    PROVE  EditorReads'
BY DEF EditorReads

LEMMA SameQueued ==
    ASSUME UNCHANGED row
    PROVE  QueuedRows' = QueuedRows
BY DEF QueuedRows

LEMMA SendersKept ==
    ASSUME SendTyped, UNCHANGED sendVars
    PROVE  SendTyped'
BY DEF SendTyped, sendVars

LEMMA MastersKept ==
    ASSUME MastersTyped, RemovedExcluded, UNCHANGED masterVars
    PROVE  MastersTyped' /\ RemovedExcluded'
BY DEF MastersTyped, RemovedExcluded, masterVars

\* What the user, the scanner, the pipe and the workers do: they mark rows.
LEMMA MarksKeep ==
    ASSUME PoolsInv, UNCHANGED <<masterVars, audience, editor, bound>>,
           RowsMarked, RowsTyped', fresh' = {} \/ fresh' = fresh, camp = "finished" => camp' = "finished"
    PROVE  /\ MastersTyped' /\ RemovedExcluded' /\ RowsPlaced' /\ RowsRefreshed' /\ EditorReads'
<1>1. RowsPlaced /\ RowsRefreshed /\ RemovedExcluded /\ EditorReads /\ MastersTyped
  BY DEF PoolsInv, PoolsWell, PoolTypes
<1>2. MastersTyped' /\ RemovedExcluded'
  BY <1>1, MastersKept
<1>3. AllocationsStay
  BY SameAllocations
<1>4. MastersStay
  BY DEF MastersStay
<1> QED
  BY <1>1, <1>2, <1>3, <1>4, MarkedKeeps, EditorKept

-----------------------------------------------------------------------------
(* Changes of the master data. *)

LEMMA MasterStepSafe ==
    ASSUME MastersTyped, RowsTyped, RowsPlaced, RemovedExcluded, ChangeMasterData(Received)
    PROVE  MastersSafe
<1>1. Received \subseteq Contacts
  BY DEF Received
<1>2. CASE \E k \in Received : RecordPoolBounce(k) \/ UnsubscribePoolByCampaign(k)
  BY <1>1, <1>2, FeedbackSafe
<1>3. CASE \E o \in Orgs : ArchiveOrganization(o)
  BY <1>3, ArchiveSafe
<1>4. CASE \E p \in Pools, k \in Contacts : ClearPoolContactEmail(p, k) \/ DeletePoolContact(p, k)
  BY <1>4, ContactEndsSafe
<1>5. CASE \E p \in Pools, o \in Orgs :
        \/ ChangeGrant(p, o)
        \/ \E across \in BOOLEAN : CreateOrgPoolAllocation(p, o, across)
        \/ \E from, to \in {"active", "disabled", "detached"} : ChangeAllocation(p, o, from, to)
        \/ \E k \in Contacts :
            \/ CreatePoolContact(p, k, o) \/ UpdatePoolContact(p, k, o)
            \/ \E blocklist \in BOOLEAN : ImportPoolContact(p, k, o, blocklist)
            \/ ImportAllocationMember(p, o, k)
            \/ \E highest \in BOOLEAN : AssignMember(p, o, k, highest)
            \/ RemoveMember(p, o, k) \/ RestoreMember(p, o, k)
  BY <1>5, GrantSafe, AllocateSafe, StateSafe, ContactsSafe, MembersSafe
<1> QED
  BY <1>2, <1>3, <1>4, <1>5 DEF ChangeMasterData

\* Every one of them outdates the snapshot; only the unsubscription marks a row.
LEMMA MasterStepFrame ==
    ASSUME RowsTyped, budget \in LeftType, ChangeMasterData(Received)
    PROVE  /\ fresh' = {} /\ UNCHANGED <<camp, audience, order, editor, bound>>
           /\ budget' \in LeftType
           /\ RowsTyped' /\ RowsMarked /\ (QueuedRows = {} => QueuedRows' = {})
           /\ row' = row \/ \E k \in Received : UnsubscribePoolByCampaign(k)
<1>1. CASE \E k \in Received : UnsubscribePoolByCampaign(k)
  <2>1. PICK k \in Received : UnsubscribePoolByCampaign(k)
    BY <1>1
  <2>2. k \in Contacts
    BY DEF Received
  <2>3. /\ fresh' = {} /\ UNCHANGED <<camp, audience, order, editor, bound>>
        /\ budget.changes > 0 /\ budget' = [budget EXCEPT !.changes = @ - 1]
        /\ row[k].status \in {"pending", "queued", "sent"}
        /\ row' = [row EXCEPT ![k].status = IF @ = "sent" THEN @ ELSE "cancelled"]
    BY <2>1 DEF UnsubscribePoolByCampaign
  <2>4. budget' \in LeftType
    BY <2>3 DEF LeftType
  <2>5. RowsTyped'
    BY <2>2, <2>3 DEF RowsTyped, RowType
  <2>6. \A x \in Contacts : x # k => row'[x] = row[x]
    BY <2>2, <2>3 DEF RowsTyped
  <2>7. /\ row'[k].pool = row[k].pool /\ row'[k].org = row[k].org
        /\ row'[k].status \in {"sent", "cancelled"}
    BY <2>2, <2>3 DEF RowsTyped, RowType
  <2>8. row[k] # NoRow
    BY <2>3 DEF NoRow
  <2>9. RowsMarked
    BY <2>3, <2>6, <2>7, <2>8 DEF RowsMarked
  <2>10. QueuedRows' \subseteq QueuedRows
    BY <2>6, <2>7 DEF QueuedRows
  <2> QED
    BY <1>1, <2>3, <2>4, <2>5, <2>9, <2>10
<1>2. CASE ~\E k \in Received : UnsubscribePoolByCampaign(k)
  <2> DEFINE Outdates == /\ fresh' = {} /\ UNCHANGED <<camp, audience, order, row, editor, bound>>
                         /\ budget.changes > 0 /\ budget' = [budget EXCEPT !.changes = @ - 1]
  <2>1. \A operation : Changes(operation) => Outdates
    BY DEF Changes, campVars
  <2> HIDE DEF Outdates
  <2>a. \A p, o : /\ ChangeGrant(p, o) => Outdates
                  /\ \A across : CreateOrgPoolAllocation(p, o, across) => Outdates
                  /\ \A from, to : ChangeAllocation(p, o, from, to) => Outdates
    BY <2>1 DEF ChangeGrant, CreateOrgPoolAllocation, ChangeAllocation
  <2>b. \A p, o, k : /\ CreatePoolContact(p, k, o) => Outdates
                     /\ UpdatePoolContact(p, k, o) => Outdates
                     /\ \A blocklist : ImportPoolContact(p, k, o, blocklist) => Outdates
    BY <2>1 DEF CreatePoolContact, UpdatePoolContact, ImportPoolContact
  <2>c. \A p, o, k : /\ ImportAllocationMember(p, o, k) => Outdates
                     /\ \A highest : AssignMember(p, o, k, highest) => Outdates
                     /\ (RemoveMember(p, o, k) \/ RestoreMember(p, o, k)) => Outdates
    BY <2>1 DEF ImportAllocationMember, AssignMember, RemoveMember, RestoreMember, MayChangeMember
  <2>d. \A p, k : (ClearPoolContactEmail(p, k) \/ DeletePoolContact(p, k)) => Outdates
    BY <2>1 DEF ClearPoolContactEmail, DeletePoolContact
  <2>e. /\ \A o : ArchiveOrganization(o) => Outdates
        /\ \A k : RecordPoolBounce(k) => Outdates
    BY <2>1 DEF ArchiveOrganization, RecordPoolBounce
  <2>f. Outdates
    BY <1>2, <2>a, <2>b, <2>c, <2>d, <2>e DEF ChangeMasterData
  <2>2. /\ fresh' = {} /\ UNCHANGED <<camp, audience, order, row, editor, bound>>
        /\ budget.changes > 0 /\ budget' = [budget EXCEPT !.changes = @ - 1]
    BY <2>f DEF Outdates
  <2>3. budget' \in LeftType
    BY <2>2 DEF LeftType
  <2> QED
    BY <2>2, <2>3, SameRowsMarked, SameQueued DEF RowsTyped
<1> QED
  BY <1>1, <1>2

LEMMA MasterStepKeeps ==
    ASSUME PoolsInv, ChangeMasterData(Received), UNCHANGED sendVars
    PROVE  PoolsWell'
<1>1. /\ MastersTyped /\ CampTyped /\ RowsTyped /\ SendTyped /\ budget \in LeftType
      /\ RowsPlaced /\ RowsRefreshed /\ RemovedExcluded /\ EditorReads /\ PipeWorks /\ TurnsFair
  BY DEF PoolsInv, PoolsWell, PoolTypes
<1>2. /\ fresh' = {} /\ UNCHANGED <<camp, audience, order, editor, bound>>
      /\ budget' \in LeftType
      /\ RowsTyped' /\ RowsMarked /\ (QueuedRows = {} => QueuedRows' = {})
  BY <1>1, MasterStepFrame
<1>3. MastersTyped' /\ RemovedExcluded' /\ AllocationsStay
  BY <1>1, MasterStepSafe DEF MastersSafe
<1>4. RowsPlaced' /\ RowsRefreshed'
  BY <1>1, <1>2, <1>3, MarkedKeeps DEF MastersStay
<1>5. CampTyped'
  BY <1>1, <1>2 DEF CampTyped
<1>6. SendTyped'
  BY <1>1, SendersKept
<1>7. PipeWorks' /\ TurnsFair' /\ EditorReads'
  BY <1>1, <1>2, PipeKept, TurnsKept, EditorKept DEF sendVars
<1> QED
  BY <1>2, <1>3, <1>4, <1>5, <1>6, <1>7 DEF PoolsInv, PoolsWell, PoolTypes

-----------------------------------------------------------------------------
(* Updates of the campaign. *)

\* Who may be sent to depends on the master data and the scope alone.
LEMMA TargetsSame ==
    ASSUME UNCHANGED masterVars, UNCHANGED bound, NEW k
    PROVE  /\ \A p, o : Deliverable(p, o, k)' <=> Deliverable(p, o, k)
           /\ \A p : Targets(p, k)' = Targets(p, k)
<1>1. \A p, o : Deliverable(p, o, k)' <=> Deliverable(p, o, k)
  BY DEF Deliverable, masterVars, AllScope
<1> QED
  BY <1>1 DEF Targets, AllScope

LEMMA EditReadKeeps ==
    ASSUME PoolsInv, NEW pools \in SUBSET Pools, EditRead(pools), UNCHANGED sendVars
    PROVE  PoolsWell'
<1>1. /\ MastersTyped /\ CampTyped /\ RowsTyped /\ SendTyped /\ budget \in LeftType
      /\ RowsPlaced /\ RowsRefreshed /\ RemovedExcluded /\ EditorReads /\ PipeWorks /\ TurnsFair
  BY DEF PoolsInv, PoolsWell, PoolTypes
<1>2. /\ budget.edits > 0 /\ budget' = [budget EXCEPT !.edits = @ - 1]
      /\ MayEdit(pools) /\ editor' = [at |-> "read", rebuild |-> Rebuilds(pools), pools |-> pools]
      /\ UNCHANGED <<masterVars, camp, audience, order, row, bound, fresh>>
  BY DEF EditRead
<1>3. budget' \in LeftType
  BY <1>1, <1>2 DEF LeftType
<1>4. CampTyped' /\ RowsTyped'
  <2>1. Rebuilds(pools) \in BOOLEAN
    BY DEF Rebuilds
  <2> QED
    BY <1>1, <1>2, <2>1 DEF CampTyped, RowsTyped
<1>5. MastersTyped' /\ RemovedExcluded' /\ SendTyped'
  BY <1>1, <1>2, MastersKept, SendersKept
<1>6. EditorReads'
  BY <1>2 DEF EditorReads, MayEdit, Rebuilds
<1>7. AllocationsStay /\ MastersStay /\ RowsMarked
  <2>1. camp' = "finished" \/ camp # "finished"
    BY <1>2
  <2> QED
    BY <1>2, <2>1, SameAllocations, SameRowsMarked DEF MastersStay
<1>8. RowsPlaced' /\ RowsRefreshed'
  BY <1>1, <1>2, <1>7, MarkedKeeps
<1>9. PipeWorks' /\ TurnsFair'
  BY <1>1, <1>2, SameQueued, PipeKept, TurnsKept DEF sendVars
<1> QED
  BY <1>3, <1>4, <1>5, <1>6, <1>8, <1>9 DEF PoolsInv, PoolsWell, PoolTypes

LEMMA EditRejectedKeeps ==
    ASSUME PoolsInv, EditRejected, UNCHANGED sendVars
    PROVE  PoolsWell'
<1>1. /\ MastersTyped /\ CampTyped /\ RowsTyped /\ SendTyped /\ budget \in LeftType
      /\ RowsPlaced /\ RowsRefreshed /\ RemovedExcluded /\ EditorReads /\ PipeWorks /\ TurnsFair
  BY DEF PoolsInv, PoolsWell, PoolTypes
<1>2. editor' = NoEdit /\ UNCHANGED <<masterVars, camp, audience, order, row, bound, budget, fresh>>
  BY DEF EditRejected
<1>3. CampTyped' /\ RowsTyped' /\ budget' \in LeftType
  BY <1>1, <1>2 DEF CampTyped, RowsTyped, NoEdit
<1>4. MastersTyped' /\ RemovedExcluded' /\ SendTyped'
  BY <1>1, <1>2, MastersKept, SendersKept
<1>5. EditorReads'
  BY <1>2 DEF EditorReads, NoEdit
<1>6. AllocationsStay /\ MastersStay /\ RowsMarked
  <2>1. camp' = "finished" \/ camp # "finished"
    BY <1>2
  <2> QED
    BY <1>2, <2>1, SameAllocations, SameRowsMarked DEF MastersStay
<1>7. RowsPlaced' /\ RowsRefreshed'
  BY <1>1, <1>2, <1>6, MarkedKeeps
<1>8. PipeWorks' /\ TurnsFair'
  BY <1>1, <1>2, SameQueued, PipeKept, TurnsKept DEF sendVars
<1> QED
  BY <1>3, <1>4, <1>5, <1>7, <1>8 DEF PoolsInv, PoolsWell, PoolTypes

\* The rows an update leaves.
LEMMA CommitRow ==
    ASSUME CampTyped, RowsTyped, EditorReads, RowsPlaced, EditCommit(scan.pools), NEW k \in Contacts
    PROVE  /\ row'[k] \in RowType /\ AttachedWell(Kept(editor.pools, k), row'[k], editor.pools, k)
           /\ Kept(editor.pools, k) = NoRow \/ (~editor.rebuild /\ Kept(editor.pools, k) = row[k])
<1> DEFINE pools == editor.pools
<1>1. pools \in SUBSET Pools /\ order' \in Seq(Orgs)
  BY DEF CampTyped, EditCommit
<1>2. PICK sequence \in SetToSeqs(pools) : row' = Attached(pools, order', sequence)
  BY DEF EditCommit
<1>3. Kept(pools, k) = NoRow \/ (~editor.rebuild /\ Kept(pools, k) = row[k])
  BY DEF Kept
<1>4. Kept(pools, k) \in RowType
  BY <1>3 DEF RowsTyped, RowType, NoRow
<1> HIDE DEF pools
<1>5. /\ Attached(pools, order', sequence)[k] \in RowType
      /\ AttachedWell(Kept(pools, k), Attached(pools, order', sequence)[k], pools, k)
  BY <1>1, <1>4, AttachedRow
<1> QED
  BY <1>2, <1>3, <1>5 DEF pools

LEMMA EditCommitKeeps ==
    ASSUME PoolsInv, EditCommit(scan.pools), UNCHANGED sendVars
    PROVE  PoolsWell'
<1> DEFINE pools == editor.pools
<1>1. /\ MastersTyped /\ CampTyped /\ RowsTyped /\ SendTyped /\ budget \in LeftType
      /\ RowsPlaced /\ RowsRefreshed /\ RemovedExcluded /\ EditorReads /\ PipeWorks /\ TurnsFair
  BY DEF PoolsInv, PoolsWell, PoolTypes
<1>2. /\ editor.at = "read" /\ order' \in {order, << >>} /\ fresh' = pools /\ editor' = NoEdit
      /\ UNCHANGED <<masterVars, camp, bound, budget>>
  BY DEF EditCommit
<1>3. audience' = pools /\ (~editor.rebuild => pools = audience) /\ pools \in SUBSET Pools
  BY <1>1 DEF EditCommit, EditorReads, CampTyped
<1>4. \A k \in Contacts :
        /\ row'[k] \in RowType /\ AttachedWell(Kept(pools, k), row'[k], pools, k)
        /\ Kept(pools, k) = NoRow \/ (~editor.rebuild /\ Kept(pools, k) = row[k])
  BY <1>1, CommitRow
<1>5. RowsTyped'
  <2>1. \E f : row' = [k \in Contacts |-> f[k]]
    BY DEF EditCommit, Attached
  <2> QED
    BY <1>4, <2>1 DEF RowsTyped
<1>6. CampTyped'
  <2>1. << >> \in Seq(Orgs) /\ IsInjective(<< >>)
    BY DEF IsInjective
  <2>2. order' \in Seq(Orgs) /\ IsInjective(order')
    BY <1>1, <1>2, <2>1 DEF CampTyped
  <2> QED
    BY <1>1, <1>2, <1>3, <2>2 DEF CampTyped, NoEdit
<1> HIDE DEF pools
<1>7. RowsPlaced'
  <2> SUFFICES ASSUME NEW k \in Contacts PROVE RowPlaced(row[k])'
    BY DEF RowsPlaced
  <2> DEFINE r == Kept(pools, k)
             x == row'[k]
  <2>1. RowPlaced(row[k]) /\ UNCHANGED <<allocation, camp, bound>>
    BY <1>1, <1>2 DEF RowsPlaced, masterVars
  <2>2. \/ x = NoRow \/ (x = row[k] /\ pools = audience)
        \/ (x.status = "pending" /\ x.pool \in pools /\ x.org \in Targets(x.pool, k))
    <3>1. r = NoRow \/ (r = row[k] /\ pools = audience)
      BY <1>3, <1>4
    <3>2. \/ x = r \/ x = NoRow
          \/ (x.status = "pending" /\ x.pool \in pools /\ x.org \in Targets(x.pool, k))
      BY <1>4 DEF AttachedWell
    <3> QED
      BY <3>1, <3>2
  <2>3. CASE x = NoRow
    BY <2>3 DEF RowPlaced
  <2>4. CASE x = row[k] /\ pools = audience
    BY <1>3, <2>1, <2>4 DEF RowPlaced, Unfinished, AllScope
  <2>5. CASE x.status = "pending" /\ x.pool \in pools /\ x.org \in Targets(x.pool, k)
    <3>1. x.pool \in Pools /\ x.org \in Orgs /\ (AllScope \/ x.org = Home)
      BY <1>3, <2>5, TargetsAreOrgs DEF Targets
    <3>2. allocation[x.pool][x.org] = "active"
      BY <2>5 DEF Targets, Deliverable
    <3> QED
      BY <2>1, <2>5, <3>1, <3>2 DEF RowPlaced, AllScope
  <2> QED
    BY <2>2, <2>3, <2>4, <2>5
<1>8. RowsRefreshed'
  <2> SUFFICES ASSUME NEW k \in Contacts PROVE Refreshes(k)'
    BY DEF RowsRefreshed
  <2> DEFINE r == Kept(pools, k)
             x == row'[k]
  <2>1. \A p : Targets(p, k)' = Targets(p, k)
    BY <1>2, TargetsSame
  <2>2. \A p, o : Deliverable(p, o, k)' <=> Deliverable(p, o, k)
    BY <1>2, TargetsSame
  <2>3. RowPlaced(row[k])
    BY <1>1 DEF RowsPlaced
  <2>4. AttachedWell(r, x, pools, k) /\ (r = NoRow \/ r = row[k])
    BY <1>4
  <2>5. CASE r.status \in Claimed /\ x = r
    BY <2>5, <1>2 DEF Refreshes, Claimed
  <2>6. CASE x.status = "pending" /\ x.pool \in pools /\ x.org \in Targets(x.pool, k)
    <3>1. x.pool # 0
      BY <1>3, <2>6, AudienceAssumption
    <3>2. Deliverable(x.pool, x.org, k)
      BY <2>6 DEF Targets
    <3>3. Available(k)'
      BY <2>2, <3>1, <3>2 DEF Available
    <3> QED
      BY <1>2, <2>6, <3>3 DEF Refreshes
  <2>7. CASE /\ r.status \in {"none", "pending"} /\ \A p \in pools : Targets(p, k) = {}
             /\ \/ x = NoRow
                \/ x = r /\ (r.status = "pending" /\ r.pool \in pools => ~(AllScope \/ r.org = Home))
    <3>1. ~(x.status = "pending" /\ x.pool \in pools)
      BY <2>3, <2>4, <2>7 DEF NoRow, RowPlaced
    <3> QED
      BY <1>2, <2>1, <2>7, <3>1 DEF Refreshes
  <2> QED
    BY <2>4, <2>5, <2>6, <2>7 DEF AttachedWell
<1>9. MastersTyped' /\ RemovedExcluded' /\ SendTyped'
  BY <1>1, <1>2, MastersKept, SendersKept
<1>10. EditorReads'
  BY <1>2 DEF EditorReads, NoEdit
<1>11. PipeWorks'
  <2>1. \A k \in Contacts : row'[k].status = "queued" => row[k].status = "queued"
    <3> SUFFICES ASSUME NEW k \in Contacts, row'[k].status = "queued" PROVE row[k].status = "queued"
      OBVIOUS
    <3>1. row'[k] = Kept(pools, k) \/ row'[k] = NoRow
      BY <1>4 DEF AttachedWell
    <3> QED
      BY <1>4, <3>1 DEF NoRow
  <2>2. QueuedRows = {} => QueuedRows' = {}
    BY <2>1 DEF QueuedRows
  <2> QED
    BY <1>1, <1>2, <2>2, PipeKept DEF sendVars
<1>12. TurnsFair'
  BY <1>1, <1>2 DEF TurnsFair, At, sendVars
<1> QED
  BY <1>1, <1>2, <1>5, <1>6, <1>7, <1>8, <1>9, <1>10, <1>11, <1>12 DEF PoolsInv, PoolsWell, PoolTypes

-----------------------------------------------------------------------------
(* Users and operators. *)

LEMMA MarkingStepKeeps ==
    ASSUME PoolsInv, UNCHANGED <<masterVars, audience, order, editor, bound>>,
           RowsMarked, RowsTyped', fresh' = {} \/ fresh' = fresh,
           camp = "finished" => camp' = "finished",
           camp' \in {"draft", "running", "paused", "deferred", "finished"},
           (budget \in LeftType)', SendTyped', PipeWorks', UNCHANGED <<turn, passed>>
    PROVE  PoolsWell'
<1>1. CampTyped /\ TurnsFair
  BY DEF PoolsInv, PoolsWell, PoolTypes
<1>2. CampTyped'
  BY <1>1 DEF CampTyped
<1>3. TurnsFair'
  BY <1>1, TurnsKept
<1>4. MastersTyped' /\ RemovedExcluded' /\ RowsPlaced' /\ RowsRefreshed' /\ EditorReads'
  BY MarksKeep
<1> QED
  BY <1>2, <1>3, <1>4 DEF PoolsInv, PoolsWell, PoolTypes

\* How a stop changes the pipe.
LEMMA StoppedIs ==
    ASSUME pipe \in PipeType, NEW reason \in {"pause", "smtp", "deferred"}
    PROVE  /\ Stopped(reason) \in PipeType
           /\ Stopped(reason).at = pipe.at /\ Stopped(reason).deferred = pipe.deferred
           /\ Stopped(reason).queued = pipe.queued /\ Stopped(reason).limit = pipe.limit
           /\ pipe.at # "none" => Stopped(reason).stop # "none"
           /\ pipe.stop # "none" => Stopped(reason).stop # "none"
           /\ pipe.at = "none" => Stopped(reason).stop = pipe.stop
BY DEF Stopped, PipeType

LEMMA StartKeeps ==
    ASSUME PoolsInv, Start
    PROVE  PoolsWell'
<1>1. CampTyped /\ RowsTyped /\ SendTyped /\ budget \in LeftType /\ PipeWorks
  BY DEF PoolsInv, PoolsWell, PoolTypes
<1>2. /\ budget' = [budget EXCEPT !.controls = @ - 1] /\ budget.controls > 0
      /\ UNCHANGED <<masterVars, audience, order, row, editor, bound, fresh>>
      /\ camp \in {"draft", "paused"} /\ camp' = "running" /\ UNCHANGED sendVars
  BY DEF Start, Controls
<1>3. budget' \in LeftType
  BY <1>1, <1>2 DEF LeftType
<1>4. SendTyped' /\ RowsTyped' /\ RowsMarked
  BY <1>1, <1>2, SendersKept, SameRowsMarked DEF RowsTyped
<1>5. PipeWorks'
  BY <1>1, <1>2, SameQueued DEF PipeWorks, sendVars
<1> QED
  BY <1>2, <1>3, <1>4, <1>5, MarkingStepKeeps DEF sendVars

LEMMA PauseKeeps ==
    ASSUME PoolsInv, Pause
    PROVE  PoolsWell'
<1>1. CampTyped /\ RowsTyped /\ SendTyped /\ budget \in LeftType /\ PipeWorks
  BY DEF PoolsInv, PoolsWell, PoolTypes
<1>2. /\ budget' = [budget EXCEPT !.controls = @ - 1] /\ budget.controls > 0
      /\ UNCHANGED <<masterVars, audience, order, row, editor, bound, fresh>>
      /\ camp \in {"running", "deferred"} /\ camp' = "paused"
      /\ pipe' = [pipe EXCEPT !.stop = IF pipe.at = "none" THEN @ ELSE "pause"]
      /\ UNCHANGED <<enabled, usage, cursor, turn, failures, scan, flight, due, delivered, passed>>
  BY DEF Pause, Controls
<1>3. budget' \in LeftType
  BY <1>1, <1>2 DEF LeftType
<1>4. /\ pipe' \in PipeType /\ pipe'.at = pipe.at /\ pipe'.limit = pipe.limit
      /\ pipe'.queued = pipe.queued /\ (pipe.at # "none" => pipe'.stop # "none")
  BY <1>1, <1>2 DEF SendTyped, PipeType
<1>5. SendTyped' /\ RowsTyped' /\ RowsMarked
  BY <1>1, <1>2, <1>4, SameRowsMarked DEF SendTyped, RowsTyped
<1>6. PipeWorks'
  BY <1>1, <1>2, <1>4, SameQueued DEF PipeWorks
<1> QED
  BY <1>2, <1>3, <1>5, <1>6, MarkingStepKeeps

LEMMA RemoveServerKeeps ==
    ASSUME PoolsInv, NEW s \in Servers, RemoveServer(s)
    PROVE  PoolsWell'
<1>1. CampTyped /\ RowsTyped /\ SendTyped /\ budget \in LeftType /\ PipeWorks
  BY DEF PoolsInv, PoolsWell, PoolTypes
<1> DEFINE pauses == enabled' = {} /\ camp = "running"
<1>2. /\ budget' = [budget EXCEPT !.controls = @ - 1] /\ budget.controls > 0
      /\ UNCHANGED <<masterVars, audience, order, row, editor, bound, fresh>>
      /\ enabled' = enabled \ {s}
      /\ camp' = IF pauses THEN "paused" ELSE camp
      /\ pipe' = IF pauses THEN Stopped("smtp") ELSE pipe
      /\ UNCHANGED <<usage, cursor, turn, failures, scan, flight, due, delivered, passed>>
  BY DEF RemoveServer, Controls
<1>3. budget' \in LeftType
  BY <1>1, <1>2 DEF LeftType
<1>4. /\ pipe' \in PipeType /\ pipe'.at = pipe.at /\ pipe'.limit = pipe.limit
      /\ pipe'.queued = pipe.queued /\ pipe'.deferred = pipe.deferred
      /\ pauses /\ pipe.at # "none" => pipe'.stop # "none"
      /\ ~pauses => pipe' = pipe
  <2>1. pipe \in PipeType
    BY <1>1 DEF SendTyped
  <2> QED
    BY <1>2, <2>1, StoppedIs
<1>5. camp' \in {"draft", "running", "paused", "deferred", "finished"}
  BY <1>1, <1>2 DEF CampTyped
<1>6. camp = "finished" => camp' = "finished"
  BY <1>2
<1>7. RowsTyped' /\ RowsMarked
  BY <1>1, <1>2, SameRowsMarked DEF RowsTyped
<1>8. SendTyped'
  BY <1>1, <1>2, <1>4 DEF SendTyped
<1>9. PipeWorks'
  <2>1. CASE pauses
    BY <1>1, <1>2, <1>4, <2>1, SameQueued DEF PipeWorks
  <2>2. CASE ~pauses
    BY <1>1, <1>2, <2>2, SameQueued DEF PipeWorks
  <2> QED
    BY <2>1, <2>2
<1> HIDE DEF pauses
<1> QED
  BY <1>2, <1>3, <1>5, <1>6, <1>7, <1>8, <1>9, MarkingStepKeeps

LEMMA NextDayKeeps ==
    ASSUME PoolsInv, NextDay
    PROVE  PoolsWell'
<1>1. CampTyped /\ RowsTyped /\ SendTyped /\ budget \in LeftType /\ PipeWorks
  BY DEF PoolsInv, PoolsWell, PoolTypes
<1>2. /\ budget.days > 0 /\ budget' = [budget EXCEPT !.days = @ - 1]
      /\ usage' = [s \in Servers |-> 0] /\ due' = (camp = "deferred")
      /\ UNCHANGED <<masterVars, camp, audience, order, row, editor, bound, fresh, enabled, cursor,
                     turn, failures, scan, pipe, flight, delivered, passed>>
  BY DEF NextDay, campVars
<1>3. budget' \in LeftType
  BY <1>1, <1>2 DEF LeftType
<1>4. SendTyped'
  BY <1>1, <1>2 DEF SendTyped
<1>5. RowsTyped' /\ RowsMarked /\ PipeWorks'
  BY <1>1, <1>2, SameRowsMarked, SameQueued, PipeKept DEF RowsTyped
<1>6. camp' \in {"draft", "running", "paused", "deferred", "finished"}
  BY <1>1, <1>2 DEF CampTyped
<1> QED
  BY <1>2, <1>3, <1>4, <1>5, <1>6, MarkingStepKeeps

-----------------------------------------------------------------------------
(* The scanner. *)

LEMMA ScanSelectKeeps ==
    ASSUME PoolsInv, ScanSelect
    PROVE  PoolsWell'
<1>1. CampTyped /\ RowsTyped /\ SendTyped /\ budget \in LeftType /\ PipeWorks
  BY DEF PoolsInv, PoolsWell, PoolTypes
<1>2. /\ pipe.at = "none" /\ scan' = [on |-> TRUE, pools |-> audience]
      /\ UNCHANGED <<masterVars, camp, audience, order, row, editor, bound, budget, fresh>>
      /\ UNCHANGED <<enabled, usage, cursor, turn, failures, pipe, flight, due, delivered, passed>>
  BY DEF ScanSelect, audienceVars, campVars
<1>3. SendTyped'
  BY <1>1, <1>2 DEF SendTyped, CampTyped
<1>4. RowsTyped' /\ RowsMarked /\ budget' \in LeftType
  BY <1>1, <1>2, SameRowsMarked DEF RowsTyped
<1>5. PipeWorks'
  BY <1>1, <1>2, SameQueued DEF PipeWorks
<1>6. camp' \in {"draft", "running", "paused", "deferred", "finished"}
  BY <1>1, <1>2 DEF CampTyped
<1> QED
  BY <1>2, <1>3, <1>4, <1>5, <1>6, MarkingStepKeeps

LEMMA ScanSkipKeeps ==
    ASSUME PoolsInv, ScanSkip
    PROVE  PoolsWell'
<1>1. CampTyped /\ RowsTyped /\ SendTyped /\ budget \in LeftType /\ PipeWorks
  BY DEF PoolsInv, PoolsWell, PoolTypes
<1>2. /\ scan' = [scan EXCEPT !.on = FALSE]
      /\ UNCHANGED <<masterVars, camp, audience, order, row, editor, bound, budget, fresh>>
      /\ UNCHANGED <<enabled, usage, cursor, turn, failures, pipe, flight, due, delivered, passed>>
  BY DEF ScanSkip, audienceVars, campVars
<1>3. scan' \in [on : BOOLEAN, pools : SUBSET Pools] /\ ~scan'.on
  BY <1>1, <1>2 DEF SendTyped
<1>4. SendTyped'
  BY <1>1, <1>2, <1>3 DEF SendTyped
<1>5. RowsTyped' /\ RowsMarked /\ budget' \in LeftType
  BY <1>1, <1>2, SameRowsMarked DEF RowsTyped
<1>6. PipeWorks'
  BY <1>1, <1>2, <1>3, SameQueued DEF PipeWorks
<1>7. camp' \in {"draft", "running", "paused", "deferred", "finished"}
  BY <1>1, <1>2 DEF CampTyped
<1> QED
  BY <1>2, <1>4, <1>5, <1>6, <1>7, MarkingStepKeeps

LEMMA ScanLoadKeeps ==
    ASSUME PoolsInv, ScanLoad
    PROVE  PoolsWell'
<1> DEFINE exhausted == {k \in Contacts : row[k].status = "pending" /\ Exhausted(k)}
<1>1. CampTyped /\ RowsTyped /\ SendTyped /\ budget \in LeftType /\ PipeWorks
  BY DEF PoolsInv, PoolsWell, PoolTypes
<1>2. /\ scan.on /\ scan' = [scan EXCEPT !.on = FALSE] /\ due' = FALSE
      /\ camp \in {"running", "deferred"}
      /\ \/ camp' = "finished" /\ pipe' = pipe
         \/ camp' = "running" /\ pipe' = [NoPipe EXCEPT !.at = "open"]
      /\ UNCHANGED <<masterVars, audience, order, editor, bound, budget, fresh>>
      /\ UNCHANGED <<enabled, usage, cursor, turn, failures, flight, delivered, passed>>
  BY DEF ScanLoad
<1>3. row' = [k \in Contacts |-> IF k \in exhausted THEN [row[k] EXCEPT !.status = "failed"] ELSE row[k]]
  BY DEF ScanLoad
<1>4. scan' \in [on : BOOLEAN, pools : SUBSET Pools] /\ ~scan'.on
  BY <1>1, <1>2 DEF SendTyped
<1>5. pipe' \in PipeType
  <2>1. pipe \in PipeType /\ [NoPipe EXCEPT !.at = "open"] \in PipeType
    BY <1>1 DEF SendTyped, PipeType, NoPipe
  <2> QED
    BY <1>2, <2>1
<1>6. SendTyped'
  BY <1>1, <1>2, <1>4, <1>5 DEF SendTyped
<1>7. \A k \in Contacts :
        \/ row'[k] = row[k]
        \/ /\ row[k].status = "pending" /\ row'[k].status = "failed" /\ row'[k] \in RowType
           /\ row'[k].pool = row[k].pool /\ row'[k].org = row[k].org
  BY <1>1, <1>3 DEF RowsTyped, RowType
<1>8. RowsTyped'
  <2>1. \A k \in Contacts : row'[k] \in RowType
    BY <1>1, <1>7 DEF RowsTyped
  <2> QED
    BY <1>3, <2>1 DEF RowsTyped
<1>9. RowsMarked
  BY <1>7 DEF RowsMarked, NoRow
<1>10. PipeWorks'
  <2>1. pipe.at = "none"
    BY <1>1, <1>2 DEF PipeWorks
  <2>2. CASE pipe' = pipe
    BY <1>1, <1>4, <2>1, <2>2 DEF PipeWorks
  <2>3. CASE camp' = "running" /\ pipe' = [NoPipe EXCEPT !.at = "open"]
    BY <1>4, <2>3 DEF PipeWorks, NoPipe
  <2> QED
    BY <1>2, <2>2, <2>3
<1>11. camp' \in {"draft", "running", "paused", "deferred", "finished"} /\ camp # "finished"
  BY <1>2
<1>12. budget' \in LeftType
  BY <1>1, <1>2
<1> QED
  BY <1>2, <1>6, <1>8, <1>9, <1>10, <1>11, <1>12, MarkingStepKeeps

\* What one refresh does to the row of k, also when the selection is unresolved.
RefreshedWell(k, p) ==
    \/ /\ row[k].status \in {"none", "pending"}
       /\ row'[k].status = "pending" /\ row'[k].pool = p /\ row'[k].org \in Targets(p, k)
       /\ row'[k].sender = row[k].sender
    \/ /\ Targets(p, k) = {} /\ row[k].status = "pending" /\ row[k].pool = p /\ row'[k] = NoRow
    \/ /\ Targets(p, k) # {} => row[k].status \in Claimed
       /\ ~(row[k].status = "pending" /\ row[k].pool = p)
       /\ row'[k] = row[k]

LEMMA RefreshStep ==
    ASSUME MastersTyped, CampTyped, RowsTyped, SendTyped, RowsPlaced, ScanRefresh
    PROVE  \E p \in scan.pools :
             /\ p \in Pools /\ fresh' = fresh \cup {p} /\ scan' = [scan EXCEPT !.pools = @ \ {p}]
             /\ RowsTyped' /\ \A k \in Contacts : RefreshedWell(k, p)
<1> DEFINE p == Min(scan.pools)
<1>1. p \in scan.pools /\ p \in Pools
  <2>1. scan.pools \in SUBSET Pools /\ scan.pools # {}
    BY DEF SendTyped, ScanRefresh
  <2> QED
    BY <2>1, PoolNumbers, MinIs
<1> HIDE DEF p
<1>2. /\ row' = IF Resolved(p) THEN [k \in Contacts |-> Refreshed(k, row[k], order, p)] ELSE row
      /\ scan' = [scan EXCEPT !.pools = @ \ {p}]
      /\ fresh' = fresh \cup {p}
  BY DEF ScanRefresh, p
<1>3. order \in Seq(Orgs) /\ \A k \in Contacts : row[k] \in RowType
  BY DEF CampTyped, RowsTyped
<1>4. RowsTyped'
  <2>1. \A k \in Contacts : Refreshed(k, row[k], order, p) \in RowType
    BY <1>1, <1>3, RefreshedType
  <2> QED
    BY <1>2, <2>1 DEF RowsTyped
<1>5. ASSUME NEW k \in Contacts
      PROVE  RefreshedWell(k, p)
  <2>1. RowPlaced(row[k])
    BY DEF RowsPlaced
  <2>2. row[k].status = "pending" /\ row[k].pool = p => AllScope \/ row[k].org = Home
    BY <2>1 DEF RowPlaced, NoRow
  <2>3. CASE ~Resolved(p)
    <3>1. ~AllScope /\ allocation[p][Home] = "none"
      BY <2>3, AudienceAssumption DEF Resolved, Allocated
    <3>2. Targets(p, k) = {}
      BY <3>1 DEF Targets, Deliverable
    <3>3. ~(row[k].status = "pending" /\ row[k].pool = p)
      BY <2>1, <3>1 DEF RowPlaced, NoRow
    <3> QED
      BY <1>2, <2>3, <3>2, <3>3 DEF RefreshedWell
  <2>4. CASE Resolved(p)
    <3>1. row'[k] = Refreshed(k, row[k], order, p)
      BY <1>2, <2>4
    <3>2. CASE /\ Targets(p, k) # {} /\ row[k].status \in {"none", "pending"}
               /\ Refreshed(k, row[k], order, p) =
                    [row[k] EXCEPT !.status = "pending", !.pool = p, !.org = Chosen(order, p, k)]
      <4>1. Chosen(order, p, k) \in Targets(p, k)
        BY <1>3, <3>2, ChosenIsTarget
      <4> QED
        BY <1>3, <3>1, <3>2, <4>1 DEF RefreshedWell, RowType
    <3>3. CASE /\ Targets(p, k) = {} /\ row[k].status = "pending" /\ row[k].pool = p
               /\ Refreshed(k, row[k], order, p) = NoRow
      BY <3>1, <3>3 DEF RefreshedWell
    <3>4. CASE /\ Targets(p, k) # {} => row[k].status \notin {"none", "pending"}
               /\ ~(/\ Targets(p, k) = {} /\ row[k].status = "pending" /\ row[k].pool = p
                    /\ AllScope \/ row[k].org = Home)
               /\ Refreshed(k, row[k], order, p) = row[k]
      <4>1. Targets(p, k) # {} => row[k].status \in Claimed
        BY <1>3, <3>4 DEF RowType, Claimed
      <4>2. ~(row[k].status = "pending" /\ row[k].pool = p)
        BY <2>2, <3>4
      <4> QED
        BY <3>1, <3>4, <4>1, <4>2 DEF RefreshedWell
    <3> QED
      BY <3>2, <3>3, <3>4 DEF Refreshed
  <2> QED
    BY <2>3, <2>4
<1> QED
  BY <1>1, <1>2, <1>4, <1>5

LEMMA ScanRefreshKeeps ==
    ASSUME PoolsInv, ScanRefresh
    PROVE  PoolsWell'
<1>1. /\ MastersTyped /\ CampTyped /\ RowsTyped /\ SendTyped /\ budget \in LeftType
      /\ RowsPlaced /\ RowsRefreshed /\ RemovedExcluded /\ EditorReads /\ PipeWorks /\ TurnsFair
  BY DEF PoolsInv, PoolsWell, PoolTypes
<1>2. PICK p \in scan.pools :
        /\ p \in Pools /\ fresh' = fresh \cup {p} /\ scan' = [scan EXCEPT !.pools = @ \ {p}]
        /\ RowsTyped' /\ \A k \in Contacts : RefreshedWell(k, p)
  BY <1>1, RefreshStep
<1>3. /\ UNCHANGED <<masterVars, camp, audience, order, editor, bound, budget>>
      /\ UNCHANGED <<enabled, usage, cursor, turn, failures, pipe, flight, due, delivered, passed>>
      /\ scan.on
  BY DEF ScanRefresh
<1>4. RowsPlaced'
  <2> SUFFICES ASSUME NEW k \in Contacts PROVE RowPlaced(row[k])'
    BY DEF RowsPlaced
  <2> DEFINE x == row'[k]
  <2>1. RowPlaced(row[k]) /\ UNCHANGED <<allocation, camp, bound, audience>>
    BY <1>1, <1>3 DEF RowsPlaced, masterVars
  <2>2. \/ x = NoRow \/ x = row[k]
        \/ (x.status = "pending" /\ x.pool = p /\ x.org \in Targets(p, k))
    BY <1>2 DEF RefreshedWell
  <2>3. CASE x = NoRow
    BY <2>3 DEF RowPlaced
  <2>4. CASE x = row[k]
    BY <2>1, <2>4 DEF RowPlaced, Unfinished, AllScope
  <2>5. CASE x.status = "pending" /\ x.pool = p /\ x.org \in Targets(p, k)
    <3>1. x.pool \in Pools /\ x.org \in Orgs /\ (AllScope \/ x.org = Home)
      BY <1>2, <2>5, TargetsAreOrgs DEF Targets
    <3>2. allocation[x.pool][x.org] = "active"
      BY <2>5 DEF Targets, Deliverable
    <3> QED
      BY <2>1, <2>5, <3>1, <3>2 DEF RowPlaced, AllScope
  <2> QED
    BY <2>2, <2>3, <2>4, <2>5
<1>5. RowsRefreshed'
  <2> SUFFICES ASSUME NEW k \in Contacts PROVE Refreshes(k)'
    BY DEF RowsRefreshed
  <2> DEFINE x == row'[k]
  <2>1. \A q : Targets(q, k)' = Targets(q, k)
    BY <1>3, TargetsSame
  <2>2. \A q, o : Deliverable(q, o, k)' <=> Deliverable(q, o, k)
    BY <1>3, TargetsSame
  <2>3. RowPlaced(row[k]) /\ Refreshes(k)
    BY <1>1 DEF RowsPlaced, RowsRefreshed
  <2>4. CASE x.status = "pending" /\ x.pool = p /\ x.org \in Targets(p, k)
    <3>1. x.pool # 0
      BY <1>2, <2>4, AudienceAssumption
    <3>2. Deliverable(x.pool, x.org, k)
      BY <2>4 DEF Targets
    <3>3. Available(k)'
      BY <2>2, <3>1, <3>2 DEF Available
    <3> QED
      BY <1>2, <2>4, <3>3 DEF Refreshes
  <2>5. CASE Targets(p, k) = {} /\ row[k].status = "pending" /\ row[k].pool = p /\ x = NoRow
    <3>1. ASSUME NEW q \in fresh, Targets(q, k) # {}
          PROVE  FALSE
      <4>1. Available(k)
        BY <2>3, <2>5, <3>1 DEF Refreshes
      <4>2. row[k].org \in Orgs /\ (AllScope \/ row[k].org = Home) /\ Deliverable(p, row[k].org, k)
        BY <2>3, <2>5, <4>1 DEF RowPlaced, NoRow, Available
      <4>3. row[k].org \in Targets(p, k)
        BY <4>2 DEF Targets
      <4> QED
        BY <2>5, <4>3
    <3>2. \A q \in fresh' : Targets(q, k)' = {}
      BY <1>2, <2>1, <2>5, <3>1
    <3>3. x.status # "pending"
      BY <2>5 DEF NoRow
    <3> QED
      BY <3>2, <3>3 DEF Refreshes
  <2>6. CASE /\ Targets(p, k) # {} => row[k].status \in Claimed
             /\ ~(row[k].status = "pending" /\ row[k].pool = p)
             /\ row'[k] = row[k]
    <3>1. x.status = "pending" /\ x.pool \in fresh' => Available(k)'
      <4>1. x.status = "pending" /\ x.pool \in fresh' => Available(k)
        BY <1>2, <2>3, <2>6 DEF Refreshes
      <4> QED
        BY <2>2, <2>6, <4>1 DEF Available
    <3>2. ASSUME NEW q \in fresh', Targets(q, k)' # {}
          PROVE  x.status # "none" /\ (x.status = "pending" => x.pool \in fresh')
      <4>1. CASE q = p
        BY <2>1, <2>6, <3>2, <4>1 DEF Claimed
      <4>2. CASE q \in fresh
        BY <1>2, <2>1, <2>3, <2>6, <3>2, <4>2 DEF Refreshes
      <4> QED
        BY <1>2, <4>1, <4>2
    <3> QED
      BY <3>1, <3>2 DEF Refreshes
  <2> QED
    BY <1>2, <2>4, <2>5, <2>6 DEF RefreshedWell
<1>6. MastersTyped' /\ RemovedExcluded'
  BY <1>1, <1>3, MastersKept
<1>7. scan' \in [on : BOOLEAN, pools : SUBSET Pools] /\ scan'.on = scan.on
  BY <1>1, <1>2 DEF SendTyped
<1>8. SendTyped'
  BY <1>1, <1>3, <1>7 DEF SendTyped
<1>9. CampTyped' /\ budget' \in LeftType
  BY <1>1, <1>2, <1>3 DEF CampTyped
<1>10. EditorReads' /\ TurnsFair'
  BY <1>1, <1>3, EditorKept, TurnsKept
<1>11. PipeWorks'
  <2>1. \A k \in Contacts : row'[k].status = "queued" => row[k].status = "queued"
    BY <1>2 DEF RefreshedWell, NoRow
  <2>2. QueuedRows = {} => QueuedRows' = {}
    BY <2>1 DEF QueuedRows
  <2> QED
    BY <1>1, <1>3, <1>7, <2>2 DEF PipeWorks
<1> QED
  BY <1>2, <1>4, <1>5, <1>6, <1>8, <1>9, <1>10, <1>11 DEF PoolsInv, PoolsWell, PoolTypes

-----------------------------------------------------------------------------
(* The pipe. *)

LEMMA RemainingNatural ==
    ASSUME SendTyped
    PROVE  SmtpRemaining \in Nat
<1> DEFINE Left(s) == {s} \X ((usage[s] + 1)..DailyLimit[s])
<1>1. enabled \subseteq Servers /\ IsFiniteSet(enabled)
  BY AllocatorAssumption, FS_Subset DEF SendTyped
<1>2. \A s \in enabled : IsFiniteSet(Left(s))
  <2> SUFFICES ASSUME NEW s \in enabled PROVE IsFiniteSet(Left(s))
    OBVIOUS
  <2>1. usage[s] + 1 \in Int /\ DailyLimit[s] \in Int
    BY <1>1, AllocatorAssumption DEF SendTyped
  <2>2. IsFiniteSet((usage[s] + 1)..DailyLimit[s]) /\ IsFiniteSet({s})
    BY <2>1, FS_Interval, FS_Singleton
  <2> QED
    BY <2>2, FS_Product
<1>3. IsFiniteSet({Left(s) : s \in enabled})
  <2>1. [s \in enabled |-> Left(s)] \in Surjection(enabled, {Left(s) : s \in enabled})
    BY DEF Surjection
  <2> HIDE DEF Left
  <2> QED
    BY <1>1, <2>1, FS_Surjection
<1>4. \A T \in {Left(s) : s \in enabled} : IsFiniteSet(T)
  <2> HIDE DEF Left
  <2> QED
    BY <1>2
<1>5. IsFiniteSet(UNION {Left(s) : s \in enabled})
  <2> HIDE DEF Left
  <2> QED
    BY <1>3, <1>4, FS_UNION
<1> QED
  BY <1>5, FS_CardinalityType DEF SmtpRemaining

LEMMA QueuedCounted ==
    ASSUME RowsTyped
    PROVE  Cardinality(QueuedRows) \in Nat /\ (Cardinality(QueuedRows) = 0 => QueuedRows = {})
<1>1. IsFiniteSet(QueuedRows)
  BY AudienceAssumption, FS_Subset DEF QueuedRows
<1> QED
  BY <1>1, FS_CardinalityType, FS_EmptySet

LEMMA PipeReadKeeps ==
    ASSUME PoolsInv, PipeRead
    PROVE  PoolsWell'
<1> DEFINE ends == pipe.stop # "none" \/ camp # "running" \/ Unsent = {}
           out == ~SmtpUnlimited /\ SmtpRemaining = 0
           limit == IF SmtpUnlimited THEN bound.batch ELSE Min({bound.batch, SmtpRemaining})
<1>1. CampTyped /\ RowsTyped /\ SendTyped /\ budget \in LeftType /\ PipeWorks
  BY DEF PoolsInv, PoolsWell, PoolTypes
<1>2. /\ pipe.at = "open"
      /\ pipe' = IF ends THEN [pipe EXCEPT !.at = "ending"]
                 ELSE IF out THEN [pipe EXCEPT !.at = "ending", !.deferred = TRUE]
                 ELSE [pipe EXCEPT !.at = "claim", !.queued = Cardinality(QueuedRows), !.limit = limit]
      /\ camp' = IF ~ends /\ out THEN "deferred" ELSE camp
      /\ due' = IF ~ends /\ out THEN FALSE ELSE due
      /\ UNCHANGED <<masterVars, audience, order, row, editor, bound, budget, fresh>>
      /\ UNCHANGED <<enabled, usage, cursor, turn, failures, scan, flight, delivered, passed>>
  BY DEF PipeRead
<1>3. ~out => limit \in Nat /\ limit >= 1
  <2>1. bound.batch \in Nat \ {0}
    BY <1>1, AudienceAssumption DEF CampTyped
  <2>2. CASE SmtpUnlimited
    BY <2>1, <2>2
  <2>3. CASE ~SmtpUnlimited /\ SmtpRemaining # 0
    <3>1. SmtpRemaining \in Nat \ {0}
      BY <1>1, <2>3, RemainingNatural
    <3>2. {bound.batch, SmtpRemaining} \in SUBSET Nat /\ IsFiniteSet({bound.batch, SmtpRemaining})
      <4>1. IsFiniteSet({bound.batch} \cup {SmtpRemaining})
        BY FS_Singleton, FS_AddElement
      <4>2. {bound.batch} \cup {SmtpRemaining} = {bound.batch, SmtpRemaining}
        OBVIOUS
      <4> QED
        BY <2>1, <3>1, <4>1, <4>2
    <3>3. Min({bound.batch, SmtpRemaining}) \in {bound.batch, SmtpRemaining}
      BY <3>2, MinIs
    <3> QED
      BY <2>1, <2>3, <3>1, <3>3
  <2> QED
    BY <2>2, <2>3
<1>4. Cardinality(QueuedRows) \in Nat /\ (Cardinality(QueuedRows) = 0 => QueuedRows = {})
  BY <1>1, QueuedCounted
<1>5. pipe \in PipeType
  BY <1>1 DEF SendTyped
<1> HIDE DEF ends, out, limit
<1>6. pipe' \in PipeType
  BY <1>2, <1>3, <1>4, <1>5 DEF PipeType
<1>7. SendTyped'
  BY <1>1, <1>2, <1>6 DEF SendTyped
<1>8. PipeWorks'
  <2>1. QueuedRows' = QueuedRows
    BY <1>2, SameQueued
  <2>2. CASE ends \/ out
    BY <1>1, <1>2, <1>5, <2>2 DEF PipeWorks, PipeType
  <2>3. CASE ~ends /\ ~out
    <3>1. /\ pipe'.at = "claim" /\ pipe'.stop = pipe.stop /\ pipe'.deferred = pipe.deferred
          /\ pipe'.limit = limit /\ pipe'.queued = Cardinality(QueuedRows) /\ camp' = camp
      BY <1>2, <1>5, <2>3 DEF PipeType
    <3> QED
      BY <1>1, <1>2, <1>3, <1>4, <2>1, <2>3, <3>1 DEF PipeWorks
  <2> QED
    BY <2>2, <2>3
<1>9. RowsTyped' /\ RowsMarked /\ budget' \in LeftType
  BY <1>1, <1>2, SameRowsMarked DEF RowsTyped
<1>10. camp' \in {"draft", "running", "paused", "deferred", "finished"}
  BY <1>1, <1>2 DEF CampTyped
<1>11. camp = "finished" => camp' = "finished"
  BY <1>2 DEF ends
<1> QED
  BY <1>2, <1>7, <1>8, <1>9, <1>10, <1>11, MarkingStepKeeps

\* What the answer to a claim does to the pipe and the campaign.
LEMMA AnsweredIs ==
    ASSUME CampTyped, SendTyped, PipeWorks, pipe.at = "claim", scan' = scan,
           NEW taken, NEW noServer \in BOOLEAN, Answered(taken, noServer)
    PROVE  /\ flight' = flight \cup taken
           /\ pipe' \in PipeType /\ due' \in BOOLEAN /\ PipeWorks'
           /\ camp' \in {"draft", "running", "paused", "deferred", "finished"}
           /\ camp = "finished" => camp' = "finished"
           /\ pipe'.at \in {"open", "waiting", "ending"} /\ camp' \in {camp, "deferred"}
<1> DEFINE defers == taken = {} /\ pipe.queued = 0 /\ noServer
<1>1. pipe \in PipeType /\ due \in BOOLEAN
  BY DEF SendTyped
<1>2. /\ flight' = flight \cup taken
      /\ pipe' = IF taken # {} THEN [pipe EXCEPT !.at = "open"]
                 ELSE IF pipe.queued > 0 THEN [pipe EXCEPT !.at = "waiting"]
                 ELSE IF defers /\ camp = "running"
                 THEN [pipe EXCEPT !.at = "ending", !.deferred = TRUE]
                 ELSE IF defers /\ pipe.stop = "none"
                 THEN [pipe EXCEPT !.at = "ending", !.stop = "pause"]
                 ELSE [pipe EXCEPT !.at = "ending"]
      /\ camp' = IF defers /\ camp = "running" THEN "deferred" ELSE camp
      /\ due' = IF defers /\ camp = "running" THEN FALSE ELSE due
  BY DEF Answered
<1>3. pipe' \in PipeType
  BY <1>1, <1>2 DEF PipeType
<1>a. pipe'.at \in {"open", "waiting", "ending"}
  BY <1>1, <1>2 DEF PipeType
<1>4. PipeWorks'
  <2>2. pipe'.at \in {"open", "waiting"} =>
            pipe'.stop = pipe.stop /\ pipe'.deferred = pipe.deferred /\ camp' = camp
    <3>1. CASE taken # {}
      BY <1>1, <1>2, <3>1 DEF PipeType
    <3>2. CASE taken = {} /\ pipe.queued > 0
      BY <1>1, <1>2, <3>2 DEF PipeType
    <3>3. CASE taken = {} /\ ~(pipe.queued > 0)
      <4>1. pipe'.at = "ending"
        BY <1>1, <1>2, <3>3 DEF PipeType
      <4> QED
        BY <4>1
    <3> QED
      BY <3>1, <3>2, <3>3
  <2> QED
    BY <1>a, <2>2 DEF PipeWorks
<1> QED
  BY <1>1, <1>2, <1>3, <1>a, <1>4 DEF CampTyped

\* Attempts are numbered.
LEMMA AttemptTyped ==
    ASSUME PoolsInv, NEW k \in Contacts
    PROVE  Attempt(k) \in Nat
BY DEF PoolsInv, PoolsWell, PoolTypes, SendTyped, HistoryTyped, Attempt

LEMMA ClaimOwnKeeps ==
    ASSUME PoolsInv, ClaimOwn
    PROVE  PoolsWell'
<1> DEFINE ready == {k \in MayClaim : failures[k] = Round /\ camp = "running"}
           taken == {k \in ready : Cardinality({x \in ready : x < k}) < pipe.limit}
           messages == {<<k, NoServer, "queued", Attempt(k)>> : k \in taken}
<1>1. CampTyped /\ RowsTyped /\ SendTyped /\ budget \in LeftType /\ PipeWorks
  BY DEF PoolsInv, PoolsWell, PoolTypes
<1>2. /\ pipe.at = "claim"
      /\ row' = [k \in Contacts |-> IF k \in taken THEN [row[k] EXCEPT !.status = "queued"] ELSE row[k]]
      /\ Answered(messages, FALSE)
      /\ UNCHANGED <<masterVars, audience, order, editor, bound, budget, fresh>>
      /\ UNCHANGED <<enabled, usage, cursor, turn, failures, scan, delivered, passed>>
  BY DEF ClaimOwn
<1>3. taken \subseteq Contacts /\ \A k \in taken : row[k].status = "pending"
  BY DEF MayClaim
<1> HIDE DEF taken
<1>4. messages \subseteq FlightType
  BY <1>3, AttemptTyped DEF FlightType
<1> HIDE DEF messages
<1>5. /\ flight' = flight \cup messages
      /\ pipe' \in PipeType /\ due' \in BOOLEAN /\ PipeWorks'
      /\ camp' \in {"draft", "running", "paused", "deferred", "finished"}
      /\ camp = "finished" => camp' = "finished"
  BY <1>1, <1>2, AnsweredIs
<1>6. SendTyped'
  BY <1>1, <1>2, <1>4, <1>5 DEF SendTyped
<1>7. \A k \in Contacts :
        \/ row'[k] = row[k]
        \/ /\ row[k].status = "pending" /\ row'[k].status = "queued" /\ row'[k] \in RowType
           /\ row'[k].pool = row[k].pool /\ row'[k].org = row[k].org
  BY <1>1, <1>2, <1>3 DEF RowsTyped, RowType
<1>8. RowsTyped'
  <2>1. \A k \in Contacts : row'[k] \in RowType
    BY <1>1, <1>7 DEF RowsTyped
  <2> QED
    BY <1>2, <2>1 DEF RowsTyped
<1>9. RowsMarked
  BY <1>7 DEF RowsMarked, NoRow
<1>10. budget' \in LeftType
  BY <1>1, <1>2
<1> QED
  BY <1>2, <1>5, <1>6, <1>8, <1>9, <1>10, MarkingStepKeeps

LEMMA ClaimUnavailableKeeps ==
    ASSUME PoolsInv, ClaimUnavailable
    PROVE  PoolsWell'
<1>1. CampTyped /\ RowsTyped /\ SendTyped /\ budget \in LeftType /\ PipeWorks
  BY DEF PoolsInv, PoolsWell, PoolTypes
<1>2. /\ pipe.at = "claim" /\ pipe' = [Stopped("smtp") EXCEPT !.at = "ending"]
      /\ UNCHANGED <<masterVars, camp, audience, order, row, editor, bound, budget, fresh>>
      /\ UNCHANGED <<enabled, usage, cursor, turn, failures, scan, flight, due, delivered, passed>>
  BY DEF ClaimUnavailable, audienceVars, campVars
<1>3. pipe' \in PipeType /\ pipe'.at = "ending"
  <2>1. Stopped("smtp") \in PipeType
    BY <1>1, StoppedIs DEF SendTyped
  <2> QED
    BY <1>2, <2>1 DEF PipeType
<1>4. SendTyped'
  BY <1>1, <1>2, <1>3 DEF SendTyped
<1>5. PipeWorks'
  BY <1>1, <1>2, <1>3 DEF PipeWorks
<1>6. RowsTyped' /\ RowsMarked /\ budget' \in LeftType
  BY <1>1, <1>2, SameRowsMarked DEF RowsTyped
<1>7. camp' \in {"draft", "running", "paused", "deferred", "finished"}
  BY <1>1, <1>2 DEF CampTyped
<1> QED
  BY <1>2, <1>4, <1>5, <1>6, <1>7, MarkingStepKeeps

LEMMA PipeWakeKeeps ==
    ASSUME PoolsInv, PipeWake
    PROVE  PoolsWell'
<1>1. CampTyped /\ RowsTyped /\ SendTyped /\ budget \in LeftType /\ PipeWorks
  BY DEF PoolsInv, PoolsWell, PoolTypes
<1>2. /\ pipe.at = "waiting"
      /\ \/ pipe' = [pipe EXCEPT !.at = "open", !.progress = FALSE]
         \/ pipe' = [pipe EXCEPT !.at = "ending"]
      /\ UNCHANGED <<masterVars, camp, audience, order, row, editor, bound, budget, fresh>>
      /\ UNCHANGED <<enabled, usage, cursor, turn, failures, scan, flight, due, delivered, passed>>
  BY DEF PipeWake, audienceVars, campVars
<1>3. /\ pipe' \in PipeType /\ pipe'.at \in {"open", "ending"}
      /\ pipe'.stop = pipe.stop /\ pipe'.deferred = pipe.deferred
  BY <1>1, <1>2 DEF SendTyped, PipeType
<1>4. SendTyped'
  BY <1>1, <1>2, <1>3 DEF SendTyped
<1>5. PipeWorks'
  BY <1>1, <1>2, <1>3 DEF PipeWorks
<1>6. RowsTyped' /\ RowsMarked /\ budget' \in LeftType
  BY <1>1, <1>2, SameRowsMarked DEF RowsTyped
<1>7. camp' \in {"draft", "running", "paused", "deferred", "finished"}
  BY <1>1, <1>2 DEF CampTyped
<1> QED
  BY <1>2, <1>4, <1>5, <1>6, <1>7, MarkingStepKeeps

LEMMA CleanupKeeps ==
    ASSUME PoolsInv, Cleanup
    PROVE  PoolsWell'
<1> DEFINE released == pipe.stop # "none" \/ pipe.deferred
<1>1. CampTyped /\ RowsTyped /\ SendTyped /\ budget \in LeftType /\ PipeWorks
  BY DEF PoolsInv, PoolsWell, PoolTypes
<1>2. /\ pipe' = NoPipe
      /\ row' = [k \in Contacts |-> IF released /\ row[k].status = "queued"
                                    THEN [row[k] EXCEPT !.status = "pending"] ELSE row[k]]
      /\ camp' = IF camp # "running" THEN camp
                 ELSE IF pipe.stop = "smtp" THEN "paused"
                 ELSE IF ~released THEN "finished" ELSE camp
      /\ fresh' = IF released /\ QueuedRows # {} THEN {} ELSE fresh
      /\ UNCHANGED <<masterVars, audience, order, editor, bound, budget>>
      /\ UNCHANGED <<enabled, usage, cursor, turn, failures, scan, flight, due, delivered, passed>>
  BY DEF Cleanup
<1>3. SendTyped'
  BY <1>1, <1>2 DEF SendTyped, NoPipe, PipeType
<1>4. PipeWorks'
  BY <1>2 DEF PipeWorks, NoPipe
<1>5. \A k \in Contacts :
        \/ row'[k] = row[k]
        \/ /\ row[k].status = "queued" /\ row'[k].status = "pending" /\ row'[k] \in RowType
           /\ row'[k].pool = row[k].pool /\ row'[k].org = row[k].org
           /\ released
  BY <1>1, <1>2 DEF RowsTyped, RowType
<1>6. RowsTyped'
  <2>1. \A k \in Contacts : row'[k] \in RowType
    BY <1>1, <1>5 DEF RowsTyped
  <2> QED
    BY <1>2, <2>1 DEF RowsTyped
<1>7. RowsMarked
  <2>1. \A k \in Contacts : row[k].status = "queued" => k \in QueuedRows
    BY DEF QueuedRows
  <2> HIDE DEF released
  <2> QED
    BY <1>2, <1>5, <2>1 DEF RowsMarked, NoRow
<1>8. camp' \in {"draft", "running", "paused", "deferred", "finished"}
  BY <1>1, <1>2 DEF CampTyped
<1>9. (camp = "finished" => camp' = "finished") /\ (fresh' = {} \/ fresh' = fresh) /\ budget' \in LeftType
  BY <1>1, <1>2
<1> QED
  BY <1>2, <1>3, <1>4, <1>6, <1>7, <1>8, <1>9, MarkingStepKeeps

-----------------------------------------------------------------------------
(* The rotation. *)

\* Every organization is visited once in a turn.
LEMMA Rotation ==
    ASSUME NEW turns \in SetToSeqs(Members), Members # {}, turn \in Nat
    PROVE  /\ Len(turns) \in Nat /\ Len(turns) >= 1 /\ Len(turns) <= Cardinality(Orgs)
           /\ turns \in Seq(Orgs) /\ IsInjective(turns)
           /\ \A n \in Nat : At(turns, n) \in Members
           /\ \A x \in Members : \E i \in 0..(Len(turns) - 1) : At(turns, i) = x
           /\ \A i, j \in 0..(Len(turns) - 1) : At(turns, i) = At(turns, j) => i = j
<1> DEFINE L == Len(turns)
           t == turn % L
<1>1. IsFiniteSet(Members) /\ Members \subseteq Orgs /\ Cardinality(Members) <= Cardinality(Orgs)
  <2>1. Members \subseteq Orgs
    BY DEF Members
  <2> QED
    BY <2>1, OrgNumbers, FS_Subset
<1>2. /\ Cardinality(Members) \in Nat /\ L = Cardinality(Members)
      /\ turns \in [1..L -> Members] /\ turns \in Seq(Members) /\ IsInjective(turns)
      /\ \A x \in Members : \E m \in 1..L : turns[m] = x
  BY <1>1, SequenceOfAll
<1>3. L \in Nat /\ L >= 1
  BY <1>1, <1>2, FS_EmptySet
<1>4. turns \in Seq(Orgs)
  BY <1>1, <1>2
<1>5. t \in 0..(L - 1)
  BY <1>3, Quotient
<1>6. \A i \in Nat : (turn + i) % L = (t + i) % L
  <2> SUFFICES ASSUME NEW i \in Nat PROVE (turn + i) % L = ((turn % L) + i) % L
    OBVIOUS
  <2>1. L > 0
    BY <1>3
  <2> HIDE DEF L
  <2> QED
    BY <1>3, <2>1, RemainderAgain
<1> HIDE DEF L, t
<1>7. \A i \in 0..(L - 1) : (t + i) % L = IF t + i < L THEN t + i ELSE t + i - L
  <2> SUFFICES ASSUME NEW i \in 0..(L - 1)
               PROVE  (t + i) % L = IF t + i < L THEN t + i ELSE t + i - L
    OBVIOUS
  <2>1. CASE t + i < L
    <3>1. t + i \in 0..(L - 1)
      BY <1>3, <1>5, <2>1
    <3> QED
      BY <1>3, <2>1, <3>1, RemainderSmall
  <2>2. CASE ~(t + i < L)
    <3>1. t + i - L \in 0..(L - 1)
      BY <1>3, <1>5, <2>2
    <3>2. (L + (t + i - L)) % L = t + i - L
      BY <1>3, <3>1, RemainderSmall
    <3>3. L + (t + i - L) = t + i
      BY <1>3, <1>5
    <3> QED
      BY <2>2, <3>2, <3>3
  <2> QED
    BY <2>1, <2>2
<1>8. \A n \in Nat : At(turns, n) \in Members
  <2> SUFFICES ASSUME NEW n \in Nat PROVE At(turns, n) \in Members
    OBVIOUS
  <2>1. (turn + n) % L \in 0..(L - 1)
    BY <1>3, Quotient
  <2> QED
    BY <1>2, <1>3, <2>1 DEF At, L
<1>9. \A x \in Members : \E i \in 0..(L - 1) : At(turns, i) = x
  <2> SUFFICES ASSUME NEW x \in Members PROVE \E i \in 0..(L - 1) : At(turns, i) = x
    OBVIOUS
  <2>1. PICK m \in 1..L : turns[m] = x
    BY <1>2
  <2>2. PICK i \in 0..(L - 1) : (t + i) % L = m - 1
    <3>1. CASE m - 1 >= t
      <4>1. m - 1 - t \in 0..(L - 1) /\ t + (m - 1 - t) < L /\ t + (m - 1 - t) = m - 1
        BY <1>3, <1>5, <3>1
      <4> QED
        BY <1>7, <4>1
    <3>2. CASE ~(m - 1 >= t)
      <4>1. /\ m - 1 - t + L \in 0..(L - 1) /\ ~(t + (m - 1 - t + L) < L)
            /\ t + (m - 1 - t + L) - L = m - 1
        BY <1>3, <1>5, <3>2
      <4> QED
        BY <1>7, <4>1
    <3> QED
      BY <3>1, <3>2
  <2>3. (turn + i) % L = m - 1
    BY <1>6, <2>2
  <2>4. At(turns, i) = turns[m]
    BY <1>3, <2>3 DEF At, L
  <2> QED
    BY <2>1, <2>4
<1>10. \A i, j \in 0..(L - 1) : At(turns, i) = At(turns, j) => i = j
  <2> SUFFICES ASSUME NEW i \in 0..(L - 1), NEW j \in 0..(L - 1), At(turns, i) = At(turns, j)
               PROVE  i = j
    OBVIOUS
  <2> DEFINE a == (turn + i) % L
             b == (turn + j) % L
  <2>1. a \in 0..(L - 1) /\ b \in 0..(L - 1)
    BY <1>3, Quotient
  <2>2. turns[a + 1] = turns[b + 1]
    BY DEF At, L
  <2> HIDE DEF a, b
  <2>3. a + 1 \in DOMAIN turns /\ b + 1 \in DOMAIN turns
    <3>1. DOMAIN turns = 1..L
      BY <1>2
    <3> QED
      BY <1>3, <2>1, <3>1
  <2>4. a = b
    <3>1. a + 1 = b + 1
      BY <1>2, <2>2, <2>3 DEF IsInjective
    <3> QED
      BY <1>3, <2>1, <3>1
  <2>5. a = (IF t + i < L THEN t + i ELSE t + i - L) /\ b = (IF t + j < L THEN t + j ELSE t + j - L)
    BY <1>6, <1>7 DEF a, b
  <2>6. a \in {t + i, t + i - L} /\ b \in {t + j, t + j - L}
    BY <2>5
  <2>7. t + i \in {t + j, t + j - L, t + j + L}
    BY <1>3, <1>5, <2>4, <2>6
  <2> QED
    BY <1>3, <1>5, <2>7
<1> QED
  BY <1>1, <1>2, <1>3, <1>4, <1>8, <1>9, <1>10 DEF L

\* Where the next batch finds the organizations, when this one made v visits.
LEMMA RotationNext ==
    ASSUME NEW turns \in SetToSeqs(Members), Members # {}, turn \in Nat,
           NEW v \in 0..Len(turns), NEW i \in 0..(Len(turns) - 1), NEW next,
           next = (turn + v) % Len(turns)
    PROVE  /\ v <= i => turns[((next + (i - v)) % Len(turns)) + 1] = At(turns, i)
           /\ i < v => turns[((next + (i + Len(turns) - v)) % Len(turns)) + 1] = At(turns, i)
<1> DEFINE L == Len(turns)
<1>1. L \in Nat /\ L >= 1
  BY Rotation
<1>2. \A n \in Nat : (next + n) % L = (turn + v + n) % L
  <2> SUFFICES ASSUME NEW n \in Nat PROVE (((turn + v) % L) + n) % L = ((turn + v) + n) % L
    BY <1>1
  <2>1. L > 0 /\ turn + v \in Nat
    BY <1>1
  <2> HIDE DEF L
  <2> QED
    BY <1>1, <2>1, RemainderAgain
<1>3. CASE v <= i
  <2>1. i - v \in Nat /\ turn + v + (i - v) = turn + i
    BY <1>1, <1>3
  <2>2. (next + (i - v)) % L = (turn + i) % L
    BY <1>2, <2>1
  <2> QED
    BY <1>1, <1>3, <2>2 DEF At
<1>4. CASE i < v
  <2>1. i + L - v \in Nat /\ turn + v + (i + L - v) = (turn + i) + L /\ turn + i \in Nat
    BY <1>1, <1>4
  <2>2. (next + (i + L - v)) % L = ((turn + i) + L) % L
    BY <1>2, <2>1
  <2>3. ((turn + i) + L) % L = (turn + i) % L
    <3> DEFINE q == (turn + i) \div L
               r == (turn + i) % L
    <3>1. q \in Int /\ r \in 0..(L - 1) /\ turn + i = L * q + r
      BY <1>1, <2>1, Quotient
    <3>2. (turn + i) + L = L * (q + 1) + r /\ q + 1 \in Int /\ (turn + i) + L >= 0
      BY <1>1, <2>1, <3>1
    <3>a. L > 0 /\ L * (q + 1) + r >= 0
      BY <1>1, <3>2
    <3> HIDE DEF q, r, L
    <3>3. (L * (q + 1) + r) % L = r
      BY <1>1, <3>a, <3>1, <3>2, Remainder
    <3> QED
      BY <3>2, <3>3 DEF r
  <2>4. (next + (i + L - v)) % L = (turn + i) % L
    BY <2>2, <2>3
  <2>5. turns[((next + (i + L - v)) % L) + 1] = At(turns, i)
    BY <2>4 DEF At
  <2> QED
    BY <1>1, <1>4, <2>5
<1> QED
  BY <1>1, <1>3, <1>4

\* A batch that serves nobody made a full turn.
LEMMA VisitsAre ==
    ASSUME NEW turns, Len(turns) \in Nat, pipe.limit \in Nat, pipe.limit >= 1
    PROVE  Visits(turns) \in 0..Len(turns) /\ (ServedVisits(turns) = {} => Visits(turns) = Len(turns))
<1> DEFINE Full(n) == Cardinality({i \in 0..(n - 1) : Serves(At(turns, i))}) >= pipe.limit
           S == {n \in 0..Len(turns) : n = Len(turns) \/ Full(n)}
<1>1. S \in SUBSET Nat /\ Len(turns) \in S
  OBVIOUS
<1>2. IsFiniteSet(S)
  <2>1. IsFiniteSet(0..Len(turns)) /\ S \subseteq 0..Len(turns)
    BY FS_Interval
  <2> QED
    BY <2>1, FS_Subset
<1>3. Visits(turns) \in S
  <2>1. Visits(turns) = Min(S)
    BY DEF Visits
  <2> HIDE DEF S
  <2> QED
    BY <1>1, <1>2, <2>1, MinIs
<1>4. ServedVisits(turns) = {} => ~Full(Visits(turns))
  <2>1. ServedVisits(turns) = {} =>
            Cardinality({i \in 0..(Visits(turns) - 1) : Serves(At(turns, i))}) = 0
    BY FS_EmptySet DEF ServedVisits
  <2> QED
    BY <2>1
<1> QED
  BY <1>3, <1>4

\* A recipient goes without a server only when none has quota left.
LEMMA PickedServer ==
    ASSUME SendTyped, NEW c
    PROVE  \/ PickServer(c) = NoServer /\ \A s : ~HasQuota(s)
           \/ PickServer(c) \in Servers /\ HasQuota(PickServer(c))
<1> DEFINE ready == {s \in enabled : HasQuota(s)}
           after == {s \in ready : c \in enabled /\ s > c}
<1>1. ready \in SUBSET Nat /\ IsFiniteSet(ready) /\ ready \subseteq Servers
  <2>1. ready \subseteq Servers
    BY DEF SendTyped
  <2> QED
    BY <2>1, AllocatorAssumption, FS_Subset
<1>2. after \in SUBSET Nat /\ IsFiniteSet(after) /\ after \subseteq ready
  BY <1>1, FS_Subset
<1>3. PickServer(c) = IF ready = {} THEN NoServer ELSE IF after # {} THEN Min(after) ELSE Min(ready)
  BY DEF PickServer
<1>4. \A s \in ready : HasQuota(s)
  OBVIOUS
<1>5. ready = {} => \A s : ~HasQuota(s)
  BY DEF HasQuota
<1> HIDE DEF ready, after
<1>6. (ready # {} => Min(ready) \in ready) /\ (after # {} => Min(after) \in ready)
  BY <1>1, <1>2, MinIs
<1> QED
  BY <1>1, <1>3, <1>4, <1>5, <1>6

LEMMA ServerIs ==
    ASSUME SendTyped, NEW o
    PROVE  \/ ServerOf(o) = NoServer /\ \A s : ~HasQuota(s)
           \/ ServerOf(o) \in Servers /\ HasQuota(ServerOf(o))
<1>1. \A s : HasQuota(s) => s \in Servers
  BY DEF HasQuota, SendTyped
<1>2. CASE HasQuota(row[FirstOf(o)].sender)
  BY <1>1, <1>2 DEF ServerOf, Sender
<1>3. CASE ~HasQuota(row[FirstOf(o)].sender)
  <2>1. ServerOf(o) = PickServer(cursor[o])
    BY <1>3 DEF ServerOf, Sender
  <2> QED
    BY <2>1, PickedServer
<1> QED
  BY <1>2, <1>3

\* What a batch counts.
LEMMA PassedIs ==
    ASSUME SendTyped, NEW turns, NEW visits, NEW x \in Orgs, NEW y \in Orgs
    PROVE  LET old == IF turns = order /\ x \notin {At(turns, i) : i \in visits}
                      THEN passed[x][y] ELSE 0
               since == \E i \in visits : At(turns, i) = y /\ \A j \in visits : At(turns, j) = x => j < i
               now == Passed(turns, visits)[x][y]
           IN  /\ old \in Nat /\ now \in Nat
               /\ now > 0 => /\ x \in Members /\ (visits = {} \/ ReadyOf(x) # {})
                             /\ since => now = old + 1
                             /\ ~since => now = old
<1> DEFINE served == {At(turns, i) : i \in visits}
           claimed == {FirstOf(o) : o \in served}
           old == IF turns = order /\ x \notin served THEN passed[x][y] ELSE 0
           since == \E i \in visits : At(turns, i) = y /\ \A j \in visits : At(turns, j) = x => j < i
           now == Passed(turns, visits)[x][y]
<1>1. now = IF x \notin Members \/ (visits # {} /\ ReadyOf(x) \subseteq claimed) THEN 0
            ELSE old + (IF since THEN 1 ELSE 0)
  BY DEF Passed
<1>2. old \in Nat
  BY DEF SendTyped
<1>3. ReadyOf(x) = {} => ReadyOf(x) \subseteq claimed
  OBVIOUS
<1> HIDE DEF now, old, since, claimed
<1>4. /\ now \in Nat
      /\ now > 0 => /\ x \in Members /\ (visits = {} \/ ReadyOf(x) # {})
                    /\ since => now = old + 1
                    /\ ~since => now = old
  BY <1>1, <1>2, <1>3
<1> QED
  BY <1>2, <1>4 DEF now, old, since

LEMMA PassedTyped ==
    ASSUME SendTyped, NEW turns, NEW visits
    PROVE  Passed(turns, visits) \in [Orgs -> [Orgs -> Nat]]
<1> DEFINE served == {At(turns, i) : i \in visits}
           claimed == {FirstOf(o) : o \in served}
           ServedSince(x, y) ==
                \E i \in visits : At(turns, i) = y /\ \A j \in visits : At(turns, j) = x => j < i
           now(x, y) == IF x \notin Members \/ (visits # {} /\ ReadyOf(x) \subseteq claimed) THEN 0
                        ELSE (IF turns = order /\ x \notin served THEN passed[x][y] ELSE 0)
                           + (IF ServedSince(x, y) THEN 1 ELSE 0)
<1>1. Passed(turns, visits) = [x \in Orgs |-> [y \in Orgs |-> now(x, y)]]
  BY DEF Passed
<1>2. \A x, y \in Orgs : Passed(turns, visits)[x][y] \in Nat
  BY PassedIs
<1> HIDE DEF now
<1>3. \A x, y \in Orgs : now(x, y) \in Nat
  BY <1>1, <1>2
<1> QED
  BY <1>1, <1>3

\* A batch keeps the rotation fair.
LEMMA ClaimedFair ==
    ASSUME SendTyped, TurnsFair, pipe.limit >= 1, Members # {}, NEW turns \in SetToSeqs(Members),
           order' = turns, turn' = NextTurn(turns), passed' = Passed(turns, ServedVisits(turns))
    PROVE  TurnsFair' /\ turn' \in 0..Cardinality(Orgs)
<1> DEFINE L == Len(turns)
           v == Visits(turns)
           visits == ServedVisits(turns)
           Later(i) == turns[((turn' + i) % L) + 1]
<1>1. turn \in Nat /\ pipe.limit \in Nat
  <2>1. Cardinality(Orgs) \in Nat
    BY OrgNumbers, FS_CardinalityType
  <2> QED
    BY <2>1 DEF SendTyped, PipeType
<1>2. /\ L \in Nat /\ L >= 1 /\ L <= Cardinality(Orgs)
      /\ \A x \in Members : \E i \in 0..(L - 1) : At(turns, i) = x
      /\ \A i, j \in 0..(L - 1) : At(turns, i) = At(turns, j) => i = j
  BY <1>1, Rotation
<1>3. v \in 0..L /\ (visits = {} => v = L)
  BY <1>1, <1>2, VisitsAre
<1>4. visits = {i \in 0..(v - 1) : Serves(At(turns, i))}
  BY DEF ServedVisits
<1>5. turn' = (turn + v) % L /\ turn' \in 0..(L - 1)
  <2>1. turn' = (turn + v) % L
    BY DEF NextTurn
  <2>2. turn + v \in Nat /\ L > 0
    BY <1>1, <1>2, <1>3
  <2> HIDE DEF L, v
  <2>3. (turn + v) % L \in 0..(L - 1)
    BY <1>2, <2>2, Quotient
  <2> QED
    BY <2>1, <2>3
<1>6. \A i \in 0..(L - 1) :
        /\ v <= i => Later(i - v) = At(turns, i)
        /\ i < v => Later(i + L - v) = At(turns, i)
  BY <1>1, <1>3, <1>5, RotationNext
<1> HIDE DEF L, v, visits, Later
<1>7. ASSUME NEW x \in Orgs, NEW y \in Orgs, passed'[x][y] > 0
      PROVE  passed'[x][y] <= 1 /\ \E i, j \in 0..(L - 1) : i < j /\ Later(i) = x /\ Later(j) = y
  <2> DEFINE old == IF turns = order /\ x \notin {At(turns, i) : i \in visits} THEN passed[x][y] ELSE 0
             since == \E i \in visits : At(turns, i) = y /\ \A j \in visits : At(turns, j) = x => j < i
             now == passed'[x][y]
  <2>1. /\ old \in Nat /\ now \in Nat
        /\ x \in Members /\ (visits = {} \/ ReadyOf(x) # {})
        /\ since => now = old + 1
        /\ ~since => now = old
    BY <1>7, PassedIs DEF visits
  <2>2. old # 0 => /\ old = 1 /\ x \notin {At(turns, i) : i \in visits}
                   /\ \E i, j \in 0..(L - 1) : i < j /\ At(turns, i) = x /\ At(turns, j) = y
    <3> SUFFICES ASSUME old # 0
                 PROVE  /\ old = 1 /\ x \notin {At(turns, i) : i \in visits}
                        /\ \E i, j \in 0..(L - 1) : i < j /\ At(turns, i) = x /\ At(turns, j) = y
      OBVIOUS
    <3>1. turns = order /\ x \notin {At(turns, i) : i \in visits} /\ old = passed[x][y]
      OBVIOUS
    <3>2. old > 0 /\ order # << >>
      BY <1>2, <2>1, <3>1 DEF L
    <3> HIDE DEF old
    <3>3. passed[x][y] <= 1 /\ \E i, j \in 0..(Len(order) - 1) : i < j /\ At(order, i) = x /\ At(order, j) = y
      BY <3>1, <3>2 DEF TurnsFair
    <3> QED
      BY <2>1, <3>1, <3>2, <3>3 DEF L
  <2> HIDE DEF old, now
  <2>3. CASE visits = {}
    <3>1. v = L /\ now = old /\ old # 0
      BY <1>3, <1>7, <2>1, <2>3 DEF now
    <3>2. PICK i, j \in 0..(L - 1) : i < j /\ At(turns, i) = x /\ At(turns, j) = y
      BY <2>2, <3>1
    <3>3. Later(i) = x /\ Later(j) = y
      <4>1. i < v /\ j < v /\ i + L - v = i /\ j + L - v = j
        BY <1>2, <3>1
      <4> QED
        BY <1>6, <3>2, <4>1
    <3> QED
      BY <2>2, <3>1, <3>2, <3>3 DEF now
  <2>4. CASE visits # {}
    <3>1. PICK n \in 0..(L - 1) : At(turns, n) = x
      BY <1>2, <2>1
    <3>2. n < v => n \in visits
      <4>1. PICK i \in visits : TRUE
        BY <2>4
      <4>2. Serves(At(turns, i))
        BY <1>4, <4>1
      <4>3. ~\A s : ~HasQuota(s)
        BY <4>2, ServerIs DEF Serves
      <4>4. Serves(x)
        <5>1. ServerOf(x) \in Servers
          BY <4>3, ServerIs
        <5> QED
          BY <2>1, <2>4, <5>1, AudienceAssumption DEF Serves
      <4> QED
        BY <1>2, <1>3, <1>4, <3>1, <4>4
    <3>3. CASE n < v
      <4>1. n \in visits /\ old = 0 /\ since
        BY <1>7, <2>1, <2>2, <3>1, <3>2, <3>3 DEF now
      <4>2. now = 1
        BY <2>1, <4>1
      <4>3. PICK i \in visits : At(turns, i) = y /\ n < i
        BY <3>1, <4>1
      <4>4. i \in 0..(L - 1) /\ i < v
        BY <1>2, <1>3, <1>4, <4>3
      <4>5. Later(n + L - v) = x /\ Later(i + L - v) = y
        BY <1>6, <3>1, <3>3, <4>3, <4>4
      <4>6. n + L - v \in 0..(L - 1) /\ i + L - v \in 0..(L - 1) /\ n + L - v < i + L - v
        BY <1>2, <1>3, <3>3, <4>3, <4>4
      <4> QED
        BY <4>2, <4>5, <4>6 DEF now
    <3>4. CASE ~(n < v)
      <4>1. v <= n /\ n - v \in 0..(L - 1) /\ Later(n - v) = x
        <5>1. v <= n /\ n - v \in 0..(L - 1)
          BY <1>2, <1>3, <3>4
        <5> QED
          BY <1>6, <3>1, <5>1
      <4>2. CASE since
        <5>1. PICK i \in visits : At(turns, i) = y
          BY <4>2
        <5>2. i \in 0..(L - 1) /\ i < v
          BY <1>2, <1>3, <1>4, <5>1
        <5>3. old = 0
          <6> SUFFICES ASSUME old # 0 PROVE FALSE
            OBVIOUS
          <6>1. PICK a, b \in 0..(L - 1) : a < b /\ At(turns, a) = x /\ At(turns, b) = y
            BY <2>2
          <6>2. a = n /\ b = i
            BY <1>2, <3>1, <5>1, <5>2, <6>1
          <6> QED
            BY <1>2, <1>3, <3>4, <5>2, <6>1, <6>2
        <5>4. now = 1
          BY <2>1, <4>2, <5>3
        <5>5. Later(i + L - v) = y
          BY <1>6, <5>1, <5>2
        <5>6. i + L - v \in 0..(L - 1) /\ n - v < i + L - v
          BY <1>2, <1>3, <4>1, <5>2
        <5> QED
          BY <4>1, <5>4, <5>5, <5>6 DEF now
      <4>3. CASE ~since
        <5>1. now = old /\ old # 0
          BY <1>7, <2>1, <4>3 DEF now
        <5>2. PICK a, b \in 0..(L - 1) : a < b /\ At(turns, a) = x /\ At(turns, b) = y
          BY <2>2, <5>1
        <5>3. a = n
          BY <1>2, <3>1, <5>2
        <5>4. v <= b /\ b - v \in 0..(L - 1) /\ n - v < b - v
          BY <1>2, <1>3, <4>1, <5>2, <5>3
        <5>5. Later(b - v) = y
          BY <1>6, <5>2, <5>4
        <5> QED
          BY <2>2, <4>1, <5>1, <5>4, <5>5 DEF now
      <4> QED
        BY <4>2, <4>3
    <3> QED
      BY <3>3, <3>4
  <2> QED
    BY <2>3, <2>4
<1>8. turn' \in 0..Cardinality(Orgs)
  <2>1. Cardinality(Orgs) \in Nat
    BY OrgNumbers, FS_CardinalityType
  <2> QED
    BY <1>2, <1>5, <2>1
<1>9. \A i : At(order, i)' = Later(i)
  BY DEF At, Later, L
<1>10. \A x, y \in Orgs : passed'[x][y] <= 1
  <2> SUFFICES ASSUME NEW x \in Orgs, NEW y \in Orgs PROVE passed'[x][y] <= 1
    OBVIOUS
  <2>1. passed'[x][y] \in Nat
    BY PassedIs
  <2>2. CASE passed'[x][y] > 0
    BY <1>7, <2>2
  <2>3. CASE ~(passed'[x][y] > 0)
    BY <2>1, <2>3
  <2> QED
    BY <2>2, <2>3
<1>11. TurnsFair'
  <2>1. Len(order') = L
    BY DEF L
  <2> QED
    BY <1>5, <1>7, <1>9, <1>10, <2>1 DEF TurnsFair
<1> QED
  BY <1>8, <1>11

LEMMA ClaimAllKeeps ==
    ASSUME PoolsInv, ClaimAll
    PROVE  PoolsWell'
<1>1. /\ MastersTyped /\ CampTyped /\ RowsTyped /\ SendTyped /\ budget \in LeftType
      /\ RowsPlaced /\ RowsRefreshed /\ RemovedExcluded /\ EditorReads /\ PipeWorks /\ TurnsFair
  BY DEF PoolsInv, PoolsWell, PoolTypes
<1>2. PICK turns \in Orders :
        LET visits == ServedVisits(turns)
            served == {At(turns, i) : i \in visits}
            taken == {FirstOf(o) : o \in served}
            noServer == \E i \in 0..(Visits(turns) - 1) :
                            ReadyOf(At(turns, i)) # {} /\ ServerOf(At(turns, i)) = NoServer
        IN  /\ order' = turns
            /\ turn' = NextTurn(turns)
            /\ passed' = Passed(turns, visits)
            /\ cursor' = [o \in Orgs |->
                    IF o \in served /\ row[FirstOf(o)].sender # ServerOf(o)
                    THEN ServerOf(o) ELSE cursor[o]]
            /\ row' = [k \in Contacts |->
                    IF k \in taken
                    THEN [row[k] EXCEPT !.status = "queued", !.sender = ServerOf(row[k].org)]
                    ELSE row[k]]
            /\ Answered({<<k, ServerOf(row[k].org), "queued", Attempt(k)>> : k \in taken}, noServer)
  BY DEF ClaimAll
<1> DEFINE visits == ServedVisits(turns)
           served == {At(turns, i) : i \in visits}
           taken == {FirstOf(o) : o \in served}
           noServer == \E i \in 0..(Visits(turns) - 1) :
                            ReadyOf(At(turns, i)) # {} /\ ServerOf(At(turns, i)) = NoServer
           messages == {<<k, ServerOf(row[k].org), "queued", Attempt(k)>> : k \in taken}
<1>3. /\ order' = turns /\ turn' = NextTurn(turns) /\ passed' = Passed(turns, visits)
      /\ cursor' = [o \in Orgs |-> IF o \in served /\ row[FirstOf(o)].sender # ServerOf(o)
                                   THEN ServerOf(o) ELSE cursor[o]]
      /\ row' = [k \in Contacts |-> IF k \in taken
                    THEN [row[k] EXCEPT !.status = "queued", !.sender = ServerOf(row[k].org)]
                    ELSE row[k]]
      /\ Answered(messages, noServer)
  BY <1>2
<1>4. /\ pipe.at = "claim" /\ Members # {}
      /\ UNCHANGED <<masterVars, audience, editor, bound, budget, fresh>>
      /\ UNCHANGED <<enabled, usage, failures, scan, delivered>>
  BY DEF ClaimAll
<1>5. turns \in SetToSeqs(Members) /\ pipe.limit >= 1 /\ turn \in Nat
  <2>1. Cardinality(Orgs) \in Nat
    BY OrgNumbers, FS_CardinalityType
  <2> QED
    BY <1>1, <1>4, <2>1 DEF Orders, PipeWorks, SendTyped
<1>6. \A k \in taken : k \in Contacts /\ row[k].status = "pending"
  <2> SUFFICES ASSUME NEW i \in visits
               PROVE  LET k == FirstOf(At(turns, i)) IN k \in Contacts /\ row[k].status = "pending"
    OBVIOUS
  <2> DEFINE R == ReadyOf(At(turns, i))
  <2>1. R # {}
    BY DEF ServedVisits, Serves
  <2>2. R \subseteq Contacts
    BY DEF ReadyOf, MayClaim
  <2>3. R \in SUBSET Nat /\ IsFiniteSet(R)
    BY <2>2, AudienceAssumption, FS_Subset
  <2> HIDE DEF R
  <2>4. Min(R) \in R
    BY <2>1, <2>3, MinIs
  <2> QED
    BY <2>4 DEF R, FirstOf, ReadyOf, MayClaim
<1>7. \A o : ServerOf(o) \in Servers \cup {NoServer}
  BY <1>1, ServerIs
<1> HIDE DEF visits, served, taken, noServer, messages
<1>8. messages \subseteq FlightType
  BY <1>6, <1>7, AttemptTyped DEF messages, FlightType
<1>9. /\ flight' = flight \cup messages
      /\ pipe' \in PipeType /\ due' \in BOOLEAN /\ PipeWorks'
      /\ camp' \in {"draft", "running", "paused", "deferred", "finished"}
      /\ camp = "finished" => camp' = "finished"
  <2>1. noServer \in BOOLEAN
    BY DEF noServer
  <2> QED
    BY <1>1, <1>3, <1>4, <2>1, AnsweredIs
<1>10. cursor' \in [Orgs -> Servers \cup {NoServer}]
  BY <1>1, <1>3, <1>7 DEF SendTyped
<1>11. TurnsFair' /\ turn' \in 0..Cardinality(Orgs)
  BY <1>1, <1>3, <1>4, <1>5, ClaimedFair DEF visits
<1>12. passed' \in [Orgs -> [Orgs -> Nat]]
  BY <1>1, <1>3, PassedTyped
<1>13. SendTyped'
  BY <1>1, <1>4, <1>8, <1>9, <1>10, <1>11, <1>12 DEF SendTyped
<1>14. \A k \in Contacts :
        \/ row'[k] = row[k]
        \/ /\ row[k].status = "pending" /\ row'[k].status = "queued" /\ row'[k] \in RowType
           /\ row'[k].pool = row[k].pool /\ row'[k].org = row[k].org
  <2> SUFFICES ASSUME NEW k \in taken
               PROVE  /\ row[k].status = "pending" /\ row'[k].status = "queued" /\ row'[k] \in RowType
                      /\ row'[k].pool = row[k].pool /\ row'[k].org = row[k].org
    BY <1>3
  <2>1. row[k] \in RowType /\ ServerOf(row[k].org) \in Servers \cup {NoServer}
    BY <1>1, <1>6, <1>7 DEF RowsTyped
  <2>2. row'[k] = [row[k] EXCEPT !.status = "queued", !.sender = ServerOf(row[k].org)]
    BY <1>3, <1>6
  <2> QED
    BY <1>6, <2>1, <2>2 DEF RowType
<1>15. RowsTyped'
  <2>1. \A k \in Contacts : row'[k] \in RowType
    BY <1>1, <1>14 DEF RowsTyped
  <2> QED
    BY <1>3, <2>1 DEF RowsTyped
<1>16. RowsMarked
  BY <1>14 DEF RowsMarked, NoRow
<1>17. CampTyped' /\ budget' \in LeftType
  <2>1. order' \in Seq(Orgs) /\ IsInjective(order')
    BY <1>3, <1>4, <1>5, Rotation
  <2> QED
    BY <1>1, <1>4, <1>9, <2>1 DEF CampTyped
<1>18. MastersTyped' /\ RemovedExcluded' /\ RowsPlaced' /\ RowsRefreshed' /\ EditorReads'
  BY <1>4, <1>9, <1>15, <1>16, MarksKeep
<1> QED
  BY <1>9, <1>11, <1>13, <1>15, <1>17, <1>18 DEF PoolsInv, PoolsWell, PoolTypes

LEMMA PipeStepKeeps ==
    ASSUME PoolsInv, Scanner \/ Pipe
    PROVE  PoolsWell'
BY ScanSelectKeeps, ScanRefreshKeeps, ScanLoadKeeps, ScanSkipKeeps, PipeReadKeeps, ClaimOwnKeeps,
   ClaimAllKeeps, ClaimUnavailableKeeps, PipeWakeKeeps, CleanupKeeps DEF Scanner, Pipe

-----------------------------------------------------------------------------
(* Workers. *)

\* A worker sets the status of one row.
LEMMA RowMarkedAs ==
    ASSUME RowsTyped, NEW k \in Contacts,
           NEW status \in {"none", "pending", "queued", "sent", "failed", "cancelled"},
           row' = [row EXCEPT ![k].status = status],
           row[k].status = "none" <=> status = "none",
           status = "pending" => row[k].status = "pending" \/ fresh' = {},
           status = "queued" => row[k].status = "queued"
    PROVE  /\ RowsTyped' /\ RowsMarked /\ (QueuedRows = {} => QueuedRows' = {})
           /\ \A x \in Contacts : x # k => row'[x] = row[x]
           /\ row'[k].status = status /\ row'[k].pool = row[k].pool /\ row'[k].org = row[k].org
           /\ row'[k].sender = row[k].sender
<1>1. row[k] \in RowType
  BY DEF RowsTyped
<1>2. row'[k] = [row[k] EXCEPT !.status = status] /\ \A x \in Contacts : x # k => row'[x] = row[x]
  BY DEF RowsTyped
<1>3. /\ row'[k] \in RowType /\ row'[k].status = status /\ row'[k].pool = row[k].pool
      /\ row'[k].org = row[k].org /\ row'[k].sender = row[k].sender
  BY <1>1, <1>2 DEF RowType
<1>4. RowsTyped'
  BY <1>2, <1>3 DEF RowsTyped
<1>5. row[k] = NoRow => row'[k] = NoRow
  BY <1>2 DEF NoRow
<1>6. RowsMarked
  BY <1>2, <1>3, <1>5 DEF RowsMarked
<1>7. QueuedRows' \subseteq QueuedRows
  BY <1>2, <1>3 DEF QueuedRows
<1> QED
  BY <1>2, <1>3, <1>4, <1>6, <1>7

LEMMA DoneIs ==
    ASSUME NEW p \in PipeType
    PROVE  /\ Done(p) \in PipeType
           /\ Done(p).at = p.at /\ Done(p).stop = p.stop /\ Done(p).deferred = p.deferred
           /\ Done(p).queued = p.queued /\ Done(p).limit = p.limit
BY DEF Done, PipeType

\* A worker leaves the pipe as it is, or stops it.
LEMMA PipeLeft ==
    ASSUME PipeWorks, scan' = scan, pipe'.at = pipe.at, pipe'.queued = pipe.queued,
           pipe'.limit = pipe.limit, QueuedRows = {} => QueuedRows' = {},
           pipe.at # "none" /\ pipe'.stop = "none" =>
                pipe.stop = "none" /\ pipe'.deferred = pipe.deferred /\ camp' = camp
    PROVE  PipeWorks'
BY DEF PipeWorks

LEMMA WorkerStepKeeps ==
    ASSUME PoolsInv, SendUnchanged, RowsTyped', RowsMarked, fresh' = {} \/ fresh' = fresh,
           camp = "finished" => camp' = "finished",
           camp' \in {"draft", "running", "paused", "deferred", "finished"},
           (budget \in LeftType)', pipe' \in PipeType, usage' \in [Servers -> Nat],
           failures' \in [Contacts -> Nat], flight' \subseteq FlightType, due' \in BOOLEAN,
           delivered' \in [Contacts -> Nat], PipeWorks'
    PROVE  PoolsWell'
<1>1. SendTyped
  BY DEF PoolsInv, PoolsWell, PoolTypes
<1>2. UNCHANGED <<masterVars, audience, order, editor, bound, cursor, turn, scan, passed, enabled>>
  BY DEF SendUnchanged
<1>3. SendTyped'
  BY <1>1, <1>2 DEF SendTyped
<1> QED
  BY <1>2, <1>3, MarkingStepKeeps

LEMMA RecordedIs ==
    ASSUME RowsTyped, SendTyped, NEW k \in Contacts, Recorded(k)
    PROVE  /\ RowsTyped' /\ RowsMarked /\ (QueuedRows = {} => QueuedRows' = {})
           /\ failures' = [failures EXCEPT ![k] = @ + 1] /\ failures' \in [Contacts -> Nat]
           /\ \A x \in Contacts : x # k => row'[x] = row[x]
           /\ row'[k].status \in {row[k].status, "failed"}
           /\ row'[k].pool = row[k].pool /\ row'[k].org = row[k].org /\ row'[k].sender = row[k].sender
<1> DEFINE status == IF row[k].status \in {"pending", "queued"} /\ failures'[k] > MaxRetries
                     THEN "failed" ELSE row[k].status
<1>1. /\ failures' = [failures EXCEPT ![k] = @ + 1]
      /\ row' = [row EXCEPT ![k].status = status]
  BY DEF Recorded
<1>2. failures' \in [Contacts -> Nat]
  BY <1>1 DEF SendTyped
<1>3. status \in {"none", "pending", "queued", "sent", "failed", "cancelled"}
  BY DEF RowsTyped, RowType
<1>4. /\ row[k].status = "none" <=> status = "none"
      /\ status = "pending" => row[k].status = "pending"
      /\ status = "queued" => row[k].status = "queued"
      /\ status \in {row[k].status, "failed"}
  OBVIOUS
<1> HIDE DEF status
<1> QED
  BY <1>1, <1>2, <1>3, <1>4, RowMarkedAs

LEMMA DropKeeps ==
    ASSUME PoolsInv, NEW k \in Contacts, NEW s, NEW n, DropMessage(k, s, n)
    PROVE  PoolsWell'
<1>1. CampTyped /\ RowsTyped /\ SendTyped /\ budget \in LeftType /\ PipeWorks
  BY DEF PoolsInv, PoolsWell, PoolTypes
<1>2. /\ flight' = flight \ {<<k, s, "queued", n>>} /\ pipe' = Done(pipe)
      /\ SendUnchanged /\ UNCHANGED <<camp, row, budget, fresh, usage, failures, due, delivered>>
  BY DEF DropMessage
<1>3. /\ pipe' \in PipeType /\ pipe'.at = pipe.at /\ pipe'.stop = pipe.stop
      /\ pipe'.deferred = pipe.deferred /\ pipe'.queued = pipe.queued /\ pipe'.limit = pipe.limit
  BY <1>1, <1>2, DoneIs DEF SendTyped
<1>4. RowsTyped' /\ RowsMarked /\ budget' \in LeftType
  BY <1>1, <1>2, SameRowsMarked DEF RowsTyped
<1>5. PipeWorks'
  BY <1>1, <1>2, <1>3, SameQueued, PipeLeft DEF SendUnchanged
<1> QED
  BY <1>1, <1>2, <1>3, <1>4, <1>5, WorkerStepKeeps DEF SendTyped, CampTyped

LEMMA RouteClosedKeeps ==
    ASSUME PoolsInv, NEW k \in Contacts, NEW s, NEW n, RouteClosed(k, s, n) \/ ServerGone(k, s, n)
    PROVE  PoolsWell'
<1>1. CampTyped /\ RowsTyped /\ SendTyped /\ budget \in LeftType /\ PipeWorks
  BY DEF PoolsInv, PoolsWell, PoolTypes
<1>2. PICK reason \in {"pause", "smtp"} : pipe' = Done(Stopped(reason))
  BY DEF RouteClosed, ServerGone
<1>3. /\ flight' = flight \ {<<k, s, "queued", n>>} /\ Recorded(k)
      /\ SendUnchanged /\ UNCHANGED <<camp, budget, fresh, usage, due, delivered>>
  BY DEF RouteClosed, ServerGone
<1>4. /\ Stopped(reason) \in PipeType
      /\ Stopped(reason).at = pipe.at /\ Stopped(reason).deferred = pipe.deferred
      /\ Stopped(reason).queued = pipe.queued /\ Stopped(reason).limit = pipe.limit
      /\ pipe.at # "none" => Stopped(reason).stop # "none"
  BY <1>1, StoppedIs DEF SendTyped
<1>5. /\ pipe' \in PipeType /\ pipe'.at = pipe.at /\ pipe'.queued = pipe.queued
      /\ pipe'.limit = pipe.limit /\ (pipe.at # "none" => pipe'.stop # "none")
  BY <1>2, <1>4, DoneIs
<1>6. /\ RowsTyped' /\ RowsMarked /\ (QueuedRows = {} => QueuedRows' = {})
      /\ failures' \in [Contacts -> Nat]
  BY <1>1, <1>3, RecordedIs
<1>7. PipeWorks'
  BY <1>1, <1>3, <1>5, <1>6, PipeLeft DEF SendUnchanged
<1> QED
  BY <1>1, <1>3, <1>5, <1>6, <1>7, WorkerStepKeeps DEF SendTyped, CampTyped

LEMMA QuotaSpentKeeps ==
    ASSUME PoolsInv, NEW k \in Contacts, NEW s, NEW n, QuotaSpent(k, s, n)
    PROVE  PoolsWell'
<1> DEFINE defers == ~pipe.deferred /\ camp = "running"
           put == IF defers \/ pipe.deferred THEN [Stopped("deferred") EXCEPT !.deferred = TRUE]
                  ELSE Stopped("pause")
<1>1. CampTyped /\ RowsTyped /\ SendTyped /\ budget \in LeftType /\ PipeWorks
  BY DEF PoolsInv, PoolsWell, PoolTypes
<1>2. /\ flight' = flight \ {<<k, s, "queued", n>>}
      /\ camp' = IF defers THEN "deferred" ELSE camp
      /\ due' = IF defers THEN FALSE ELSE due
      /\ pipe' = Done(put)
      /\ SendUnchanged /\ UNCHANGED <<row, budget, fresh, usage, failures, delivered>>
  BY DEF QuotaSpent
<1>3. \A reason \in {"pause", "deferred"} :
      /\ Stopped(reason) \in PipeType
      /\ Stopped(reason).at = pipe.at
      /\ Stopped(reason).queued = pipe.queued /\ Stopped(reason).limit = pipe.limit
      /\ pipe.at # "none" => Stopped(reason).stop # "none"
  BY <1>1, StoppedIs DEF SendTyped
<1>4. [Stopped("deferred") EXCEPT !.deferred = TRUE] \in PipeType
      /\ [Stopped("deferred") EXCEPT !.deferred = TRUE].at = pipe.at
      /\ [Stopped("deferred") EXCEPT !.deferred = TRUE].queued = pipe.queued
      /\ [Stopped("deferred") EXCEPT !.deferred = TRUE].limit = pipe.limit
      /\ (pipe.at # "none" => [Stopped("deferred") EXCEPT !.deferred = TRUE].stop # "none")
  <2> DEFINE d == Stopped("deferred")
  <2>1. d \in PipeType /\ d.at = pipe.at /\ d.queued = pipe.queued /\ d.limit = pipe.limit
        /\ (pipe.at # "none" => d.stop # "none")
    BY <1>3
  <2> HIDE DEF d
  <2>2. /\ [d EXCEPT !.deferred = TRUE] \in PipeType /\ [d EXCEPT !.deferred = TRUE].at = d.at
        /\ [d EXCEPT !.deferred = TRUE].queued = d.queued /\ [d EXCEPT !.deferred = TRUE].limit = d.limit
        /\ [d EXCEPT !.deferred = TRUE].stop = d.stop
    BY <2>1 DEF PipeType
  <2> QED
    BY <2>1, <2>2 DEF d
<1>5. /\ put \in PipeType /\ put.at = pipe.at /\ put.queued = pipe.queued
      /\ put.limit = pipe.limit /\ (pipe.at # "none" => put.stop # "none")
  BY <1>3, <1>4
<1> HIDE DEF defers, put
<1>6. /\ pipe' \in PipeType /\ pipe'.at = pipe.at /\ pipe'.queued = pipe.queued
      /\ pipe'.limit = pipe.limit /\ (pipe.at # "none" => pipe'.stop # "none")
  BY <1>2, <1>5, DoneIs
<1>7. RowsTyped' /\ RowsMarked /\ budget' \in LeftType
  BY <1>1, <1>2, SameRowsMarked DEF RowsTyped
<1>8. PipeWorks'
  BY <1>1, <1>2, <1>6, SameQueued, PipeLeft DEF SendUnchanged
<1>9. /\ camp' \in {"draft", "running", "paused", "deferred", "finished"}
      /\ camp = "finished" => camp' = "finished"
  BY <1>1, <1>2 DEF CampTyped, defers
<1>10. due' \in BOOLEAN
  BY <1>1, <1>2 DEF SendTyped
<1> QED
  BY <1>1, <1>2, <1>6, <1>7, <1>8, <1>9, <1>10, WorkerStepKeeps DEF SendTyped

LEMMA AcceptKeeps ==
    ASSUME PoolsInv, NEW k \in Contacts, NEW s \in Senders, NEW n, NEW t \in Servers, Accept(k, s, t, n)
    PROVE  PoolsWell'
<1>1. CampTyped /\ RowsTyped /\ SendTyped /\ budget \in LeftType /\ PipeWorks
  BY DEF PoolsInv, PoolsWell, PoolTypes
<1>2. /\ flight' = (flight \ {<<k, s, "queued", n>>}) \cup {<<k, s, "accepted", n>>}
      /\ <<k, s, "queued", n>> \in flight
      /\ usage' = [usage EXCEPT ![t] = @ + 1]
      /\ delivered' = [delivered EXCEPT ![k] = @ + 1]
      /\ SendUnchanged /\ UNCHANGED <<camp, row, budget, fresh, failures, pipe, due>>
  BY DEF Accept, MaySend, Sending
<1>3. usage' \in [Servers -> Nat] /\ delivered' \in [Contacts -> Nat] /\ flight' \subseteq FlightType
  BY <1>1, <1>2 DEF SendTyped, FlightType, Senders
<1>4. RowsTyped' /\ RowsMarked /\ budget' \in LeftType
  BY <1>1, <1>2, SameRowsMarked DEF RowsTyped
<1>5. PipeWorks'
  BY <1>1, <1>2, SameQueued, PipeKept DEF SendUnchanged
<1> QED
  BY <1>1, <1>2, <1>3, <1>4, <1>5, WorkerStepKeeps DEF SendTyped, CampTyped

LEMMA MarkSentKeeps ==
    ASSUME PoolsInv, NEW k \in Contacts, NEW s, NEW n, MarkSent(k, s, n)
    PROVE  PoolsWell'
<1> DEFINE status == IF row[k].status = "none" THEN row[k].status ELSE "sent"
<1>1. CampTyped /\ RowsTyped /\ SendTyped /\ budget \in LeftType /\ PipeWorks
  BY DEF PoolsInv, PoolsWell, PoolTypes
<1>2. /\ flight' = flight \ {<<k, s, "accepted", n>>}
      /\ row' = [row EXCEPT ![k].status = status]
      /\ pipe' = Done(pipe)
      /\ SendUnchanged /\ UNCHANGED <<camp, budget, fresh, usage, failures, due, delivered>>
  BY DEF MarkSent
<1>3. /\ status \in {"none", "pending", "queued", "sent", "failed", "cancelled"}
      /\ row[k].status = "none" <=> status = "none"
      /\ status # "pending" /\ status # "queued"
  OBVIOUS
<1> HIDE DEF status
<1>4. RowsTyped' /\ RowsMarked /\ (QueuedRows = {} => QueuedRows' = {})
  BY <1>1, <1>2, <1>3, RowMarkedAs
<1>5. /\ pipe' \in PipeType /\ pipe'.at = pipe.at /\ pipe'.stop = pipe.stop
      /\ pipe'.deferred = pipe.deferred /\ pipe'.queued = pipe.queued /\ pipe'.limit = pipe.limit
  BY <1>1, <1>2, DoneIs DEF SendTyped
<1>6. PipeWorks'
  BY <1>1, <1>2, <1>4, <1>5, PipeLeft DEF SendUnchanged
<1> QED
  BY <1>1, <1>2, <1>4, <1>5, <1>6, WorkerStepKeeps DEF SendTyped, CampTyped

LEMMA RefuseKeeps ==
    ASSUME PoolsInv, NEW k \in Contacts, NEW s, NEW n, Refuse(k, s, n)
    PROVE  PoolsWell'
<1> DEFINE status == IF row[k].status \in {"none", "sent", "failed"} THEN row[k].status
                     ELSE IF row[k].status # "cancelled" /\ failures'[k] > MaxRetries THEN "failed"
                     ELSE "pending"
<1>1. CampTyped /\ RowsTyped /\ SendTyped /\ budget \in LeftType /\ PipeWorks
  BY DEF PoolsInv, PoolsWell, PoolTypes
<1>2. /\ flight' = flight \ {<<k, s, "queued", n>>}
      /\ budget.refusals > 0 /\ budget' = [budget EXCEPT !.refusals = @ - 1]
      /\ failures' = [failures EXCEPT ![k] = @ + 1]
      /\ row' = [row EXCEPT ![k].status = status]
      /\ fresh' = {} /\ pipe' = Done(pipe)
      /\ SendUnchanged /\ UNCHANGED <<camp, usage, due, delivered>>
  BY DEF Refuse
<1>3. /\ status \in {"none", "pending", "queued", "sent", "failed", "cancelled"}
      /\ row[k].status = "none" <=> status = "none"
      /\ status # "queued"
  OBVIOUS
<1> HIDE DEF status
<1>4. RowsTyped' /\ RowsMarked /\ (QueuedRows = {} => QueuedRows' = {})
  BY <1>1, <1>2, <1>3, RowMarkedAs
<1>5. /\ pipe' \in PipeType /\ pipe'.at = pipe.at /\ pipe'.stop = pipe.stop
      /\ pipe'.deferred = pipe.deferred /\ pipe'.queued = pipe.queued /\ pipe'.limit = pipe.limit
  BY <1>1, <1>2, DoneIs DEF SendTyped
<1>6. PipeWorks'
  BY <1>1, <1>2, <1>4, <1>5, PipeLeft DEF SendUnchanged
<1>7. budget' \in LeftType
  BY <1>1, <1>2 DEF LeftType
<1>8. failures' \in [Contacts -> Nat]
  BY <1>1, <1>2 DEF SendTyped
<1> QED
  BY <1>1, <1>2, <1>4, <1>5, <1>6, <1>7, <1>8, WorkerStepKeeps DEF SendTyped, CampTyped

LEMMA WorkKeeps ==
    ASSUME PoolsInv, NEW k \in Contacts, NEW s \in Senders, Work(k, s)
    PROVE  PoolsWell'
BY DropKeeps, RouteClosedKeeps, QuotaSpentKeeps, AcceptKeeps, MarkSentKeeps, RefuseKeeps DEF Work

-----------------------------------------------------------------------------
(* The invariant. *)

LEMMA PoolsInitially ==
    ASSUME PoolInit
    PROVE  PoolsInv
<1>1. AudienceInit
  BY DEF PoolInit
<1>2. bound \in PoolBounds /\ bound.filled \subseteq Pools \X Orgs \X Contacts
  BY <1>1, AudienceAssumption DEF AudienceInit
<1>3. MastersTyped
  <2>1. \A m \in bound.filled : m[1] \in Pools /\ m[2] \in Orgs /\ m[3] \in Contacts
    BY <1>2
  <2> QED
    BY <1>1, <2>1, AudienceAssumption DEF AudienceInit, MastersTyped, MemberType
<1>4. CampTyped /\ RowsTyped /\ budget \in LeftType
  <2>1. << >> \in Seq(Orgs) /\ IsInjective(<< >>)
    BY DEF IsInjective
  <2>2. /\ bound.changes \in Nat /\ bound.controls \in Nat /\ bound.edits \in Nat
        /\ bound.refusals \in Nat /\ bound.days \in Nat
    BY <1>2, AudienceAssumption
  <2> QED
    BY <1>1, <2>1, <2>2 DEF AudienceInit, CampTyped, RowsTyped, RowType, NoRow, NoEdit, LeftType
<1>5. SendTyped
  <2>1. Cardinality(Orgs) \in Nat
    BY OrgNumbers, FS_CardinalityType
  <2>2. turn \in 0..Cardinality(Orgs)
    BY <2>1 DEF PoolInit
  <2>3. pipe \in PipeType /\ scan \in [on : BOOLEAN, pools : SUBSET Pools]
    BY DEF PoolInit, NoPipe, PipeType
  <2>4. passed \in [Orgs -> [Orgs -> Nat]] /\ delivered \in [Contacts -> Nat]
    BY DEF PoolInit
  <2> QED
    BY <2>2, <2>3, <2>4 DEF PoolInit, SendTyped
<1>6. RowsPlaced /\ RowsRefreshed /\ EditorReads
  BY <1>1 DEF AudienceInit, RowsPlaced, RowPlaced, RowsRefreshed, Refreshes, EditorReads, NoEdit
<1>7. RemovedExcluded
  BY <1>1 DEF AudienceInit, RemovedExcluded
<1>8. PipeWorks
  BY DEF PoolInit, PipeWorks, NoPipe
<1>9. TurnsFair
  BY <1>1 DEF PoolInit, AudienceInit, TurnsFair
<1> QED
  BY <1>1, <1>3, <1>4, <1>5, <1>6, <1>7, <1>8, <1>9
     DEF PoolsInv, PoolsWell, PoolTypes, HistoryTyped, AudienceInit

LEMMA PoolsStutter ==
    ASSUME PoolsInv, UNCHANGED poolVars
    PROVE  PoolsWell'
<1>1. CampTyped /\ RowsTyped /\ SendTyped /\ budget \in LeftType /\ PipeWorks
  BY DEF PoolsInv, PoolsWell, PoolTypes
<1>2. UNCHANGED <<masterVars, camp, audience, order, row, editor, bound, budget, fresh, sendVars>>
  BY DEF poolVars, audienceVars, campVars
<1>3. RowsTyped' /\ SendTyped' /\ RowsMarked /\ PipeWorks'
  BY <1>1, <1>2, SendersKept, SameRowsMarked, SameQueued, PipeKept DEF RowsTyped, sendVars
<1> QED
  BY <1>1, <1>2, <1>3, MarkingStepKeeps DEF CampTyped, sendVars

\* Changes of the master data delete no row.
LEMMA MasterLosesNothing ==
    ASSUME ChangeMasterData(Received)
    PROVE  UNCHANGED lossVars
<1>1. \A operation : Changes(operation) => UNCHANGED lossVars
  BY DEF Changes
<1>2. \A p, o : /\ ChangeGrant(p, o) => UNCHANGED lossVars
                /\ \A across : CreateOrgPoolAllocation(p, o, across) => UNCHANGED lossVars
                /\ \A from, to : ChangeAllocation(p, o, from, to) => UNCHANGED lossVars
  BY <1>1 DEF ChangeGrant, CreateOrgPoolAllocation, ChangeAllocation
<1>3. \A p, o, k : /\ CreatePoolContact(p, k, o) => UNCHANGED lossVars
                   /\ UpdatePoolContact(p, k, o) => UNCHANGED lossVars
                   /\ \A blocklist : ImportPoolContact(p, k, o, blocklist) => UNCHANGED lossVars
  BY <1>1 DEF CreatePoolContact, UpdatePoolContact, ImportPoolContact
<1>4. \A p, o, k : /\ ImportAllocationMember(p, o, k) => UNCHANGED lossVars
                   /\ \A highest : AssignMember(p, o, k, highest) => UNCHANGED lossVars
                   /\ (RemoveMember(p, o, k) \/ RestoreMember(p, o, k)) => UNCHANGED lossVars
  BY <1>1 DEF ImportAllocationMember, AssignMember, RemoveMember, RestoreMember, MayChangeMember
<1>5. \A p, k : (ClearPoolContactEmail(p, k) \/ DeletePoolContact(p, k)) => UNCHANGED lossVars
  BY <1>1 DEF ClearPoolContactEmail, DeletePoolContact
<1>6. /\ \A o : ArchiveOrganization(o) => UNCHANGED lossVars
      /\ \A k : RecordPoolBounce(k) \/ UnsubscribePoolByCampaign(k) => UNCHANGED lossVars
  BY <1>1 DEF ArchiveOrganization, RecordPoolBounce, UnsubscribePoolByCampaign
<1> QED
  BY <1>2, <1>3, <1>4, <1>5, <1>6 DEF ChangeMasterData

\* Only an update of the campaign deletes what was used.
LEMMA HistoryStays ==
    ASSUME [PoolNext]_poolVars
    PROVE  UNCHANGED lossVars \/ EditCommit(scan.pools)
<1>1. CASE ChangeMasterData(Received)
  BY <1>1, MasterLosesNothing
<1>2. CASE EditCampaign \/ EditEnd
  BY <1>2 DEF EditCampaign, EditEnd, EditRead, EditRejected
<1>3. CASE Start \/ Pause \/ (\E s \in Servers : RemoveServer(s)) \/ NextDay
  BY <1>3 DEF Start, Pause, RemoveServer, NextDay, Controls
<1>4. CASE Scanner
  BY <1>4 DEF Scanner, ScanSelect, ScanRefresh, ScanLoad, ScanSkip, audienceVars
<1>5. CASE Pipe
  BY <1>5 DEF Pipe, PipeRead, ClaimOwn, ClaimAll, ClaimUnavailable, PipeWake, Cleanup, audienceVars
<1>6. CASE \E k \in Contacts, s \in Senders : Work(k, s)
  <2>1. PICK k \in Contacts, s \in Senders : Work(k, s)
    BY <1>6
  <2>2. PICK n : \/ DropMessage(k, s, n) \/ RouteClosed(k, s, n)
                 \/ ServerGone(k, s, n) \/ QuotaSpent(k, s, n)
                 \/ \E t \in Servers : Accept(k, s, t, n)
                 \/ MarkSent(k, s, n) \/ Refuse(k, s, n)
    BY <2>1 DEF Work
  <2>3. SendUnchanged
    BY <2>2 DEF DropMessage, RouteClosed, ServerGone, QuotaSpent, Accept, MarkSent, Refuse
  <2> QED
    BY <2>3 DEF SendUnchanged
<1> QED
  BY <1>1, <1>2, <1>3, <1>4, <1>5, <1>6 DEF PoolNext, Steps, poolVars, audienceVars

LEMMA PoolsNext ==
    ASSUME PoolsInv, [PoolNext]_poolVars
    PROVE  PoolsInv'
<1>a. HistoryTyped'
  <2>1. CASE UNCHANGED lossVars
    BY <2>1 DEF PoolsInv, HistoryTyped, lossVars
  <2>2. CASE EditCommit(scan.pools)
    BY <2>2 DEF EditCommit, PoolsInv, HistoryTyped, Overtaken
  <2> QED
    BY <2>1, <2>2, HistoryStays
<1> SUFFICES PoolsWell'
  BY <1>a DEF PoolsInv
<1>1. CASE EditEnd /\ UNCHANGED sendVars
  BY <1>1, EditCommitKeeps, EditRejectedKeeps DEF EditEnd
<1>2. CASE \E pools \in SUBSET Pools : EditRead(pools) /\ UNCHANGED sendVars
  BY <1>2, EditReadKeeps
<1>3. CASE ChangeMasterData(Received) /\ UNCHANGED sendVars
  BY <1>3, MasterStepKeeps
<1>4. CASE Start \/ Pause \/ (\E s \in Servers : RemoveServer(s)) \/ NextDay
  BY <1>4, StartKeeps, PauseKeeps, RemoveServerKeeps, NextDayKeeps
<1>5. CASE Scanner \/ Pipe
  BY <1>5, PipeStepKeeps
<1>6. CASE \E k \in Contacts, s \in Senders : Work(k, s)
  BY <1>6, WorkKeeps
<1>7. CASE UNCHANGED poolVars
  BY <1>7, PoolsStutter
<1> QED
  BY <1>1, <1>2, <1>3, <1>4, <1>5, <1>6, <1>7 DEF PoolNext, Steps, EditCampaign

\* In every state the system reaches, rows are placed in allocations, refreshes have settled
\* what they claim to have, a pipe works on what it read, and turns are taken in order.
THEOREM PoolsHold == PoolSpec => []PoolsInv
BY PoolsInitially, PoolsNext, PTL DEF PoolSpec

-----------------------------------------------------------------------------
(* What follows from the invariant. *)

LEMMA SnapshotFollows ==
    ASSUME PoolsInv
    PROVE  SnapshotExact
<1>1. audience # {} /\ fresh = audience =>
        \A k \in Contacts :
            /\ row[k].status = "pending" /\ row[k].pool \in audience => Available(k)
            /\ (\E p \in audience : Targets(p, k) # {}) => row[k].status # "none"
  BY DEF PoolsInv, PoolsWell, RowsRefreshed, Refreshes
<1>2. Unfinished => \A k \in Contacts :
        row[k].status \in {"pending", "queued"} /\ row[k].pool \in audience =>
            allocation[row[k].pool][row[k].org] # "detached"
  <2> SUFFICES ASSUME Unfinished, NEW k \in Contacts,
                      row[k].status \in {"pending", "queued"}, row[k].pool \in audience
               PROVE  allocation[row[k].pool][row[k].org] # "detached"
    OBVIOUS
  <2>1. RowPlaced(row[k])
    BY DEF PoolsInv, PoolsWell, RowsPlaced
  <2> QED
    BY <2>1 DEF RowPlaced, NoRow
<1>3. RemovedExcluded
  BY DEF PoolsInv, PoolsWell
<1> QED
  BY <1>1, <1>2, <1>3 DEF SnapshotExact, RemovedExcluded

\* The snapshot is what the pools allow once each was refreshed, no waiting row of a selected
\* pool belongs to a detached allocation, and who was removed is excluded (SnapshotExact,
\* EnsurePoolCampaignRecipients, ChangeAllocation).
THEOREM SnapshotHolds == PoolSpec => []SnapshotExact
BY PoolsHold, SnapshotFollows, PTL

\* Over batches, pauses, days and changed rotations no organization is served twice while
\* another one waits (FairRotation, nextPoolCustomers).
THEOREM RotationIsFair == PoolSpec => []FairRotation
<1>1. PoolsInv => FairRotation
  BY TypeParts DEF PoolsInv, PoolsWell, TurnsFair, FairRotation
<1> QED
  BY <1>1, PoolsHold, PTL

-----------------------------------------------------------------------------
(* Empty batches. *)

\* When nobody is being sent to, somebody of the claimable is in the round.
LEMMA RoundAttained ==
    ASSUME RowsTyped, SendTyped, QueuedRows = {}, MayClaim # {}
    PROVE  \E k \in MayClaim : failures[k] = Round
<1>1. RetryQueue = MayClaim
  BY DEF RetryQueue, MayClaim, QueuedRows
<1> DEFINE F == {failures[k] : k \in RetryQueue}
<1>2. RetryQueue \subseteq Contacts /\ IsFiniteSet(RetryQueue) /\ F # {}
  <2>1. RetryQueue \subseteq Contacts
    BY DEF RetryQueue
  <2>2. PICK k \in RetryQueue : TRUE
    BY <1>1
  <2>3. failures[k] \in F
    BY <2>2
  <2> HIDE DEF F
  <2> QED
    BY <2>1, <2>3, AudienceAssumption, FS_Subset
<1>3. F \in SUBSET Nat
  BY <1>2 DEF SendTyped
<1>4. IsFiniteSet(F)
  <2>1. [k \in RetryQueue |-> failures[k]] \in Surjection(RetryQueue, F)
    BY DEF Surjection
  <2> HIDE DEF F
  <2> QED
    BY <1>2, <2>1, FS_Surjection
<1>5. Round = Min(F)
  BY <1>1 DEF Round
<1>6. Min(F) \in F
  <2> HIDE DEF F
  <2> QED
    BY <1>2, <1>3, <1>4, MinIs
<1> QED
  BY <1>1, <1>5, <1>6

\* What the answer of a claim says of an empty batch.
LEMMA AnsweredSays ==
    ASSUME SendTyped, PipeWorks, pipe.at = "claim",
           NEW taken, NEW noServer \in BOOLEAN, Answered(taken, noServer),
           pipe'.at = "ending", pipe'.stop = "none"
    PROVE  /\ taken = {} /\ QueuedRows = {} /\ camp = "running"
           /\ pipe'.deferred = noServer
<1>1. pipe \in PipeType
  BY DEF SendTyped
<1> DEFINE defers == taken = {} /\ pipe.queued = 0 /\ noServer
<1>2. pipe' = IF taken # {} THEN [pipe EXCEPT !.at = "open"]
              ELSE IF pipe.queued > 0 THEN [pipe EXCEPT !.at = "waiting"]
              ELSE IF defers /\ camp = "running"
              THEN [pipe EXCEPT !.at = "ending", !.deferred = TRUE]
              ELSE IF defers /\ pipe.stop = "none"
              THEN [pipe EXCEPT !.at = "ending", !.stop = "pause"]
              ELSE [pipe EXCEPT !.at = "ending"]
  BY DEF Answered
<1>3. taken = {} /\ ~(pipe.queued > 0)
  <2>1. [pipe EXCEPT !.at = "open"].at = "open" /\ [pipe EXCEPT !.at = "waiting"].at = "waiting"
    BY <1>1 DEF PipeType
  <2> QED
    BY <1>2, <2>1
<1>4. pipe.queued = 0 /\ QueuedRows = {}
  BY <1>1, <1>3 DEF PipeWorks, PipeType
<1>5. pipe.stop = "none"
  BY <1>1, <1>2, <1>3 DEF PipeType
<1>6. camp = "running" /\ ~pipe.deferred /\ pipe.deferred \in BOOLEAN
  BY <1>1, <1>5 DEF PipeWorks, PipeType
<1>7. pipe'.deferred = noServer
  <2>1. CASE noServer
    <3>1. pipe' = [pipe EXCEPT !.at = "ending", !.deferred = TRUE]
      BY <1>2, <1>3, <1>4, <1>6, <2>1
    <3> QED
      BY <1>1, <2>1, <3>1 DEF PipeType
  <2>2. CASE ~noServer
    <3>1. pipe' = [pipe EXCEPT !.at = "ending"]
      BY <1>2, <1>3, <2>2
    <3> QED
      BY <1>1, <1>6, <2>2, <3>1 DEF PipeType
  <2> QED
    BY <2>1, <2>2
<1> QED
  BY <1>3, <1>4, <1>6, <1>7

LEMMA OwnAnswersRight ==
    ASSUME PoolsInv, ClaimOwn, pipe'.at = "ending", pipe'.stop = "none"
    PROVE  ~pipe'.deferred /\ MayClaim = {}
<1> DEFINE ready == {k \in MayClaim : failures[k] = Round /\ camp = "running"}
           taken == {k \in ready : Cardinality({x \in ready : x < k}) < pipe.limit}
           messages == {<<k, NoServer, "queued", Attempt(k)>> : k \in taken}
<1>1. RowsTyped /\ SendTyped /\ PipeWorks
  BY DEF PoolsInv, PoolsWell, PoolTypes
<1>2. pipe.at = "claim" /\ Answered(messages, FALSE)
  BY DEF ClaimOwn
<1>3. messages = {} /\ QueuedRows = {} /\ camp = "running" /\ ~pipe'.deferred
  <2> HIDE DEF messages
  <2> QED
    BY <1>1, <1>2, AnsweredSays
<1>4. SUFFICES ASSUME MayClaim # {} PROVE FALSE
  BY <1>3
<1>5. ready # {}
  BY <1>1, <1>3, <1>4, RoundAttained
<1>6. ready \in SUBSET Nat /\ IsFiniteSet(ready)
  <2>1. ready \subseteq Contacts
    BY DEF MayClaim
  <2> QED
    BY <2>1, AudienceAssumption, FS_Subset
<1>7. PICK m \in ready : \A x \in ready : m <= x
  <2> HIDE DEF ready
  <2> QED
    BY <1>5, <1>6, ExtremesExist
<1>8. {x \in ready : x < m} = {}
  <2> SUFFICES ASSUME NEW x \in ready PROVE ~(x < m)
    OBVIOUS
  <2> HIDE DEF ready
  <2>1. x \in Nat /\ m \in Nat /\ m <= x
    BY <1>6, <1>7
  <2> QED
    BY <2>1
<1>9. Cardinality({x \in ready : x < m}) < pipe.limit
  <2>1. pipe.limit >= 1 /\ pipe.limit \in Nat
    BY <1>1, <1>2 DEF PipeWorks, SendTyped, PipeType
  <2> QED
    BY <1>8, <2>1, FS_EmptySet
<1>10. m \in taken
  BY <1>7, <1>9
<1> QED
  BY <1>3, <1>10

LEMMA AllAnswersRight ==
    ASSUME PoolsInv, Selected, ClaimAll, pipe'.at = "ending", pipe'.stop = "none"
    PROVE  IF pipe'.deferred
           THEN MayClaim # {} /\ \A s \in Servers : ~HasQuota(s)
           ELSE MayClaim = {}
<1>1. MastersTyped /\ RowsTyped /\ SendTyped /\ PipeWorks /\ RowsPlaced
  BY DEF PoolsInv, PoolsWell, PoolTypes
<1>2. PICK turns \in Orders :
        LET served == {At(turns, i) : i \in ServedVisits(turns)}
            taken == {FirstOf(o) : o \in served}
            noServer == \E i \in 0..(Visits(turns) - 1) :
                            ReadyOf(At(turns, i)) # {} /\ ServerOf(At(turns, i)) = NoServer
        IN  Answered({<<k, ServerOf(row[k].org), "queued", Attempt(k)>> : k \in taken}, noServer)
  BY DEF ClaimAll
<1> DEFINE visits == ServedVisits(turns)
           served == {At(turns, i) : i \in visits}
           taken == {FirstOf(o) : o \in served}
           messages == {<<k, ServerOf(row[k].org), "queued", Attempt(k)>> : k \in taken}
           noServer == \E i \in 0..(Visits(turns) - 1) :
                            ReadyOf(At(turns, i)) # {} /\ ServerOf(At(turns, i)) = NoServer
<1>3. pipe.at = "claim" /\ Members # {} /\ Answered(messages, noServer)
  BY <1>2 DEF ClaimAll
<1>4. messages = {} /\ QueuedRows = {} /\ pipe'.deferred = noServer
  <2>1. noServer \in BOOLEAN
    OBVIOUS
  <2> HIDE DEF messages, noServer
  <2> QED
    BY <1>1, <1>3, <2>1, AnsweredSays
<1>5. visits = {}
  <2> HIDE DEF visits
  <2>1. taken = {}
    <3> HIDE DEF taken
    <3> QED
      BY <1>4
  <2>2. served = {}
    <3> HIDE DEF served
    <3> QED
      BY <2>1
  <2> QED
    BY <2>2
<1>6. CASE noServer
  <2>1. PICK i \in 0..(Visits(turns) - 1) :
            ReadyOf(At(turns, i)) # {} /\ ServerOf(At(turns, i)) = NoServer
    BY <1>6
  <2>2. MayClaim # {}
    BY <2>1 DEF ReadyOf
  <2>3. \A s : ~HasQuota(s)
    BY <1>1, <2>1, ServerIs, AudienceAssumption
  <2> QED
    BY <1>4, <1>6, <2>2, <2>3
<1>7. CASE ~noServer
  <2> SUFFICES ASSUME MayClaim # {} PROVE FALSE
    BY <1>4, <1>7
  <2>1. PICK k \in MayClaim : failures[k] = Round
    BY <1>1, <1>4, RoundAttained
  <2> DEFINE o == row[k].org
  <2>2. k \in Contacts /\ Available(k)
    BY <2>1 DEF MayClaim
  <2>3. row[k].pool # 0 /\ Deliverable(row[k].pool, o, k) /\ row[k].pool \in audience
    BY <2>2 DEF Available, Selected
  <2>4. o \in Orgs
    <3>1. row[k] # NoRow
      BY <2>3 DEF NoRow
    <3> QED
      BY <1>1, <2>2, <3>1 DEF RowsPlaced, RowPlaced
  <2>5. o \in Members
    BY <2>3, <2>4 DEF Members, Allocated, Deliverable
  <2>6. k \in ReadyOf(o)
    BY <2>1 DEF ReadyOf
  <2> HIDE DEF o
  <2>7. turn \in Nat /\ pipe.limit >= 1 /\ pipe.limit \in Nat /\ turns \in SetToSeqs(Members)
    <3>1. Cardinality(Orgs) \in Nat
      BY OrgNumbers, FS_CardinalityType
    <3> QED
      BY <1>1, <1>3, <3>1 DEF Orders, PipeWorks, SendTyped, PipeType
  <2>8. PICK i \in 0..(Len(turns) - 1) : At(turns, i) = o
    BY <1>3, <2>5, <2>7, Rotation
  <2>9. Visits(turns) = Len(turns)
    <3>1. Len(turns) \in Nat
      BY <1>3, <2>7, Rotation
    <3> QED
      BY <1>5, <2>7, <3>1, VisitsAre
  <2>10. ServerOf(o) # NoServer
    BY <1>7, <2>6, <2>8, <2>9
  <2>11. Serves(At(turns, i))
    BY <2>6, <2>8, <2>10 DEF Serves
  <2>12. i \in visits
    BY <2>8, <2>9, <2>11 DEF ServedVisits
  <2> QED
    BY <1>5, <2>12
<1> QED
  BY <1>6, <1>7

\* Only a claim ends the pipe where a batch was asked for.
LEMMA OnlyClaimsAnswer ==
    ASSUME PoolsInv, [PoolNext]_poolVars, pipe.at = "claim", pipe'.at = "ending"
    PROVE  ClaimOwn \/ ClaimAll \/ ClaimUnavailable
<1>1. pipe \in PipeType /\ PipeWorks
  BY DEF PoolsInv, PoolsWell, PoolTypes, SendTyped
<1>2. CASE UNCHANGED sendVars \/ UNCHANGED poolVars
  BY <1>2 DEF sendVars, poolVars
<1>3. CASE Start \/ NextDay
  BY <1>3 DEF Start, NextDay, sendVars
<1>4. CASE Pause
  <2>1. pipe' = [pipe EXCEPT !.stop = IF pipe.at = "none" THEN @ ELSE "pause"]
    BY <1>4 DEF Pause
  <2> QED
    BY <1>1, <2>1 DEF PipeType
<1>5. CASE \E s \in Servers : RemoveServer(s)
  <2>1. pipe' \in {pipe, Stopped("smtp")}
    BY <1>5 DEF RemoveServer
  <2> QED
    BY <1>1, <2>1, StoppedIs
<1>6. CASE Scanner
  BY <1>1, <1>6 DEF Scanner, ScanSelect, ScanRefresh, ScanLoad, ScanSkip, PipeWorks
<1>7. CASE Pipe
  BY <1>7 DEF Pipe, PipeRead, PipeWake, Cleanup, Drained
<1>8. CASE \E k \in Contacts, s \in Senders : Work(k, s)
  <2>1. PICK k \in Contacts, s \in Senders : Work(k, s)
    BY <1>8
  <2>n. PICK n : \/ DropMessage(k, s, n) \/ RouteClosed(k, s, n)
                 \/ ServerGone(k, s, n) \/ QuotaSpent(k, s, n)
                 \/ \E t \in Servers : Accept(k, s, t, n)
                 \/ MarkSent(k, s, n) \/ Refuse(k, s, n)
    BY <2>1 DEF Work
  <2> DEFINE put == [Stopped("deferred") EXCEPT !.deferred = TRUE]
  <2>2. /\ put \in PipeType /\ put.at = pipe.at
        /\ \A reason \in {"pause", "smtp", "deferred"} :
                Stopped(reason) \in PipeType /\ Stopped(reason).at = pipe.at
    <3>1. \A reason \in {"pause", "smtp", "deferred"} :
                Stopped(reason) \in PipeType /\ Stopped(reason).at = pipe.at
      BY <1>1, StoppedIs
    <3> DEFINE d == Stopped("deferred")
    <3>2. d \in PipeType /\ d.at = pipe.at
      BY <3>1
    <3> HIDE DEF d
    <3>3. [d EXCEPT !.deferred = TRUE] \in PipeType /\ [d EXCEPT !.deferred = TRUE].at = d.at
      BY <3>2 DEF PipeType
    <3> QED
      BY <3>1, <3>2, <3>3 DEF d
  <2>3. \E p \in PipeType : p.at = pipe.at /\ pipe' \in {p, Done(p)}
    <3> HIDE DEF put
    <3>1. CASE DropMessage(k, s, n) \/ MarkSent(k, s, n) \/ Refuse(k, s, n)
      BY <1>1, <3>1 DEF DropMessage, MarkSent, Refuse
    <3>2. CASE RouteClosed(k, s, n) \/ ServerGone(k, s, n)
      BY <2>2, <3>2 DEF RouteClosed, ServerGone
    <3>3. CASE QuotaSpent(k, s, n)
      <4>1. pipe' = Done(put) \/ pipe' = Done(Stopped("pause"))
        BY <3>3 DEF QuotaSpent, put
      <4> QED
        BY <2>2, <4>1
    <3>4. CASE \E t \in Servers : Accept(k, s, t, n)
      BY <1>1, <3>4 DEF Accept
    <3> QED
      BY <2>n, <3>1, <3>2, <3>3, <3>4
  <2> QED
    BY <2>3, DoneIs
<1> QED
  BY <1>2, <1>3, <1>4, <1>5, <1>6, <1>7, <1>8 DEF PoolNext, Steps

LEMMA AnswersStep ==
    ASSUME PoolsInv, [PoolNext]_poolVars, Selected, pipe.at = "claim", pipe'.at = "ending",
           pipe'.stop = "none"
    PROVE  IF pipe'.deferred
           THEN MayClaim # {} /\ \A s \in Servers : ~HasQuota(s)
           ELSE MayClaim = {}
<1>1. CASE ClaimOwn
  BY <1>1, OwnAnswersRight
<1>2. CASE ClaimAll
  BY <1>2, AllAnswersRight
<1>3. CASE ClaimUnavailable
  <2>1. pipe \in PipeType
    BY DEF PoolsInv, PoolsWell, PoolTypes, SendTyped
  <2> DEFINE d == Stopped("smtp")
  <2>2. d \in PipeType /\ d.stop # "none"
    BY <2>1, StoppedIs
  <2>3. pipe' = [d EXCEPT !.at = "ending"]
    BY <1>3 DEF ClaimUnavailable
  <2> HIDE DEF d
  <2> QED
    BY <2>2, <2>3 DEF PipeType
<1> QED
  BY <1>1, <1>2, <1>3, OnlyClaimsAnswer

\* An empty batch ends the campaign only when nobody can be claimed, and defers it only when
\* no server has quota (AnswersRight, nextPoolCustomers and the pipe that asks for it).
THEOREM AnswersAreRight == PoolSpec => AnswersRight
<1>1. PoolsInv /\ [PoolNext]_poolVars =>
        [Selected /\ pipe.at = "claim" /\ pipe'.at = "ending" /\ pipe'.stop = "none" =>
            IF pipe'.deferred
            THEN MayClaim # {} /\ \A s \in Servers : ~HasQuota(s)
            ELSE MayClaim = {}]_poolVars
  BY AnswersStep
<1> QED
  BY <1>1, PoolsHold, PTL DEF PoolSpec, AnswersRight

-----------------------------------------------------------------------------
(* What is handed to delivery. *)

\* The messages of k that no server has, and those a server accepted.
Queued(k) == {m \in flight : m[1] = k /\ m[3] = "queued"}
Arriving(k) == {m \in flight : m[1] = k /\ m[3] = "accepted"}

\* Every message of k but one stands for a row of k that an update deleted, and while the
\* row may be claimed all of them do.  Who got a message is marked, now or when the worker
\* is done, unless the row was deleted; and no message is about to fail too often.
CountsHold(k) ==
    /\ IsFiniteSet(Queued(k))
    /\ delivered[k] + Cardinality(Queued(k)) <= 1 + lost[k]
    /\ row[k].status \in {"none", "pending"} => delivered[k] + Cardinality(Queued(k)) <= lost[k]
    /\ row[k].status # "sent" => delivered[k] <= lost[k] \/ Arriving(k) # {}
    /\ failures[k] + Cardinality(Queued(k)) <= MaxRetries + 1 + lost[k]

PipeEmpty == pipe.at = "none" => flight = {}

\* Before the start there is nothing to lose.
DraftIdle == camp = "draft" =>
    /\ ~scan.on /\ pipe.at = "none"
    /\ \A k \in Contacts :
        row[k].status \in {"none", "pending"} /\ row[k].sender = NoServer /\ lost[k] = 0

ScansSelected == scan.pools \subseteq audience

HistoryInv ==
    /\ \A k \in Contacts : CountsHold(k)
    /\ PipeEmpty /\ DraftIdle
    /\ ~overtaken => Selected /\ ScansSelected

\* What a step may do to the row of k.
RowKept(k) ==
    /\ lost'[k] > lost[k] => overtaken'
    /\ lost'[k] = lost[k] =>
        /\ row[k].status \in {"queued", "sent", "failed", "cancelled"} =>
            /\ row'[k].status # "none"
            /\ row'[k].pool = row[k].pool /\ row'[k].org = row[k].org
            /\ row'[k].sender = row[k].sender
        /\ /\ row[k].sender # NoServer /\ row'[k].pool = row[k].pool
           /\ row'[k].sender # row[k].sender
           => ~HasQuota(row[k].sender)

RowsKept == \A k \in Contacts : RowKept(k)

LEMMA Numbers ==
    ASSUME PoolsInv, NEW k \in Contacts
    PROVE  /\ delivered[k] \in Nat /\ failures[k] \in Nat /\ lost[k] \in Nat
           /\ IsFiniteSet(Queued(k)) => Cardinality(Queued(k)) \in Nat
BY FS_CardinalityType DEF PoolsInv, PoolsWell, PoolTypes, SendTyped, HistoryTyped

\* A step that leaves the messages of k alone.
LEMMA CountsStay ==
    ASSUME PoolsInv, NEW k \in Contacts, CountsHold(k),
           Queued(k)' = Queued(k), Arriving(k)' = Arriving(k),
           delivered'[k] = delivered[k], failures'[k] = failures[k],
           lost'[k] = lost[k] \/ lost'[k] = lost[k] + 1,
           lost'[k] = lost[k] =>
                /\ row[k].status = "sent" => row'[k].status = "sent"
                /\ row'[k].status \in {"none", "pending"} =>
                    \/ row[k].status \in {"none", "pending"}
                    \/ row[k].status # "sent" /\ flight = {}
    PROVE  CountsHold(k)'
<1> DEFINE c == Cardinality(Queued(k))
<1>1. /\ delivered[k] \in Nat /\ failures[k] \in Nat /\ lost[k] \in Nat /\ c \in Nat
      /\ MaxRetries \in Nat
  BY Numbers, AllocatorAssumption DEF CountsHold
<1>2. flight = {} => c = 0 /\ Arriving(k) = {}
  BY FS_EmptySet DEF Queued, Arriving
<1>3. /\ delivered[k] + c <= 1 + lost[k]
      /\ row[k].status \in {"none", "pending"} => delivered[k] + c <= lost[k]
      /\ row[k].status # "sent" => delivered[k] <= lost[k] \/ Arriving(k) # {}
      /\ failures[k] + c <= MaxRetries + 1 + lost[k]
  BY DEF CountsHold
<1>4. IsFiniteSet(Queued(k))' /\ Cardinality(Queued(k))' = c
  BY DEF CountsHold
<1> HIDE DEF c
<1>5. /\ delivered'[k] + c <= 1 + lost'[k]
      /\ row'[k].status \in {"none", "pending"} => delivered'[k] + c <= lost'[k]
      /\ row'[k].status # "sent" => delivered'[k] <= lost'[k] \/ Arriving(k)' # {}
      /\ failures'[k] + c <= MaxRetries + 1 + lost'[k]
  <2>1. CASE lost'[k] = lost[k] + 1
    BY <1>1, <1>3, <2>1
  <2>2. CASE lost'[k] = lost[k]
    BY <1>1, <1>2, <1>3, <2>2
  <2> QED
    BY <2>1, <2>2
<1> QED
  BY <1>4, <1>5 DEF CountsHold

\* A message is handed over for a row that may be claimed.
LEMMA ClaimCounts ==
    ASSUME PoolsInv, NEW k \in MayClaim, CountsHold(k), NEW m,
           Queued(k)' = Queued(k) \cup {m}, Arriving(k)' = Arriving(k),
           UNCHANGED <<delivered, failures, lost>>, row'[k].status = "queued"
    PROVE  CountsHold(k)'
<1> DEFINE c == Cardinality(Queued(k))
           d == Cardinality(Queued(k) \cup {m})
<1>1. k \in Contacts /\ row[k].status = "pending" /\ ~Exhausted(k)
  BY DEF MayClaim
<1>2. /\ delivered[k] \in Nat /\ failures[k] \in Nat /\ lost[k] \in Nat /\ c \in Nat
      /\ MaxRetries \in Nat
  BY <1>1, Numbers, AllocatorAssumption DEF CountsHold
<1>3. IsFiniteSet(Queued(k) \cup {m}) /\ (d = c \/ d = c + 1)
  BY FS_AddElement DEF CountsHold
<1>4. /\ delivered[k] + c <= lost[k] /\ failures[k] <= MaxRetries
      /\ delivered[k] <= lost[k] \/ Arriving(k) # {}
  BY <1>1, <1>2 DEF CountsHold, Exhausted
<1>5. Cardinality(Queued(k))' = d /\ IsFiniteSet(Queued(k))'
  BY <1>3
<1> HIDE DEF c, d
<1>6. /\ delivered[k] + d <= 1 + lost[k] /\ failures[k] + d <= MaxRetries + 1 + lost[k]
  BY <1>2, <1>3, <1>4
<1> QED
  BY <1>4, <1>5, <1>6 DEF CountsHold

\* A worker is done with a message that no server has: it was not accepted, or it is now.
LEMMA TakenCounts ==
    ASSUME PoolsInv, NEW k \in Contacts, CountsHold(k), NEW m \in Queued(k),
           Queued(k)' = Queued(k) \ {m}, lost' = lost,
           \/ /\ delivered'[k] = delivered[k] /\ Arriving(k)' = Arriving(k)
              /\ failures'[k] = failures[k] \/ failures'[k] = failures[k] + 1
              /\ row[k].status = "sent" => row'[k].status = "sent"
           \/ /\ delivered'[k] = delivered[k] + 1 /\ Arriving(k)' # {}
              /\ failures'[k] = failures[k] /\ row'[k] = row[k]
    PROVE  CountsHold(k)'
<1> DEFINE c == Cardinality(Queued(k))
           d == Cardinality(Queued(k) \ {m})
<1>1. /\ delivered[k] \in Nat /\ failures[k] \in Nat /\ lost[k] \in Nat /\ c \in Nat
      /\ MaxRetries \in Nat
  BY Numbers, AllocatorAssumption DEF CountsHold
<1>2. IsFiniteSet(Queued(k) \ {m}) /\ d = c - 1
  BY FS_RemoveElement DEF CountsHold
<1>3. /\ delivered[k] + c <= 1 + lost[k]
      /\ row[k].status \in {"none", "pending"} => delivered[k] + c <= lost[k]
      /\ row[k].status # "sent" => delivered[k] <= lost[k] \/ Arriving(k) # {}
      /\ failures[k] + c <= MaxRetries + 1 + lost[k]
  BY DEF CountsHold
<1>4. Cardinality(Queued(k))' = d /\ IsFiniteSet(Queued(k))' /\ lost'[k] = lost[k]
  BY <1>2
<1> HIDE DEF c, d
<1>5. /\ delivered'[k] + d <= 1 + lost[k]
      /\ row'[k].status \in {"none", "pending"} => delivered'[k] + d <= lost[k]
      /\ row'[k].status # "sent" => delivered'[k] <= lost[k] \/ Arriving(k)' # {}
      /\ failures'[k] + d <= MaxRetries + 1 + lost[k]
  BY <1>1, <1>2, <1>3
<1> QED
  BY <1>4, <1>5 DEF CountsHold

\* A worker marks a message that was accepted.
LEMMA MarkedCounts ==
    ASSUME PoolsInv, NEW k \in Contacts, CountsHold(k), Queued(k)' = Queued(k),
           UNCHANGED <<delivered, failures, lost>>,
           row'[k].status = IF row[k].status = "none" THEN "none" ELSE "sent"
    PROVE  CountsHold(k)'
<1> DEFINE c == Cardinality(Queued(k))
<1>1. delivered[k] \in Nat /\ lost[k] \in Nat /\ c \in Nat
  BY Numbers DEF CountsHold
<1>2. /\ IsFiniteSet(Queued(k))' /\ Cardinality(Queued(k))' = c
      /\ delivered[k] + c <= 1 + lost[k]
      /\ row[k].status = "none" => delivered[k] + c <= lost[k]
      /\ failures[k] + c <= MaxRetries + 1 + lost[k]
  BY DEF CountsHold
<1> HIDE DEF c
<1>3. row[k].status = "none" => delivered[k] <= lost[k]
  BY <1>1, <1>2
<1> QED
  BY <1>2, <1>3 DEF CountsHold

\* Nothing is a draft while the scanner, the pipe or a worker has the campaign.
LEMMA Undrafted ==
    ASSUME HistoryInv, scan.on \/ pipe.at # "none" \/ flight # {}
    PROVE  camp # "draft"
BY DEF HistoryInv, PipeEmpty, DraftIdle

LEMMA SelectedStays ==
    ASSUME HistoryInv, UNCHANGED <<overtaken, audience>>, scan'.pools \subseteq scan.pools \cup audience,
           \A k \in Contacts : row'[k].pool \in {row[k].pool, 0} \cup scan.pools
    PROVE  ~overtaken' => Selected' /\ ScansSelected'
BY DEF HistoryInv, Selected, ScansSelected

\* Steps that leave rows, messages and counts alone.
LEMMA RowsLeft ==
    ASSUME PoolsInv, HistoryInv, UNCHANGED <<row, flight, delivered, failures, audience, lossVars>>,
           pipe'.at = "none" => pipe.at = "none", scan'.pools \subseteq scan.pools \cup audience,
           camp' = "draft" => camp = "draft" /\ ~scan'.on /\ pipe'.at = "none"
    PROVE  HistoryInv' /\ RowsKept
<1>1. \A k \in Contacts : Queued(k)' = Queued(k) /\ Arriving(k)' = Arriving(k)
  BY DEF Queued, Arriving
<1>2. \A k \in Contacts : CountsHold(k)'
  BY <1>1, CountsStay DEF HistoryInv, lossVars
<1>3. PipeEmpty' /\ DraftIdle'
  BY DEF HistoryInv, PipeEmpty, DraftIdle, lossVars
<1>4. ~overtaken' => Selected' /\ ScansSelected'
  BY SelectedStays DEF lossVars
<1>5. RowsKept
  <2>1. \A k \in Contacts : lost'[k] = lost[k] /\ lost[k] \in Nat
    BY Numbers DEF lossVars
  <2> QED
    BY <2>1 DEF RowsKept, RowKept
<1> QED
  BY <1>2, <1>3, <1>4, <1>5 DEF HistoryInv

\* Steps that mark rows of a campaign that was started.
LEMMA MarksKept ==
    ASSUME PoolsInv, HistoryInv, UNCHANGED <<audience, lossVars>>, scan'.pools \subseteq scan.pools,
           camp' # "draft", PipeEmpty',
           \A k \in Contacts :
                /\ CountsHold(k)'
                /\ row'[k].pool = row[k].pool /\ row'[k].org = row[k].org
                /\ row'[k].sender = row[k].sender \/ (row[k].status = "pending" /\ ~HasQuota(row[k].sender))
                /\ row[k].status # "none" => row'[k].status # "none"
    PROVE  HistoryInv' /\ RowsKept
<1>1. ~overtaken' => Selected' /\ ScansSelected'
  BY SelectedStays DEF lossVars
<1>2. DraftIdle'
  BY DEF DraftIdle
<1>3. RowsKept
  <2>1. \A k \in Contacts : lost'[k] = lost[k] /\ lost[k] \in Nat
    BY Numbers DEF lossVars
  <2> QED
    BY <2>1 DEF RowsKept, RowKept
<1> QED
  BY <1>1, <1>2, <1>3 DEF HistoryInv

-----------------------------------------------------------------------------
(* Updates of the campaign. *)

LEMMA EditReadHistory ==
    ASSUME PoolsInv, HistoryInv,
           (\E pools \in SUBSET Pools : EditRead(pools)) \/ EditRejected, UNCHANGED sendVars
    PROVE  HistoryInv' /\ RowsKept
<1>1. UNCHANGED <<camp, audience, row, lossVars>>
  BY DEF EditRead, EditRejected
<1>2. UNCHANGED <<scan, pipe, flight, delivered, failures>>
  BY DEF sendVars
<1>3. camp' = "draft" => camp = "draft" /\ ~scan'.on /\ pipe'.at = "none"
  BY <1>1, <1>2 DEF HistoryInv, DraftIdle
<1> QED
  BY <1>1, <1>2, <1>3, RowsLeft

\* An update that was not overtaken deletes no row that was used.
LEMMA UsedKept ==
    ASSUME PoolsInv, HistoryInv, EditCommit(scan.pools), ~overtaken', NEW k \in Contacts, Used(row[k])
    PROVE  Kept(editor.pools, k) = row[k]
<1> DEFINE pools == editor.pools
<1>1. ~overtaken /\ ~Overtaken(scan.pools)
  BY DEF EditCommit
<1>2. MayEdit(pools) /\ editor.rebuild = Rebuilds(pools)
  BY <1>1 DEF Overtaken
<1>3. RowPlaced(row[k]) /\ row[k] # NoRow
  BY DEF PoolsInv, PoolsWell, RowsPlaced, Used, NoRow
<1>4. row[k].status # "none" /\ row[k].pool \in Pools /\ 0 \notin Pools
  BY <1>3, AudienceAssumption DEF RowPlaced
<1>5. camp # "draft" /\ HasRecipients
  BY <1>4 DEF HistoryInv, DraftIdle, Used, HasRecipients
<1>6. row[k].pool \in audience
  BY <1>1, <1>4 DEF HistoryInv, Selected
<1>7. pools = audience /\ ~editor.rebuild
  BY <1>2, <1>5, <1>6 DEF MayEdit, Rebuilds
<1> QED
  BY <1>6, <1>7 DEF Kept

LEMMA EditCommitHistory ==
    ASSUME PoolsInv, HistoryInv, EditCommit(scan.pools), UNCHANGED sendVars
    PROVE  HistoryInv' /\ RowsKept
<1> DEFINE pools == editor.pools
<1>1. CampTyped /\ RowsTyped /\ RowsPlaced /\ EditorReads
  BY DEF PoolsInv, PoolsWell, PoolTypes
<1>2. /\ camp' = camp /\ overtaken' = (overtaken \/ Overtaken(scan.pools))
      /\ UNCHANGED <<scan, pipe, flight, delivered, failures>>
  BY DEF EditCommit, sendVars
<1>3. audience' = pools /\ pools \in SUBSET Pools /\ (~editor.rebuild => pools # {})
  BY <1>1 DEF EditCommit, EditorReads, CampTyped
<1>4. ASSUME NEW k \in Contacts
      PROVE  /\ AttachedWell(Kept(pools, k), row'[k], pools, k)
             /\ Kept(pools, k) = NoRow \/ (~editor.rebuild /\ Kept(pools, k) = row[k])
             /\ row[k] \in RowType /\ RowPlaced(row[k]) /\ lost[k] \in Nat
             /\ lost'[k] = IF Used(row[k]) /\ Kept(pools, k) = NoRow THEN lost[k] + 1 ELSE lost[k]
  <2>1. lost'[k] = IF Used(row[k]) /\ Kept(pools, k) = NoRow THEN lost[k] + 1 ELSE lost[k]
    BY DEF EditCommit
  <2> QED
    BY <1>1, <2>1, CommitRow, Numbers DEF RowsTyped, RowsPlaced
<1>5. 0 \notin Pools
  BY AudienceAssumption
<1>6. ASSUME NEW k \in Contacts, lost'[k] = lost[k], row[k].status \in Claimed
      PROVE  row'[k] = row[k]
  <2>1. Kept(pools, k) = row[k]
    BY <1>4, <1>6 DEF Used, Claimed
  <2> QED
    BY <1>4, <1>6, <2>1 DEF AttachedWell, Claimed
<1>7. ASSUME NEW k \in Contacts
      PROVE  CountsHold(k)'
  <2>1. Queued(k)' = Queued(k) /\ Arriving(k)' = Arriving(k)
    BY <1>2 DEF Queued, Arriving
  <2>2. lost'[k] = lost[k] \/ lost'[k] = lost[k] + 1
    BY <1>4
  <2>3. lost'[k] = lost[k] =>
            /\ row[k].status = "sent" => row'[k].status = "sent"
            /\ row'[k].status \in {"none", "pending"} => row[k].status \in {"none", "pending"}
    BY <1>4, <1>6 DEF Claimed, RowType
  <2>4. delivered'[k] = delivered[k] /\ failures'[k] = failures[k]
    BY <1>2
  <2> QED
    BY <2>1, <2>2, <2>3, <2>4, CountsStay DEF HistoryInv
<1>8. PipeEmpty'
  BY <1>2 DEF HistoryInv, PipeEmpty
<1>9. DraftIdle'
  <2> SUFFICES ASSUME camp = "draft", NEW k \in Contacts
               PROVE  /\ row'[k].status \in {"none", "pending"} /\ row'[k].sender = NoServer
                      /\ lost'[k] = 0
    BY <1>2 DEF HistoryInv, DraftIdle
  <2>1. row[k].status \in {"none", "pending"} /\ row[k].sender = NoServer /\ lost[k] = 0
    BY DEF HistoryInv, DraftIdle
  <2>2. lost'[k] = 0
    BY <1>4, <2>1 DEF Used
  <2>3. Kept(pools, k).status \in {"none", "pending"} /\ Kept(pools, k).sender = NoServer
    BY <1>4, <2>1 DEF NoRow
  <2> QED
    BY <1>4, <2>2, <2>3 DEF AttachedWell, NoRow, Claimed
<1>10. ~overtaken' => Selected' /\ ScansSelected'
  <2>1. Selected'
    <3> SUFFICES ASSUME NEW k \in Contacts PROVE row'[k].pool \in pools \cup {0}
      BY <1>3 DEF Selected
    <3>1. Kept(pools, k).pool \in pools \cup {0}
      <4>1. CASE Kept(pools, k) = NoRow
        BY <4>1 DEF NoRow
      <4>2. CASE Kept(pools, k) # NoRow
        <5>1. ~editor.rebuild /\ pools # {}
          BY <1>3, <1>4, <4>2
        <5> QED
          BY <4>2, <5>1 DEF Kept
      <4> QED
        BY <4>1, <4>2
    <3> QED
      BY <1>4, <3>1 DEF AttachedWell, NoRow
  <2>2. ~overtaken' => ScansSelected'
    BY <1>2, <1>3 DEF Overtaken, ScansSelected
  <2> QED
    BY <2>1, <2>2
<1>11. RowsKept
  <2> SUFFICES ASSUME NEW k \in Contacts PROVE RowKept(k)
    BY DEF RowsKept
  <2> DEFINE r == Kept(pools, k)
             x == row'[k]
  <2>1. ASSUME lost'[k] > lost[k] PROVE overtaken'
    <3>1. Used(row[k]) /\ Kept(pools, k) = NoRow
      BY <1>4, <2>1
    <3>2. NoRow # row[k]
      BY <3>1 DEF Used, NoRow
    <3> QED
      BY <3>1, <3>2, UsedKept
  <2>2. lost'[k] = lost[k] /\ row[k].status \in Claimed => row'[k] = row[k]
    BY <1>6
  <2>3. ASSUME lost'[k] = lost[k], row[k].sender # NoServer, x.pool = row[k].pool,
               x.sender # row[k].sender
        PROVE  FALSE
    <3>1. r = row[k]
      BY <1>4, <2>3 DEF Used
    <3>2. row[k].pool # 0
      BY <1>4, <1>5, <2>3 DEF RowPlaced, NoRow
    <3>3. x # NoRow
      BY <2>3, <3>2 DEF NoRow
    <3>4. AttachedWell(r, x, pools, k)
      BY <1>4
    <3> HIDE DEF r, x
    <3>5. x.sender = r.sender \/ x.pool # r.pool
      BY <3>3, <3>4 DEF AttachedWell
    <3> QED
      BY <2>3, <3>1, <3>5
  <2> QED
    BY <2>1, <2>2, <2>3 DEF RowKept, Claimed
<1> QED
  BY <1>7, <1>8, <1>9, <1>10, <1>11 DEF HistoryInv

\* Changes of the master data.
LEMMA MasterHistory ==
    ASSUME PoolsInv, HistoryInv, ChangeMasterData(Received), UNCHANGED sendVars
    PROVE  HistoryInv' /\ RowsKept
<1>1. UNCHANGED <<camp, audience, order, editor, bound>>
  BY MasterStepFrame DEF PoolsInv, PoolsWell, PoolTypes
<1>2. UNCHANGED <<scan, pipe, flight, delivered, failures>>
  BY DEF sendVars
<1>3. UNCHANGED lossVars
  BY MasterLosesNothing
<1>4. CASE UNCHANGED row
  <2>1. camp' = "draft" => camp = "draft" /\ ~scan'.on /\ pipe'.at = "none"
    BY <1>1, <1>2 DEF HistoryInv, DraftIdle
  <2> QED
    BY <1>1, <1>2, <1>3, <1>4, <2>1, RowsLeft
<1>5. CASE row' # row
  <2>1. PICK k \in Received : UnsubscribePoolByCampaign(k)
    BY <1>5, MasterStepFrame DEF PoolsInv, PoolsWell, PoolTypes
  <2>2. /\ k \in Contacts /\ delivered[k] > 0
        /\ row[k].status \in {"pending", "queued", "sent"}
        /\ row' = [row EXCEPT ![k].status = IF @ = "sent" THEN @ ELSE "cancelled"]
    <3>1. k \in Contacts /\ delivered[k] > 0
      BY DEF Received
    <3> QED
      BY <2>1, <3>1 DEF UnsubscribePoolByCampaign
  <2> DEFINE status == IF row[k].status = "sent" THEN row[k].status ELSE "cancelled"
  <2>3. /\ \A x \in Contacts : x # k => row'[x] = row[x]
        /\ row'[k].status = status /\ row'[k].pool = row[k].pool /\ row'[k].org = row[k].org
        /\ row'[k].sender = row[k].sender
    <3>1. RowsTyped
      BY DEF PoolsInv, PoolsWell, PoolTypes
    <3> QED
      BY <2>2, <3>1 DEF RowsTyped, RowType
  <2>4. ASSUME NEW x \in Contacts PROVE CountsHold(x)'
    <3>1. Queued(x)' = Queued(x) /\ Arriving(x)' = Arriving(x)
      BY <1>2 DEF Queued, Arriving
    <3>2. /\ row[x].status = "sent" => row'[x].status = "sent"
          /\ row'[x].status \in {"none", "pending"} => row[x].status \in {"none", "pending"}
      BY <2>3
    <3> QED
      BY <1>2, <1>3, <3>1, <3>2, CountsStay DEF HistoryInv, lossVars
  <2>5. camp' # "draft"
    <3>1. CountsHold(k)
      BY <2>2 DEF HistoryInv
    <3>2. camp # "draft"
      <4> SUFFICES ASSUME camp = "draft" PROVE FALSE
        OBVIOUS
      <4>1. row[k].status \in {"none", "pending"} /\ lost[k] = 0
        BY <2>2 DEF HistoryInv, DraftIdle
      <4>2. delivered[k] + Cardinality(Queued(k)) <= lost[k]
        BY <3>1, <4>1 DEF CountsHold
      <4>3. delivered[k] \in Nat /\ Cardinality(Queued(k)) \in Nat
        BY <2>2, <3>1, Numbers DEF CountsHold
      <4> QED
        BY <2>2, <4>1, <4>2, <4>3
    <3> QED
      BY <1>1, <3>2
  <2>6. PipeEmpty'
    BY <1>2 DEF HistoryInv, PipeEmpty
  <2>7. ASSUME NEW x \in Contacts
        PROVE  /\ row'[x].pool = row[x].pool /\ row'[x].org = row[x].org
               /\ row'[x].sender = row[x].sender
               /\ row[x].status # "none" => row'[x].status # "none"
    BY <2>2, <2>3
  <2> QED
    BY <1>1, <1>2, <1>3, <2>4, <2>5, <2>6, <2>7, MarksKept
<1> QED
  BY <1>4, <1>5

-----------------------------------------------------------------------------

LEMMA UsersHistory ==
    ASSUME PoolsInv, HistoryInv, Start \/ Pause \/ (\E s \in Servers : RemoveServer(s)) \/ NextDay
    PROVE  HistoryInv' /\ RowsKept
<1>1. /\ UNCHANGED <<row, delivered, failures, audience, flight, scan, lossVars>>
      /\ camp' = camp \/ camp' # "draft"
  BY DEF Start, Pause, RemoveServer, NextDay, Controls, sendVars, campVars
<1>2. pipe'.at = pipe.at
  <2>1. pipe \in PipeType
    BY DEF PoolsInv, PoolsWell, PoolTypes, SendTyped
  <2>2. CASE Start \/ NextDay
    BY <2>2 DEF Start, NextDay, sendVars
  <2>3. CASE Pause
    <3>1. pipe' = [pipe EXCEPT !.stop = IF pipe.at = "none" THEN @ ELSE "pause"]
      BY <2>3 DEF Pause
    <3> QED
      BY <2>1, <3>1 DEF PipeType
  <2>4. CASE \E s \in Servers : RemoveServer(s)
    <3>1. pipe' \in {pipe, Stopped("smtp")}
      BY <2>4 DEF RemoveServer
    <3> QED
      BY <2>1, <3>1, StoppedIs
  <2> QED
    BY <2>2, <2>3, <2>4
<1>3. camp' = "draft" => camp = "draft" /\ ~scan'.on /\ pipe'.at = "none"
  BY <1>1, <1>2 DEF HistoryInv, DraftIdle
<1> QED
  BY <1>1, <1>2, <1>3, RowsLeft

\* Steps of the scanner and the pipe that only look.
LEMMA LooksHistory ==
    ASSUME PoolsInv, HistoryInv,
           ScanSelect \/ ScanSkip \/ PipeRead \/ PipeWake \/ ClaimUnavailable
    PROVE  HistoryInv' /\ RowsKept
<1>1. pipe \in PipeType /\ scan \in [on : BOOLEAN, pools : SUBSET Pools]
  BY DEF PoolsInv, PoolsWell, PoolTypes, SendTyped
<1>2. UNCHANGED <<row, delivered, failures, audience, flight, lossVars>>
  BY DEF ScanSelect, ScanSkip, PipeRead, PipeWake, ClaimUnavailable, audienceVars, campVars
<1>3. CASE ScanSelect
  <2>1. camp # "draft" /\ camp' = camp /\ pipe' = pipe /\ scan' = [on |-> TRUE, pools |-> audience]
    BY <1>3 DEF ScanSelect, audienceVars, campVars
  <2> QED
    BY <1>2, <2>1, RowsLeft
<1>4. CASE ScanSkip
  <2>1. scan.on /\ camp' = camp /\ pipe' = pipe /\ scan' = [scan EXCEPT !.on = FALSE]
    BY <1>4 DEF ScanSkip, audienceVars, campVars
  <2>2. scan'.pools = scan.pools
    BY <1>1, <2>1
  <2>3. camp # "draft"
    BY <2>1, Undrafted
  <2> QED
    BY <1>2, <2>1, <2>2, <2>3, RowsLeft
<1>5. CASE PipeRead \/ PipeWake \/ ClaimUnavailable
  <2>1. pipe.at # "none" /\ scan' = scan /\ camp' \in {camp, "deferred"}
    BY <1>5 DEF PipeRead, PipeWake, ClaimUnavailable, audienceVars, campVars
  <2>2. pipe'.at \in {"open", "claim", "ending"}
    <3>1. CASE PipeRead
      BY <1>1, <3>1 DEF PipeRead, PipeType
    <3>2. CASE PipeWake
      BY <1>1, <3>2 DEF PipeWake, PipeType
    <3>3. CASE ClaimUnavailable
      <4> DEFINE d == Stopped("smtp")
      <4>1. d \in PipeType
        BY <1>1, StoppedIs
      <4>2. pipe' = [d EXCEPT !.at = "ending"]
        BY <3>3 DEF ClaimUnavailable
      <4> HIDE DEF d
      <4> QED
        BY <4>1, <4>2 DEF PipeType
    <3> QED
      BY <1>5, <3>1, <3>2, <3>3
  <2>3. camp' # "draft"
    BY <2>1, Undrafted
  <2> QED
    BY <1>2, <2>1, <2>2, <2>3, RowsLeft
<1> QED
  BY <1>3, <1>4, <1>5

LEMMA ScanHistory ==
    ASSUME PoolsInv, HistoryInv, ScanRefresh \/ ScanLoad
    PROVE  HistoryInv' /\ RowsKept
<1>1. MastersTyped /\ CampTyped /\ RowsTyped /\ SendTyped /\ RowsPlaced /\ PipeWorks
  BY DEF PoolsInv, PoolsWell, PoolTypes
<1>2. /\ scan.on /\ pipe.at = "none" /\ flight = {} /\ camp # "draft"
      /\ UNCHANGED <<audience, failures, flight, delivered, lossVars>>
  BY <1>1, Undrafted DEF ScanRefresh, ScanLoad, PipeWorks, HistoryInv, PipeEmpty
<1>3. PipeEmpty'
  BY <1>2 DEF PipeEmpty
<1>4. \A k \in Contacts : Queued(k)' = Queued(k) /\ Arriving(k)' = Arriving(k)
  BY <1>2 DEF Queued, Arriving
<1>5. CASE ScanRefresh
  <2>1. PICK p \in scan.pools :
          /\ p \in Pools /\ scan' = [scan EXCEPT !.pools = @ \ {p}]
          /\ \A k \in Contacts : RefreshedWell(k, p)
    BY <1>1, <1>5, RefreshStep
  <2>2. camp' = camp /\ p # 0
    BY <1>5, <2>1, AudienceAssumption DEF ScanRefresh
  <2>3. ASSUME NEW k \in Contacts PROVE CountsHold(k)'
    <3>1. RefreshedWell(k, p)
      BY <2>1
    <3>2. /\ row[k].status = "sent" => row'[k].status = "sent"
          /\ row'[k].status \in {"none", "pending"} => row[k].status \in {"none", "pending"}
      BY <3>1 DEF RefreshedWell, NoRow
    <3> QED
      BY <1>2, <1>4, <3>2, CountsStay DEF HistoryInv, lossVars
  <2>4. ~overtaken' => Selected' /\ ScansSelected'
    <3>1. \A k \in Contacts : row'[k].pool \in {row[k].pool, 0} \cup scan.pools
      BY <2>1 DEF RefreshedWell, NoRow
    <3>2. scan'.pools \subseteq scan.pools
      BY <1>1, <2>1 DEF SendTyped
    <3> QED
      BY <1>2, <3>1, <3>2, SelectedStays DEF lossVars
  <2>5. RowsKept
    <3> SUFFICES ASSUME NEW k \in Contacts PROVE RowKept(k)
      BY DEF RowsKept
    <3>1. lost'[k] = lost[k] /\ lost[k] \in Nat
      BY <1>2, Numbers DEF lossVars
    <3> QED
      BY <2>1, <2>2, <3>1 DEF RefreshedWell, RowKept, NoRow
  <2> QED
    BY <1>2, <1>3, <2>2, <2>3, <2>4, <2>5 DEF HistoryInv, DraftIdle
<1>6. CASE ScanLoad
  <2> DEFINE exhausted == {k \in Contacts : row[k].status = "pending" /\ Exhausted(k)}
  <2>1. /\ scan' = [scan EXCEPT !.on = FALSE] /\ camp' \in {"finished", "running"}
        /\ row' = [k \in Contacts |-> IF k \in exhausted THEN [row[k] EXCEPT !.status = "failed"]
                                      ELSE row[k]]
    BY <1>6 DEF ScanLoad
  <2>2. scan'.pools = scan.pools
    BY <1>1, <2>1 DEF SendTyped
  <2>3. \A k \in Contacts :
          \/ row'[k] = row[k]
          \/ /\ row[k].status = "pending" /\ row'[k].status = "failed"
             /\ row'[k].pool = row[k].pool /\ row'[k].org = row[k].org
             /\ row'[k].sender = row[k].sender
    BY <1>1, <2>1 DEF RowsTyped, RowType
  <2>4. ASSUME NEW k \in Contacts PROVE CountsHold(k)'
    <3>1. /\ row[k].status = "sent" => row'[k].status = "sent"
          /\ row'[k].status \in {"none", "pending"} => row[k].status \in {"none", "pending"}
      BY <2>3
    <3> QED
      BY <1>2, <1>4, <3>1, CountsStay DEF HistoryInv, lossVars
  <2>5. ASSUME NEW k \in Contacts
        PROVE  /\ row'[k].pool = row[k].pool /\ row'[k].org = row[k].org
               /\ row'[k].sender = row[k].sender
               /\ row[k].status # "none" => row'[k].status # "none"
    BY <2>3
  <2> QED
    BY <1>2, <1>3, <2>1, <2>2, <2>4, <2>5, MarksKept
<1> QED
  BY <1>5, <1>6

-----------------------------------------------------------------------------
(* Claims. *)

\* Each recipient that is taken gets one message more.
LEMMA ClaimFits ==
    ASSUME PoolsInv, HistoryInv, NEW taken \in SUBSET MayClaim, NEW message,
           UNCHANGED <<delivered, failures, lost>>,
           flight' = flight \cup {message[k] : k \in taken},
           \A k \in taken : message[k][1] = k /\ message[k][3] = "queued",
           \A k \in Contacts : row'[k].status = IF k \in taken THEN "queued" ELSE row[k].status,
           NEW k \in Contacts
    PROVE  CountsHold(k)'
<1>1. Arriving(k)' = Arriving(k)
  BY DEF Arriving
<1>2. CASE k \in taken
  <2>1. Queued(k)' = Queued(k) \cup {message[k]}
    BY <1>2 DEF Queued
  <2> QED
    BY <1>1, <1>2, <2>1, ClaimCounts DEF HistoryInv
<1>3. CASE k \notin taken
  <2>1. Queued(k)' = Queued(k)
    BY <1>3 DEF Queued
  <2>2. row'[k].status = row[k].status
    BY <1>3
  <2> QED
    BY <1>1, <1>3, <2>1, <2>2, CountsStay DEF HistoryInv
<1> QED
  BY <1>2, <1>3

LEMMA ClaimOwnHistory ==
    ASSUME PoolsInv, HistoryInv, ClaimOwn
    PROVE  HistoryInv' /\ RowsKept
<1> DEFINE ready == {k \in MayClaim : failures[k] = Round /\ camp = "running"}
           taken == {k \in ready : Cardinality({x \in ready : x < k}) < pipe.limit}
           messages == {<<k, NoServer, "queued", Attempt(k)>> : k \in taken}
           message == [k \in taken |-> <<k, NoServer, "queued", Attempt(k)>>]
<1>1. CampTyped /\ RowsTyped /\ SendTyped /\ PipeWorks
  BY DEF PoolsInv, PoolsWell, PoolTypes
<1>2. /\ pipe.at = "claim"
      /\ row' = [k \in Contacts |-> IF k \in taken THEN [row[k] EXCEPT !.status = "queued"] ELSE row[k]]
      /\ Answered(messages, FALSE)
      /\ UNCHANGED <<audience, failures, scan, delivered, lossVars>>
  BY DEF ClaimOwn
<1>3. taken \in SUBSET MayClaim
  OBVIOUS
<1> HIDE DEF taken
<1>4. /\ \A k \in taken : message[k][1] = k /\ message[k][3] = "queued"
      /\ messages = {message[k] : k \in taken}
  OBVIOUS
<1> HIDE DEF message, messages
<1>5. /\ flight' = flight \cup messages
      /\ pipe'.at \in {"open", "waiting", "ending"} /\ camp' \in {camp, "deferred"}
  BY <1>1, <1>2, AnsweredIs
<1>6. ASSUME NEW k \in Contacts
      PROVE  /\ row'[k].status = IF k \in taken THEN "queued" ELSE row[k].status
             /\ row'[k].pool = row[k].pool /\ row'[k].org = row[k].org
             /\ row'[k].sender = row[k].sender
  <2>1. row[k] \in RowType
    BY <1>1 DEF RowsTyped
  <2>2. row'[k] = IF k \in taken THEN [row[k] EXCEPT !.status = "queued"] ELSE row[k]
    BY <1>2
  <2> QED
    BY <2>1, <2>2 DEF RowType
<1>7. UNCHANGED <<delivered, failures, lost>> /\ flight' = flight \cup {message[k] : k \in taken}
  BY <1>2, <1>4, <1>5 DEF lossVars
<1>8. ASSUME NEW k \in Contacts PROVE CountsHold(k)'
  <2>1. \A x \in taken : message[x][1] = x /\ message[x][3] = "queued"
    BY <1>4
  <2>2. \A x \in Contacts : row'[x].status = IF x \in taken THEN "queued" ELSE row[x].status
    BY <1>6
  <2> QED
    BY <1>3, <1>7, <2>1, <2>2, ClaimFits
<1>9. camp' # "draft" /\ PipeEmpty'
  BY <1>2, <1>5, Undrafted DEF PipeEmpty
<1> QED
  BY <1>2, <1>6, <1>8, <1>9, MarksKept

\* The recipient that is taken for an organization is one of its rows.
LEMMA FirstIs ==
    ASSUME NEW o, Serves(o)
    PROVE  FirstOf(o) \in MayClaim /\ row[FirstOf(o)].org = o
<1> DEFINE R == ReadyOf(o)
<1>1. R # {} /\ R \subseteq Contacts
  BY DEF Serves, ReadyOf, MayClaim
<1>2. R \in SUBSET Nat /\ IsFiniteSet(R)
  BY <1>1, AudienceAssumption, FS_Subset
<1> HIDE DEF R
<1>3. Min(R) \in R
  BY <1>1, <1>2, MinIs
<1> QED
  BY <1>3 DEF R, FirstOf, ReadyOf

LEMMA ClaimAllHistory ==
    ASSUME PoolsInv, HistoryInv, ClaimAll
    PROVE  HistoryInv' /\ RowsKept
<1>1. CampTyped /\ RowsTyped /\ SendTyped /\ PipeWorks
  BY DEF PoolsInv, PoolsWell, PoolTypes
<1>2. PICK turns \in Orders :
        LET served == {At(turns, i) : i \in ServedVisits(turns)}
            taken == {FirstOf(o) : o \in served}
            noServer == \E i \in 0..(Visits(turns) - 1) :
                            ReadyOf(At(turns, i)) # {} /\ ServerOf(At(turns, i)) = NoServer
        IN  /\ row' = [k \in Contacts |->
                    IF k \in taken
                    THEN [row[k] EXCEPT !.status = "queued", !.sender = ServerOf(row[k].org)]
                    ELSE row[k]]
            /\ Answered({<<k, ServerOf(row[k].org), "queued", Attempt(k)>> : k \in taken}, noServer)
  BY DEF ClaimAll
<1> DEFINE served == {At(turns, i) : i \in ServedVisits(turns)}
           taken == {FirstOf(o) : o \in served}
           messages == {<<k, ServerOf(row[k].org), "queued", Attempt(k)>> : k \in taken}
           message == [k \in taken |-> <<k, ServerOf(row[k].org), "queued", Attempt(k)>>]
           noServer == \E i \in 0..(Visits(turns) - 1) :
                            ReadyOf(At(turns, i)) # {} /\ ServerOf(At(turns, i)) = NoServer
<1>3. /\ row' = [k \in Contacts |-> IF k \in taken
                    THEN [row[k] EXCEPT !.status = "queued", !.sender = ServerOf(row[k].org)]
                    ELSE row[k]]
      /\ Answered(messages, noServer) /\ noServer \in BOOLEAN
  BY <1>2
<1>4. /\ pipe.at = "claim"
      /\ UNCHANGED <<audience, failures, scan, delivered, lossVars>>
  BY DEF ClaimAll
<1>5. \A k \in taken : k \in MayClaim /\ k = FirstOf(row[k].org)
  <2> SUFFICES ASSUME NEW i \in ServedVisits(turns)
               PROVE  LET k == FirstOf(At(turns, i)) IN k \in MayClaim /\ k = FirstOf(row[k].org)
    OBVIOUS
  <2>1. Serves(At(turns, i))
    BY DEF ServedVisits
  <2> DEFINE o == At(turns, i)
  <2> HIDE DEF o
  <2>2. FirstOf(o) \in MayClaim /\ row[FirstOf(o)].org = o
    BY <2>1, FirstIs DEF o
  <2> QED
    BY <2>2 DEF o
<1> HIDE DEF taken
<1>6. /\ \A k \in taken : message[k][1] = k /\ message[k][3] = "queued"
      /\ messages = {message[k] : k \in taken}
  OBVIOUS
<1> HIDE DEF message, messages
<1> HIDE DEF noServer
<1>7. /\ flight' = flight \cup messages
      /\ pipe'.at \in {"open", "waiting", "ending"} /\ camp' \in {camp, "deferred"}
  BY <1>1, <1>3, <1>4, AnsweredIs
<1>8. ASSUME NEW k \in Contacts
      PROVE  /\ row'[k].status = IF k \in taken THEN "queued" ELSE row[k].status
             /\ row'[k].pool = row[k].pool /\ row'[k].org = row[k].org
             /\ row'[k].sender = IF k \in taken THEN ServerOf(row[k].org) ELSE row[k].sender
  <2>1. row[k] \in RowType
    BY <1>1 DEF RowsTyped
  <2>2. row'[k] = IF k \in taken
                  THEN [row[k] EXCEPT !.status = "queued", !.sender = ServerOf(row[k].org)]
                  ELSE row[k]
    BY <1>3
  <2> QED
    BY <2>1, <2>2 DEF RowType
<1>9. ASSUME NEW k \in Contacts PROVE CountsHold(k)'
  <2>1. taken \in SUBSET MayClaim
    BY <1>5
  <2>2. UNCHANGED <<delivered, failures, lost>> /\ flight' = flight \cup {message[x] : x \in taken}
    BY <1>4, <1>6, <1>7 DEF lossVars
  <2>3. \A x \in taken : message[x][1] = x /\ message[x][3] = "queued"
    BY <1>6
  <2>4. \A x \in Contacts : row'[x].status = IF x \in taken THEN "queued" ELSE row[x].status
    BY <1>8
  <2> QED
    BY <2>1, <2>2, <2>3, <2>4, ClaimFits
<1>10. camp' # "draft" /\ PipeEmpty'
  BY <1>4, <1>7, Undrafted DEF PipeEmpty
<1>11. ASSUME NEW k \in Contacts
       PROVE  /\ \/ row'[k].sender = row[k].sender
                 \/ row[k].status = "pending" /\ ~HasQuota(row[k].sender)
              /\ row[k].status # "none" => row'[k].status # "none"
  <2>1. CASE k \notin taken
    BY <1>8, <2>1
  <2>2. CASE k \in taken
    <3>1. row[k].status = "pending" /\ k = FirstOf(row[k].org)
      BY <1>5, <2>2 DEF MayClaim
    <3>2. HasQuota(row[k].sender) => ServerOf(row[k].org) = row[k].sender
      BY <3>1 DEF ServerOf, Sender
    <3> QED
      BY <1>8, <2>2, <3>1, <3>2
  <2> QED
    BY <2>1, <2>2
<1> QED
  BY <1>4, <1>8, <1>9, <1>10, <1>11, MarksKept

LEMMA CleanupHistory ==
    ASSUME PoolsInv, HistoryInv, Cleanup
    PROVE  HistoryInv' /\ RowsKept
<1> DEFINE released == pipe.stop # "none" \/ pipe.deferred
<1>1. RowsTyped
  BY DEF PoolsInv, PoolsWell, PoolTypes
<1>2. /\ pipe.at = "ending" /\ flight = {} /\ flight' = {}
      /\ row' = [k \in Contacts |-> IF released /\ row[k].status = "queued"
                                    THEN [row[k] EXCEPT !.status = "pending"] ELSE row[k]]
      /\ camp' \in {camp, "paused", "finished"}
      /\ UNCHANGED <<audience, failures, scan, delivered, lossVars>>
  BY DEF Cleanup, Drained
<1>3. \A k \in Contacts :
        \/ row'[k] = row[k]
        \/ /\ row[k].status = "queued" /\ row'[k].status = "pending"
           /\ row'[k].pool = row[k].pool /\ row'[k].org = row[k].org
           /\ row'[k].sender = row[k].sender
  BY <1>1, <1>2 DEF RowsTyped, RowType
<1>4. ASSUME NEW k \in Contacts PROVE CountsHold(k)'
  <2>1. Queued(k)' = Queued(k) /\ Arriving(k)' = Arriving(k)
    BY <1>2 DEF Queued, Arriving
  <2>2. /\ row[k].status = "sent" => row'[k].status = "sent"
        /\ row'[k].status \in {"none", "pending"} =>
            row[k].status \in {"none", "pending"} \/ row[k].status # "sent"
    BY <1>3
  <2> QED
    BY <1>2, <2>1, <2>2, CountsStay DEF HistoryInv, lossVars
<1>5. PipeEmpty' /\ camp' # "draft"
  BY <1>2, Undrafted DEF PipeEmpty
<1>6. ASSUME NEW k \in Contacts
      PROVE  /\ row'[k].pool = row[k].pool /\ row'[k].org = row[k].org
             /\ row'[k].sender = row[k].sender
             /\ row[k].status # "none" => row'[k].status # "none"
  BY <1>3
<1> QED
  BY <1>2, <1>4, <1>5, <1>6, MarksKept

-----------------------------------------------------------------------------
(* Workers. *)

\* Only one contact's messages change when a worker is done with one.
LEMMA OthersStay ==
    ASSUME PoolsInv, HistoryInv, NEW x \in Contacts,
           \A a : a[1] = x => (a \in flight' <=> a \in flight), lost' = lost,
           row'[x] = row[x], failures'[x] = failures[x], delivered'[x] = delivered[x]
    PROVE  CountsHold(x)'
<1>1. Queued(x)' = Queued(x) /\ Arriving(x)' = Arriving(x)
  BY DEF Queued, Arriving
<1> QED
  BY <1>1, CountsStay DEF HistoryInv

\* The pipe is there while a worker has a message, and the campaign was started.
LEMMA WorkerLeaves ==
    ASSUME PoolsInv, HistoryInv, flight # {}, SendUnchanged, camp' \in {camp, "deferred"},
           pipe'.at = pipe.at,
           \A x \in Contacts :
                /\ CountsHold(x)'
                /\ row'[x].pool = row[x].pool /\ row'[x].org = row[x].org
                /\ row'[x].sender = row[x].sender
                /\ row[x].status # "none" => row'[x].status # "none"
    PROVE  HistoryInv' /\ RowsKept
<1>1. /\ pipe'.at # "none" /\ camp' # "draft"
      /\ UNCHANGED <<audience, lossVars, scan>>
  BY Undrafted DEF HistoryInv, PipeEmpty, SendUnchanged
<1> QED
  BY <1>1, MarksKept DEF PipeEmpty

\* A worker is done with a message that no server has.
LEMMA TakenHistory ==
    ASSUME PoolsInv, HistoryInv, NEW k \in Contacts, NEW s, NEW n,
           <<k, s, "queued", n>> \in flight, flight' = flight \ {<<k, s, "queued", n>>},
           SendUnchanged, delivered' = delivered, camp' \in {camp, "deferred"}, pipe'.at = pipe.at,
           failures' = failures \/ failures' = [failures EXCEPT ![k] = @ + 1],
           \A x \in Contacts : x # k => row'[x] = row[x],
           row'[k].pool = row[k].pool, row'[k].org = row[k].org, row'[k].sender = row[k].sender,
           row[k].status # "none" => row'[k].status # "none",
           row[k].status = "sent" => row'[k].status = "sent"
    PROVE  HistoryInv' /\ RowsKept
<1> DEFINE m == <<k, s, "queued", n>>
<1>1. m \in flight /\ flight' = flight \ {m} /\ m[1] = k /\ m[3] = "queued"
  OBVIOUS
<1>2. failures \in [Contacts -> Nat] /\ lost' = lost
  BY DEF PoolsInv, PoolsWell, PoolTypes, SendTyped, SendUnchanged, lossVars
<1>3. /\ failures'[k] = failures[k] \/ failures'[k] = failures[k] + 1
      /\ \A x \in Contacts : x # k => failures'[x] = failures[x]
  BY <1>2
<1> HIDE DEF m
<1>4. CountsHold(k)'
  <2>1. m \in Queued(k) /\ Queued(k)' = Queued(k) \ {m} /\ Arriving(k)' = Arriving(k)
    BY <1>1 DEF Queued, Arriving
  <2>2. CountsHold(k) /\ delivered'[k] = delivered[k]
    BY DEF HistoryInv
  <2> QED
    BY <1>2, <1>3, <2>1, <2>2, TakenCounts
<1>5. ASSUME NEW x \in Contacts, x # k PROVE CountsHold(x)'
  <2>1. \A a : a[1] = x => (a \in flight' <=> a \in flight)
    BY <1>1, <1>5
  <2>2. failures'[x] = failures[x] /\ delivered'[x] = delivered[x] /\ row'[x] = row[x]
    BY <1>3, <1>5
  <2> QED
    BY <1>2, <2>1, <2>2, OthersStay
<1> QED
  BY <1>1, <1>4, <1>5, WorkerLeaves

LEMMA DropHistory ==
    ASSUME PoolsInv, HistoryInv, NEW k \in Contacts, NEW s, NEW n,
           DropMessage(k, s, n) \/ QuotaSpent(k, s, n)
    PROVE  HistoryInv' /\ RowsKept
<1>1. /\ <<k, s, "queued", n>> \in flight /\ flight' = flight \ {<<k, s, "queued", n>>}
      /\ camp' \in {camp, "deferred"}
      /\ SendUnchanged /\ UNCHANGED <<row, failures, delivered>>
  BY DEF DropMessage, QuotaSpent, MaySend, Sending
<1>2. pipe \in PipeType
  BY DEF PoolsInv, PoolsWell, PoolTypes, SendTyped
<1>3. pipe'.at = pipe.at
  <2>1. CASE DropMessage(k, s, n)
    BY <1>2, <2>1, DoneIs DEF DropMessage
  <2>2. CASE QuotaSpent(k, s, n)
    <3> DEFINE d == Stopped("deferred")
               put == [d EXCEPT !.deferred = TRUE]
    <3>1. /\ d \in PipeType /\ d.at = pipe.at
          /\ Stopped("pause") \in PipeType /\ Stopped("pause").at = pipe.at
      BY <1>2, StoppedIs
    <3>2. pipe' \in {Done(put), Done(Stopped("pause"))}
      BY <2>2 DEF QuotaSpent
    <3> HIDE DEF d
    <3>3. put \in PipeType /\ put.at = pipe.at
      BY <3>1 DEF PipeType
    <3> HIDE DEF put
    <3> QED
      BY <3>1, <3>2, <3>3, DoneIs
  <2> QED
    BY <2>1, <2>2
<1> QED
  BY <1>1, <1>3, TakenHistory

LEMMA RouteClosedHistory ==
    ASSUME PoolsInv, HistoryInv, NEW k \in Contacts, NEW s, NEW n,
           RouteClosed(k, s, n) \/ ServerGone(k, s, n)
    PROVE  HistoryInv' /\ RowsKept
<1>1. /\ <<k, s, "queued", n>> \in flight /\ flight' = flight \ {<<k, s, "queued", n>>}
      /\ Recorded(k) /\ SendUnchanged /\ camp' = camp /\ delivered' = delivered
      /\ pipe' \in {Done(Stopped("pause")), Done(Stopped("smtp"))}
  BY DEF RouteClosed, ServerGone, MaySend, Sending
<1>2. pipe \in PipeType /\ RowsTyped /\ SendTyped
  BY DEF PoolsInv, PoolsWell, PoolTypes, SendTyped
<1>3. pipe'.at = pipe.at
  <2>1. /\ Stopped("pause") \in PipeType /\ Stopped("pause").at = pipe.at
        /\ Stopped("smtp") \in PipeType /\ Stopped("smtp").at = pipe.at
    BY <1>2, StoppedIs
  <2> QED
    BY <1>1, <2>1, DoneIs
<1>4. /\ failures' = [failures EXCEPT ![k] = @ + 1]
      /\ \A x \in Contacts : x # k => row'[x] = row[x]
      /\ row'[k].pool = row[k].pool /\ row'[k].org = row[k].org /\ row'[k].sender = row[k].sender
  BY <1>1, <1>2, RecordedIs
<1>5. /\ row[k].status # "none" => row'[k].status # "none"
      /\ row[k].status = "sent" => row'[k].status = "sent"
  BY <1>1, <1>2 DEF Recorded, RowsTyped, RowType
<1> QED
  BY <1>1, <1>3, <1>4, <1>5, TakenHistory

LEMMA RefuseHistory ==
    ASSUME PoolsInv, HistoryInv, NEW k \in Contacts, NEW s, NEW n, Refuse(k, s, n)
    PROVE  HistoryInv' /\ RowsKept
<1> DEFINE status == IF row[k].status \in {"none", "sent", "failed"} THEN row[k].status
                     ELSE IF row[k].status # "cancelled" /\ failures'[k] > MaxRetries THEN "failed"
                     ELSE "pending"
<1>1. /\ <<k, s, "queued", n>> \in flight /\ flight' = flight \ {<<k, s, "queued", n>>}
      /\ SendUnchanged /\ camp' = camp /\ delivered' = delivered /\ pipe' = Done(pipe)
      /\ failures' = [failures EXCEPT ![k] = @ + 1]
      /\ row' = [row EXCEPT ![k].status = status]
  BY DEF Refuse, MaySend, Sending
<1>2. pipe \in PipeType /\ RowsTyped
  BY DEF PoolsInv, PoolsWell, PoolTypes, SendTyped
<1>3. pipe'.at = pipe.at
  BY <1>1, <1>2, DoneIs
<1>4. /\ row[k].status # "none" => status # "none"
      /\ row[k].status = "sent" => status = "sent"
  OBVIOUS
<1> HIDE DEF status
<1>5. /\ \A x \in Contacts : x # k => row'[x] = row[x]
      /\ row'[k].status = status
      /\ row'[k].pool = row[k].pool /\ row'[k].org = row[k].org /\ row'[k].sender = row[k].sender
  BY <1>1, <1>2 DEF RowsTyped, RowType
<1> QED
  BY <1>1, <1>3, <1>4, <1>5, TakenHistory

LEMMA MarkSentHistory ==
    ASSUME PoolsInv, HistoryInv, NEW k \in Contacts, NEW s, NEW n, MarkSent(k, s, n)
    PROVE  HistoryInv' /\ RowsKept
<1> DEFINE m == <<k, s, "accepted", n>>
           status == IF row[k].status = "none" THEN row[k].status ELSE "sent"
<1>1. /\ m \in flight /\ flight' = flight \ {m} /\ SendUnchanged
      /\ UNCHANGED <<camp, failures, delivered>> /\ pipe' = Done(pipe)
      /\ row' = [row EXCEPT ![k].status = status]
  BY DEF MarkSent
<1>2. pipe \in PipeType /\ RowsTyped /\ lost' = lost
  BY <1>1 DEF PoolsInv, PoolsWell, PoolTypes, SendTyped, SendUnchanged, lossVars
<1>3. pipe'.at = pipe.at
  BY <1>1, <1>2, DoneIs
<1>4. m[1] = k /\ m[3] = "accepted"
  OBVIOUS
<1>5. status = IF row[k].status = "none" THEN "none" ELSE "sent"
  OBVIOUS
<1> HIDE DEF m, status
<1>6. /\ \A x \in Contacts : x # k => row'[x] = row[x]
      /\ row'[k].status = status
      /\ row'[k].pool = row[k].pool /\ row'[k].org = row[k].org /\ row'[k].sender = row[k].sender
  BY <1>1, <1>2 DEF RowsTyped, RowType
<1>7. CountsHold(k)'
  <2>1. Queued(k)' = Queued(k)
    BY <1>1, <1>4 DEF Queued
  <2>2. UNCHANGED <<delivered, failures, lost>>
    BY <1>1, <1>2
  <2> QED
    BY <1>5, <1>6, <2>1, <2>2, MarkedCounts DEF HistoryInv
<1>8. ASSUME NEW x \in Contacts, x # k PROVE CountsHold(x)'
  <2>1. \A a : a[1] = x => (a \in flight' <=> a \in flight)
    BY <1>1, <1>4, <1>8
  <2>2. failures'[x] = failures[x] /\ delivered'[x] = delivered[x] /\ row'[x] = row[x]
    BY <1>1, <1>6, <1>8
  <2> QED
    BY <1>2, <2>1, <2>2, OthersStay
<1> QED
  BY <1>1, <1>3, <1>5, <1>6, <1>7, <1>8, WorkerLeaves

LEMMA AcceptHistory ==
    ASSUME PoolsInv, HistoryInv, NEW k \in Contacts, NEW s, NEW n, NEW t \in Servers,
           Accept(k, s, t, n)
    PROVE  HistoryInv' /\ RowsKept
<1> DEFINE m == <<k, s, "queued", n>>
           a == <<k, s, "accepted", n>>
<1>1. /\ m \in flight /\ flight' = (flight \ {m}) \cup {a} /\ SendUnchanged
      /\ UNCHANGED <<camp, row, failures, pipe>>
      /\ delivered' = [delivered EXCEPT ![k] = @ + 1]
  BY DEF Accept, MaySend, Sending
<1>2. m[1] = k /\ m[3] = "queued" /\ a[1] = k /\ a[3] = "accepted"
  OBVIOUS
<1> HIDE DEF m, a
<1>3. lost' = lost
  BY <1>1 DEF SendUnchanged, lossVars
<1>4. delivered'[k] = delivered[k] + 1 /\ \A x \in Contacts : x # k => delivered'[x] = delivered[x]
  <2>1. delivered \in [Contacts -> Nat]
    BY DEF PoolsInv, PoolsWell, PoolTypes, SendTyped
  <2> QED
    BY <1>1, <2>1
<1>5. CountsHold(k)'
  <2>1. m \in Queued(k) /\ Queued(k)' = Queued(k) \ {m} /\ a \in Arriving(k)'
    BY <1>1, <1>2 DEF Queued, Arriving
  <2>2. CountsHold(k) /\ failures'[k] = failures[k] /\ row'[k] = row[k] /\ Arriving(k)' # {}
    BY <1>1, <2>1 DEF HistoryInv
  <2> QED
    BY <1>3, <1>4, <2>1, <2>2, TakenCounts
<1>6. ASSUME NEW x \in Contacts, x # k PROVE CountsHold(x)'
  <2>1. failures'[x] = failures[x] /\ row'[x] = row[x] /\ delivered'[x] = delivered[x]
    BY <1>1, <1>4, <1>6
  <2>2. \A b : b[1] = x => (b \in flight' <=> b \in flight)
    BY <1>1, <1>2, <1>6
  <2> QED
    BY <1>3, <2>1, <2>2, OthersStay
<1> QED
  BY <1>1, <1>5, <1>6, WorkerLeaves

LEMMA WorkHistory ==
    ASSUME PoolsInv, HistoryInv, NEW k \in Contacts, NEW s \in Senders, Work(k, s)
    PROVE  HistoryInv' /\ RowsKept
BY DropHistory, RouteClosedHistory, AcceptHistory, MarkSentHistory, RefuseHistory DEF Work

-----------------------------------------------------------------------------

LEMMA HistoryInitially ==
    ASSUME PoolInit
    PROVE  HistoryInv
<1>1. /\ \A k \in Contacts : row[k] = NoRow /\ lost[k] = 0
      /\ camp = "draft"
  BY DEF PoolInit, AudienceInit
<1>2. /\ flight = {} /\ scan = [on |-> FALSE, pools |-> {}] /\ pipe.at = "none"
      /\ \A k \in Contacts : delivered[k] = 0 /\ failures[k] = 0
  BY DEF PoolInit, NoPipe
<1>3. ASSUME NEW k \in Contacts PROVE CountsHold(k)
  <2>1. Queued(k) = {} /\ Cardinality({}) = 0 /\ IsFiniteSet({})
    BY <1>2, FS_EmptySet DEF Queued
  <2>2. MaxRetries \in Nat
    BY AllocatorAssumption
  <2> QED
    BY <1>1, <1>2, <1>3, <2>1, <2>2 DEF CountsHold
<1>4. Selected /\ DraftIdle /\ ScansSelected
  BY <1>1, <1>2 DEF Selected, DraftIdle, NoRow, ScansSelected
<1> QED
  BY <1>2, <1>3, <1>4 DEF HistoryInv, PipeEmpty

LEMMA HistoryStutter ==
    ASSUME PoolsInv, HistoryInv, UNCHANGED poolVars
    PROVE  HistoryInv' /\ RowsKept
<1>1. UNCHANGED <<row, delivered, failures, audience, flight, pipe, scan, camp, lossVars>>
  BY DEF poolVars, audienceVars, campVars, sendVars
<1>2. camp' = "draft" => camp = "draft" /\ ~scan'.on /\ pipe'.at = "none"
  BY <1>1 DEF HistoryInv, DraftIdle
<1> QED
  BY <1>1, <1>2, RowsLeft

LEMMA HistoryNext ==
    ASSUME PoolsInv, HistoryInv, [PoolNext]_poolVars
    PROVE  HistoryInv' /\ RowsKept
<1>1. CASE UNCHANGED poolVars
  BY <1>1, HistoryStutter
<1>2. CASE EditCampaign /\ UNCHANGED sendVars
  BY <1>2, EditReadHistory, EditCommitHistory DEF EditCampaign, EditEnd
<1>3. CASE EditEnd /\ UNCHANGED sendVars
  BY <1>3, EditReadHistory, EditCommitHistory DEF EditEnd
<1>4. CASE ChangeMasterData(Received) /\ UNCHANGED sendVars
  BY <1>4, MasterHistory
<1>5. CASE Start \/ Pause \/ (\E s \in Servers : RemoveServer(s)) \/ NextDay
  BY <1>5, UsersHistory
<1>6. CASE Scanner
  BY <1>6, LooksHistory, ScanHistory DEF Scanner
<1>7. CASE Pipe
  BY <1>7, LooksHistory, ClaimOwnHistory, ClaimAllHistory, CleanupHistory DEF Pipe
<1>8. CASE \E k \in Contacts, s \in Senders : Work(k, s)
  BY <1>8, WorkHistory
<1> QED
  BY <1>1, <1>2, <1>3, <1>4, <1>5, <1>6, <1>7, <1>8 DEF PoolNext, Steps

\* Who was handed to delivery keeps row, organization and sender, gets one message, and fails
\* no more often than may be retried.  Only an update that was overtaken, or one after it,
\* deletes the row of somebody who was handed over, and each deletion may cost that contact one
\* message and one failure more (HistoryKept, poolSnapshotRefreshStatuses, syncCampaignAudienceTx).
THEOREM HistoryIsKept == PoolSpec => HistoryKept
<1>1. PoolInit => HistoryInv
  BY HistoryInitially
<1>2. PoolsInv /\ HistoryInv /\ [PoolNext]_poolVars => HistoryInv'
  BY HistoryNext
<1>3. PoolsInv /\ PoolsInv' /\ HistoryInv /\ [PoolNext]_poolVars =>
        [\A k \in Contacts :
            /\ delivered'[k] <= 1 + lost'[k] /\ failures'[k] <= MaxRetries + 1 + lost'[k]
            /\ lost'[k] > lost[k] => overtaken'
            /\ lost'[k] = lost[k] =>
                /\ row[k].status \in {"queued", "sent", "failed", "cancelled"} =>
                    /\ row'[k].status # "none"
                    /\ row'[k].pool = row[k].pool /\ row'[k].org = row[k].org
                    /\ row'[k].sender = row[k].sender
                /\ /\ row[k].sender # NoServer /\ row'[k].pool = row[k].pool
                   /\ row'[k].sender # row[k].sender
                   => ~HasQuota(row[k].sender)]_poolVars
  <2> SUFFICES ASSUME PoolsInv, PoolsInv', HistoryInv, [PoolNext]_poolVars, NEW k \in Contacts
               PROVE  /\ delivered'[k] <= 1 + lost'[k] /\ failures'[k] <= MaxRetries + 1 + lost'[k]
                      /\ RowKept(k)
    BY DEF RowKept
  <2>1. CountsHold(k)' /\ RowsKept
    BY HistoryNext DEF HistoryInv
  <2>2. /\ delivered'[k] \in Nat /\ failures'[k] \in Nat /\ lost'[k] \in Nat
        /\ MaxRetries \in Nat
    BY AllocatorAssumption DEF PoolsInv, PoolsWell, PoolTypes, SendTyped, HistoryTyped
  <2>3. Cardinality(Queued(k)') \in Nat
    BY <2>1, FS_CardinalityType DEF CountsHold
  <2> DEFINE c == Cardinality(Queued(k)')
  <2>4. delivered'[k] + c <= 1 + lost'[k] /\ failures'[k] + c <= MaxRetries + 1 + lost'[k]
    BY <2>1 DEF CountsHold
  <2> HIDE DEF c
  <2>5. delivered'[k] <= 1 + lost'[k] /\ failures'[k] <= MaxRetries + 1 + lost'[k]
    BY <2>2, <2>3, <2>4 DEF c
  <2> QED
    BY <2>1, <2>5 DEF RowsKept
<1> QED
  BY <1>1, <1>2, <1>3, PoolsHold, PTL DEF PoolSpec, HistoryKept
=============================================================================
