---------------------------- MODULE PoolAudience ----------------------------
(***************************************************************************)
(* Public pools: contacts, the allocations that hand them to organizations *)
(* (internal/core/pools.go, pool_allocation_management.go), exclusions,    *)
(* and the snapshot of recipients that a campaign keeps of them            *)
(* (pools_tx.go, campaign_audience_tx.go).                                 *)
(*                                                                         *)
(* One campaign of organization Home selects pools, either for Home alone  *)
(* or for every organization with an allocation.  Each step is one         *)
(* transaction.  Lists stay active, and reply mailboxes are usable.        *)
(***************************************************************************)
EXTENDS Integers, FiniteSets, SequencesExt

CONSTANTS
    Pools,          \* first-level pools, by list id
    Orgs,           \* organizations, by id
    Contacts,       \* pool contacts, by id
    Home,           \* the campaign's organization
    Address,        \* the address of a contact; contacts may share one
    Servers,        \* SMTP servers of the sender
    NoServer,       \* no sender assigned
    PoolBounds      \* the scenarios: the campaign's scope, and what may happen how often

PoolOperations ==
    {"grant", "create", "update", "import", "allocate", "assign", "state", "member", "clear",
     "delete", "archive", "feedback"}

ASSUME AudienceAssumption ==
    /\ Pools \subseteq Nat \ {0} /\ Orgs \subseteq Nat \ {0} /\ Contacts \subseteq Nat \ {0}
    /\ IsFiniteSet(Pools) /\ IsFiniteSet(Orgs) /\ IsFiniteSet(Contacts)
    /\ Home \in Orgs
    /\ NoServer \notin Servers
    /\ \A b \in PoolBounds :
        /\ b.scope \in {"organization", "all"}
        /\ b.filled \subseteq Pools \X Orgs \X Contacts     \* the members at the start
        /\ b.operations \subseteq PoolOperations /\ b.changes \in Nat
        /\ b.controls \in Nat /\ b.edits \in Nat /\ b.spanning \in BOOLEAN
        /\ b.refusals \in Nat /\ b.days \in Nat /\ b.batch \in Nat \ {0}   \* the size of a batch

VARIABLES
    contact,    \* pool_contacts.status
    department,  \* pool_contacts.allocation_department, as the organization it names
    inPool,     \* pool_members
    org,        \* organizations.status
    allocation,  \* org_pool_allocations.state per pool and organization
    member,     \* org_pool_allocation_members.status per pool, organization and contact
    excluded,   \* org_pool_allocation_exclusions that are not restored
    grant,      \* pool_organization_permissions
    camp,       \* the campaign's status
    audience,   \* campaign_customer_lists: the pools it selects
    order,      \* campaign_pool_org_orders
    row,        \* campaign_pool_recipients
    editor,     \* an update of the campaign, from its reads to its transaction
    bound,      \* the scenario
    budget,     \* what the scenario still allows
    fresh,      \* history: pools whose snapshot nothing has outdated since
    lost,       \* history: how often an update deleted the row of a contact that was used
    overtaken   \* history: an update committed what it had decided too early

masterVars == <<contact, department, inPool, org, allocation, member, excluded, grant>>
campVars == <<camp, audience, order, row, editor>>
lossVars == <<lost, overtaken>>
audienceVars == <<masterVars, campVars, bound, budget, fresh, lossVars>>

AllScope == bound.scope = "all"
NoRow == [status |-> "none", pool |-> 0, org |-> 0, sender |-> NoServer]
NoEdit == [at |-> "none", rebuild |-> FALSE, pools |-> {}]

AudienceTypeOK ==
    /\ contact \in [Contacts -> {"absent", "active", "archived", "blocklisted", "deleted"}]
    /\ department \in [Contacts -> Orgs]
    /\ inPool \subseteq Pools \X Contacts
    /\ org \in [Orgs -> {"active", "archived"}]
    /\ allocation \in [Pools -> [Orgs -> {"none", "active", "disabled", "detached"}]]
    /\ member \in [Pools -> [Orgs -> [Contacts -> {"none", "active", "removed"}]]]
    /\ excluded \subseteq Pools \X Orgs \X Contacts
    /\ grant \subseteq Pools \X Orgs
    /\ camp \in {"draft", "running", "paused", "deferred", "finished"}
    /\ audience \subseteq Pools
    /\ order \in Seq(Orgs) /\ IsInjective(order)
    /\ row \in [Contacts ->
                [status : {"none", "pending", "queued", "sent", "failed", "cancelled"},
                 pool : Pools \cup {0}, org : Orgs \cup {0}, sender : Servers \cup {NoServer}]]
    /\ editor \in [at : {"none", "read"}, rebuild : BOOLEAN, pools : SUBSET Pools]
    /\ bound \in PoolBounds
    /\ budget \in [changes : Nat, controls : Nat, edits : Nat, refusals : Nat, days : Nat]
    /\ fresh \subseteq Pools
    /\ lost \in [Contacts -> Nat] /\ overtaken \in BOOLEAN

AudienceInit ==
    /\ bound \in PoolBounds
    /\ budget = [changes |-> bound.changes, controls |-> bound.controls, edits |-> bound.edits,
                refusals |-> bound.refusals, days |-> bound.days]
    /\ contact = [k \in Contacts |-> IF \E m \in bound.filled : m[3] = k THEN "active" ELSE "absent"]
    /\ inPool = {<<m[1], m[3]>> : m \in bound.filled}
    /\ allocation = [p \in Pools |-> [o \in Orgs |->
                        IF \E m \in bound.filled : m[1] = p /\ m[2] = o THEN "active" ELSE "none"]]
    /\ member = [p \in Pools |-> [o \in Orgs |-> [k \in Contacts |->
                    IF <<p, o, k>> \in bound.filled THEN "active" ELSE "none"]]]
    /\ grant = {<<m[1], m[2]>> : m \in bound.filled}
    /\ department = [k \in Contacts |-> Home]
    /\ org = [o \in Orgs |-> "active"]
    /\ excluded = {}
    /\ camp = "draft" /\ audience = {} /\ order = << >>
    /\ row = [k \in Contacts |-> NoRow]
    /\ editor = NoEdit
    /\ fresh = {}
    /\ lost = [k \in Contacts |-> 0] /\ overtaken = FALSE

-----------------------------------------------------------------------------
(* Who may be sent to. *)

\* The membership rule of the resolve paths, of the snapshot, of the claim and of
\* the check before SMTP.
Deliverable(p, o, k) ==
    /\ allocation[p][o] = "active" /\ org[o] = "active"
    /\ member[p][o][k] = "active" /\ <<p, k>> \in inPool
    /\ contact[k] = "active" /\ <<p, o, k>> \notin excluded
    /\ AllScope \/ <<p, o>> \in grant

\* PoolRecipientAvailableSQL and the conditions beside it, for a row of the snapshot.
Available(k) == row[k].pool # 0 /\ Deliverable(row[k].pool, row[k].org, k)

\* The organizations a pool of the audience is resolved for.
Targets(p, k) == {o \in (IF AllScope THEN Orgs ELSE {Home}) : Deliverable(p, o, k)}

\* DISTINCT ON: the first in the rotation, then by id.
Rank(turns, o) == IF Contains(turns, o) THEN CHOOSE i \in DOMAIN turns : turns[i] = o
                  ELSE Len(turns) + o
Chosen(turns, p, k) ==
    CHOOSE o \in Targets(p, k) : \A x \in Targets(p, k) : Rank(turns, o) <= Rank(turns, x)

\* Mutant of Refreshed: rows that were claimed or settled are rewritten as well.
RefreshedSettled(k, r, turns, p) ==
    IF Targets(p, k) # {}
    THEN [r EXCEPT !.status = "pending", !.pool = p, !.org = Chosen(turns, p, k)]
    ELSE IF r.status = "pending" /\ r.pool = p /\ (AllScope \/ r.org = Home) THEN NoRow ELSE r

\* Mutant of Refreshed: who is no longer deliverable keeps the pending row.
RefreshedKept(k, r, turns, p) ==
    IF Targets(p, k) # {} /\ r.status \in {"none", "pending"}
    THEN [r EXCEPT !.status = "pending", !.pool = p, !.org = Chosen(turns, p, k)]
    ELSE r

\* What one refresh of pool p makes of the row r of k: pending rows of contacts that
\* are not deliverable any more are pruned, and every deliverable contact has a row.
\* A row that was claimed or settled stays as it is; a pending one keeps its sender.
Refreshed(k, r, turns, p) ==
    IF Targets(p, k) # {} /\ r.status \in {"none", "pending"}
    THEN [r EXCEPT !.status = "pending", !.pool = p, !.org = Chosen(turns, p, k)]
    ELSE IF /\ Targets(p, k) = {}
            /\ r.status = "pending" /\ r.pool = p /\ (AllScope \/ r.org = Home)
    THEN NoRow
    ELSE r

-----------------------------------------------------------------------------
(* Contacts, allocations and exclusions. *)

\* A change of the master data is one of the scenario's, and outdates the snapshot.
Changes(operation) ==
    /\ operation \in bound.operations
    /\ budget.changes > 0
    /\ budget' = [budget EXCEPT !.changes = @ - 1]
    /\ fresh' = {}
    /\ UNCHANGED <<campVars, bound, lossVars>>

\* INSERT INTO org_pool_allocation_members ... ON CONFLICT DO NOTHING, for an
\* allocation that exists.
Assigned(p, o, k) ==
    IF allocation[p][o] # "none" /\ member[p][o][k] = "none"
    THEN [member EXCEPT ![p][o][k] = "active"]
    ELSE member

ChangeGrant(p, o) ==
    /\ Changes("grant")
    /\ grant' = IF <<p, o>> \in grant THEN grant \ {<<p, o>>} ELSE grant \cup {<<p, o>>}
    /\ UNCHANGED <<contact, department, inPool, org, allocation, member, excluded>>

CreatePoolContact(p, k, o) ==
    /\ Changes("create")
    /\ contact[k] = "absent"
    /\ org[o] = "active"
    /\ contact' = [contact EXCEPT ![k] = "active"]
    /\ department' = [department EXCEPT ![k] = o]
    /\ inPool' = inPool \cup {<<p, k>>}
    /\ member' = Assigned(p, o, k)
    /\ UNCHANGED <<org, allocation, excluded, grant>>

\* The form always carries an address, so an archived contact becomes active.
UpdatePoolContact(p, k, o) ==
    /\ Changes("update")
    /\ <<p, k>> \in inPool
    /\ org[o] = "active"
    /\ contact' = [contact EXCEPT ![k] = IF @ = "archived" THEN "active" ELSE @]
    /\ department' = [department EXCEPT ![k] = o]
    /\ member' = Assigned(p, o, k)
    /\ UNCHANGED <<inPool, org, allocation, excluded, grant>>

SharesAddress(p, k) ==
    {x \in Contacts : /\ <<p, x>> \in inPool /\ Address[x] = Address[k]
                      /\ contact[x] # "archived"}

\* One valid row of an import file.  A contact is found by its identity, with the
\* department; an address that is blocklisted in this pool blocklists the row, and
\* a blocklist import every contact of the pool with the address.
ImportPoolContact(p, k, o, blocklist) ==
    /\ Changes("import")
    /\ org[o] = "active"
    /\ contact[k] \in {"absent", "active", "blocklisted"}
    /\ contact[k] # "absent" => department[k] = o
    /\ LET blocked == \E x \in SharesAddress(p, k) : contact[x] = "blocklisted"
       IN  contact' = [x \in Contacts |->
                IF x = k /\ (blocklist \/ blocked) THEN "blocklisted"
                ELSE IF x = k /\ contact[k] = "absent" THEN "active"
                ELSE IF blocklist /\ x \in SharesAddress(p, k) THEN "blocklisted"
                ELSE contact[x]]
    /\ department' = [department EXCEPT ![k] = o]
    /\ inPool' = inPool \cup {<<p, k>>}
    /\ member' = Assigned(p, o, k)
    /\ UNCHANGED <<org, allocation, excluded, grant>>

\* A platform operator, or an organization with the grant; the contacts of the
\* department become members, whatever their status.
CreateOrgPoolAllocation(p, o, across) ==
    /\ Changes("allocate")
    /\ org[o] = "active"
    /\ across \/ <<p, o>> \in grant
    /\ allocation[p][o] = "none"
    /\ allocation' = [allocation EXCEPT ![p][o] = "active"]
    /\ member' = [member EXCEPT ![p][o] = [k \in Contacts |->
                    IF <<p, k>> \in inPool /\ department[k] = o THEN "active" ELSE @[k]]]
    /\ UNCHANGED <<contact, department, inPool, org, excluded, grant>>

\* A matching row of a member import: who was removed is restored, with the
\* exclusion; who is a member already keeps an exclusion.
ImportAllocationMember(p, o, k) ==
    /\ Changes("assign")
    /\ allocation[p][o] = "active" /\ org[o] = "active"
    /\ <<p, k>> \in inPool /\ contact[k] = "active"
    /\ member' = [member EXCEPT ![p][o][k] = "active"]
    /\ excluded' = IF member[p][o][k] = "removed" THEN excluded \ {<<p, o, k>>} ELSE excluded
    /\ UNCHANGED <<contact, department, inPool, org, allocation, grant>>

Unfinished == camp # "finished"

\* allocationActivityWhere: an unfinished campaign that may send through (p, o).
References(p, o) == Unfinished /\ p \in audience /\ (AllScope \/ o = Home)

\* ChangeAllocation, under the lock of the allocation, on the version it read.
ChangeAllocation(p, o, from, to) ==
    /\ Changes("state")
    /\ org[o] = "active"
    /\ <<from, to>> \in {<<"active", "disabled">>, <<"disabled", "active">>,
                         <<"active", "detached">>, <<"disabled", "detached">>,
                         <<"detached", "disabled">>}
    /\ allocation[p][o] = from
    /\ to = "detached" => ~References(p, o)
    /\ allocation' = [allocation EXCEPT ![p][o] = to]
    /\ UNCHANGED <<contact, department, inPool, org, member, excluded, grant>>

MayChangeMember(p, o, k) ==
    /\ Changes("member")
    /\ allocation[p][o] = "active" /\ org[o] = "active"
    /\ <<p, k>> \in inPool

\* Only those of the department are candidates, but for the highest administrators.
AssignMember(p, o, k, highest) ==
    /\ MayChangeMember(p, o, k)
    /\ member[p][o][k] # "removed" /\ <<p, o, k>> \notin excluded
    /\ highest \/ department[k] = o
    /\ member' = [member EXCEPT ![p][o][k] = "active"]
    /\ UNCHANGED <<contact, department, inPool, org, allocation, excluded, grant>>

RemoveMember(p, o, k) ==
    /\ MayChangeMember(p, o, k)
    /\ member[p][o][k] # "none"
    /\ member' = [member EXCEPT ![p][o][k] = "removed"]
    /\ excluded' = excluded \cup {<<p, o, k>>}
    /\ UNCHANGED <<contact, department, inPool, org, allocation, grant>>

RestoreMember(p, o, k) ==
    /\ MayChangeMember(p, o, k)
    /\ member[p][o][k] # "none"
    /\ member' = [member EXCEPT ![p][o][k] = "active"]
    /\ excluded' = excluded \ {<<p, o, k>>}
    /\ UNCHANGED <<contact, department, inPool, org, allocation, grant>>

\* By a platform operator, or by an organization the contact is assigned to.
ClearPoolContactEmail(p, k) ==
    /\ Changes("clear")
    /\ <<p, k>> \in inPool
    /\ contact' = [contact EXCEPT ![k] = "archived"]
    /\ UNCHANGED <<department, inPool, org, allocation, member, excluded, grant>>

\* Memberships and exclusions go with the contact; rows of snapshots stay.
DeletePoolContact(p, k) ==
    /\ Changes("delete")
    /\ <<p, k>> \in inPool
    /\ contact' = [contact EXCEPT ![k] = "deleted"]
    /\ inPool' = {x \in inPool : x[2] # k}
    /\ member' = [x \in Pools |-> [o \in Orgs |-> [member[x][o] EXCEPT ![k] = "none"]]]
    /\ excluded' = {x \in excluded : x[3] # k}
    /\ UNCHANGED <<department, org, allocation, grant>>

\* An organization other than the campaign's is archived, for good.
ArchiveOrganization(o) ==
    /\ Changes("archive")
    /\ o # Home /\ org[o] = "active"
    /\ org' = [org EXCEPT ![o] = "archived"]
    /\ UNCHANGED <<contact, department, inPool, allocation, member, excluded, grant>>

\* A hard bounce, or a reply that asks to stop: for the pool and the organization
\* of the row.
RecordPoolBounce(k) ==
    /\ Changes("feedback")
    /\ row[k].status = "sent" /\ contact[k] # "deleted"
    /\ excluded' = excluded \cup {<<row[k].pool, row[k].org, k>>}
    /\ UNCHANGED <<contact, department, inPool, org, allocation, member, grant>>

\* The link of a message that was received, also when its result is not recorded yet.
UnsubscribePoolByCampaign(k) ==
    /\ "feedback" \in bound.operations /\ budget.changes > 0
    /\ row[k].status \in {"pending", "queued", "sent"} /\ contact[k] # "deleted"
    /\ budget' = [budget EXCEPT !.changes = @ - 1]
    /\ fresh' = {}
    /\ excluded' = excluded \cup {<<row[k].pool, row[k].org, k>>}
    /\ row' = [row EXCEPT ![k].status = IF @ = "sent" THEN @ ELSE "cancelled"]
    /\ UNCHANGED <<contact, department, inPool, org, allocation, member, grant, camp, audience,
                   order, editor, bound, lossVars>>

\* received: the contacts that have a message of the campaign.
ChangeMasterData(received) ==
    \/ \E p \in Pools, o \in Orgs :
        \/ ChangeGrant(p, o)
        \/ \E across \in BOOLEAN : CreateOrgPoolAllocation(p, o, across)
        \/ \E from, to \in {"active", "disabled", "detached"} : ChangeAllocation(p, o, from, to)
        \/ \E k \in Contacts :
            \/ CreatePoolContact(p, k, o) \/ UpdatePoolContact(p, k, o)
            \/ \E blocklist \in BOOLEAN : ImportPoolContact(p, k, o, blocklist)
            \/ ImportAllocationMember(p, o, k)
            \/ \E highest \in BOOLEAN : AssignMember(p, o, k, highest)
            \/ RemoveMember(p, o, k) \/ RestoreMember(p, o, k)
    \/ \E p \in Pools, k \in Contacts : ClearPoolContactEmail(p, k) \/ DeletePoolContact(p, k)
    \/ \E o \in Orgs : ArchiveOrganization(o)
    \/ \E k \in received : RecordPoolBounce(k) \/ UnsubscribePoolByCampaign(k)

-----------------------------------------------------------------------------
(* Editing the campaign. *)

HasRecipients == \E k \in Contacts : row[k].status # "none"

\* A campaign that was started and has recipients keeps its audience; any other is rebuilt.
MayEdit(pools) == camp # "draft" /\ HasRecipients => pools = audience
Rebuilds(pools) == ~(camp # "draft" /\ HasRecipients) \/ pools = {}

\* UpdateCampaign, before the transaction: what it decides here is not looked at again.
EditRead(pools) ==
    /\ editor.at = "none" /\ budget.edits > 0
    /\ camp \in {"draft", "paused", "deferred"}
    /\ pools # {} \/ ~AllScope
    /\ MayEdit(pools)
    /\ editor' = [at |-> "read", rebuild |-> Rebuilds(pools), pools |-> pools]
    /\ budget' = [budget EXCEPT !.edits = @ - 1]
    /\ UNCHANGED <<masterVars, camp, audience, order, row, bound, fresh, lossVars>>

\* The row an update leaves before it attaches the pools.
Kept(pools, k) ==
    IF editor.rebuild \/ (pools # {} /\ row[k].pool \notin pools) THEN NoRow ELSE row[k]

\* attachPoolToCampaignTx for each pool, in the order of the request.  Of these
\* refreshes two count for a contact: its own pool's, when the row is still in it, and
\* that of the last pool it can be sent to through.
Attached(pools, turns, sequence) ==
    [k \in Contacts |->
        LET r == Kept(pools, k)
            hits == {i \in DOMAIN sequence : Targets(sequence[i], k) # {}}
            ownFirst == \E i \in DOMAIN sequence : sequence[i] = r.pool /\ \A h \in hits : i < h
            start == IF ownFirst THEN Refreshed(k, r, turns, r.pool) ELSE r
        IN  IF hits = {} THEN start ELSE Refreshed(k, start, turns, sequence[Max(hits)])]

Attachable(pools) ==
    AllScope \/ \A p \in pools : <<p, Home>> \in grant /\ allocation[p][Home] = "active"

\* A row that was claimed, or settled, or that has a server from an earlier claim.
Used(r) == r.status \in {"queued", "sent", "failed", "cancelled"} \/ r.sender # NoServer

\* History: the campaign was started, or got recipients, after the update looked, or a
\* scan is about to refresh a pool that the update takes from the audience.
Overtaken(refreshing) ==
    \/ ~(refreshing \subseteq editor.pools)
    \/ ~MayEdit(editor.pools) \/ editor.rebuild # Rebuilds(editor.pools)

\* refreshing: the pools that the scanner has yet to refresh.
EditCommit(refreshing) ==
    /\ editor.at = "read"
    /\ Attachable(editor.pools)
    /\ order' = IF editor.rebuild \/ (AllScope /\ editor.pools # {}) THEN << >> ELSE order
    /\ \E sequence \in SetToSeqs(editor.pools) : row' = Attached(editor.pools, order', sequence)
    /\ audience' = IF editor.rebuild THEN editor.pools
                   ELSE IF editor.pools = {} THEN audience ELSE editor.pools
    /\ fresh' = editor.pools
    /\ editor' = NoEdit
    /\ lost' = [k \in Contacts |->
                IF Used(row[k]) /\ Kept(editor.pools, k) = NoRow THEN lost[k] + 1 ELSE lost[k]]
    /\ overtaken' = (overtaken \/ Overtaken(refreshing))
    /\ UNCHANGED <<masterVars, camp, bound, budget>>

\* A pool that may not be used any more rolls everything back.
EditRejected ==
    /\ editor.at = "read"
    /\ ~Attachable(editor.pools)
    /\ editor' = NoEdit
    /\ UNCHANGED <<masterVars, camp, audience, order, row, bound, budget, fresh, lossVars>>

-----------------------------------------------------------------------------
(* Properties. *)

\* When every pool of the audience was refreshed and nothing changed since, who has
\* a pending row may be sent to through that row's pool and organization, and who
\* may be sent to through any of them has a row: pools are refreshed one after the
\* other, and contacts that they share move between them (EnsurePoolCampaignRecipients).
\* In between, no row that waits to be sent belongs to an allocation that was detached:
\* detaching looks for unfinished campaigns, selecting a pool for its allocation, and a
\* refresh moves rows from one allocation to another (ChangeAllocation).  Both are said
\* of the pools that are selected: a scan may refresh one that an update took from the
\* audience meanwhile.  And a member an organization removed is excluded for as long as
\* it is removed, although removal, restoring, assignment, imports and new allocations
\* write the two tables separately.
SnapshotExact ==
    /\ audience # {} /\ fresh = audience =>
        \A k \in Contacts :
            /\ row[k].status = "pending" /\ row[k].pool \in audience => Available(k)
            /\ (\E p \in audience : Targets(p, k) # {}) => row[k].status # "none"
    /\ Unfinished => \A k \in Contacts :
        row[k].status \in {"pending", "queued"} /\ row[k].pool \in audience =>
            allocation[row[k].pool][row[k].org] # "detached"
    /\ \A p \in Pools, o \in Orgs, k \in Contacts :
        member[p][o][k] = "removed" => <<p, o, k>> \in excluded
=============================================================================
