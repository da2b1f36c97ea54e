------------------------------ MODULE Handover ------------------------------
(***************************************************************************)
(* What the members of an organization own, and what becomes of it: they   *)
(* create, publish, migrate and delete resources; when a member leaves,    *)
(* the organization is archived or an account is deleted, the resources    *)
(* wait for a new owner, who gets them by a transfer that merges customers *)
(* of one address.  A campaign may be running all the while.               *)
(*                                                                         *)
(* Recipients, messages and crashes of a campaign are in CampaignSender;   *)
(* here its pipe is what it was loaded for and why it stops.               *)
(***************************************************************************)
EXTENDS Organization, FiniteSetsExt

CONSTANTS
    Resources,
    Kind,       \* of each resource
    Address     \* of each customer

ASSUME HandoverAssumption ==
    /\ Resources \subseteq Nat /\ IsFiniteSet(Resources) /\ Nobody \notin Resources
    /\ Kind \in [Resources -> {"list", "customer", "template", "campaign", "media"}]
    /\ DOMAIN Address = Resources

VARIABLES
    res,        \* the rows of the resources
    alias,      \* customer_uuid_aliases: into whom a customer was merged
    pipe,       \* the pipes of the campaigns, and what the scanner selected
    stopping    \* campaigns that a handler has yet to stop

vars == <<organizationVars, left, res, alias, pipe, stopping>>
sendVars == <<pipe, stopping>>

Campaigns == {x \in Resources : Kind[x] = "campaign"}
Lists == {x \in Resources : Kind[x] = "list"}
Customers == {x \in Resources : Kind[x] = "customer"}
Statuses == {"draft", "scheduled", "running", "paused", "deferred", "finished", "cancelled"}

Absent == [at |-> "absent", owner |-> Nobody, pending |-> FALSE, visibility |-> "private",
           blocked |-> FALSE, status |-> "draft"]
NoPipe == [at |-> "none", owner |-> Nobody, stop |-> "none", claim |-> FALSE]

Rows ==
    [at : {"absent", "personal", "org", "merged", "deleted"}, owner : Users \cup {Nobody},
     pending : BOOLEAN, visibility : {"private", "organization", "global"},
     blocked : BOOLEAN, status : Statuses]
Pipes ==
    [at : {"none", "selected", "open"}, owner : Users \cup {Nobody},
     stop : {"none", "pause", "cancelled", "errors", "smtp", "deferred", "finish"},
     claim : BOOLEAN]

TypeOK ==
    /\ OrganizationTypeOK
    /\ res \in [Resources -> Rows]
    /\ alias \in [Customers -> Customers \cup {Nobody}]
    /\ pipe \in [Campaigns -> Pipes]
    /\ stopping \subseteq Campaigns

Init ==
    /\ OrganizationInit
    /\ res = [x \in Resources |-> Absent]
    /\ alias = [x \in Customers |-> Nobody]
    /\ pipe = [x \in Campaigns |-> NoPipe]
    /\ stopping = {}

Exists(x) == res[x].at \in {"personal", "org"}
Waiting(x) == res[x].at = "org" /\ res[x].pending
Global(x) == Kind[x] = "template" /\ res[x].visibility = "global"

-----------------------------------------------------------------------------
(* Owners at work. *)

\* Mutant of StillWorks: the check of the handler is trusted.
StillWorksTrusted(u, exempt) == u \in accounts /\ Active

\* withWorkspaceCreation, lockPersonalMigrationTarget: the membership is read again
\* under the lock; for a migration, an administrator's too.
StillWorks(u, exempt) == u \in accounts /\ Active /\ u \in Members \cup exempt

\* One customer of an address for each owner and space.
Scoped(at, u, address) ==
    {x \in Customers : res[x].at = at /\ res[x].owner = u /\ Address[x] = address}
Fits(x, at, u) == Kind[x] = "customer" => Scoped(at, u, Address[x]) = {}

\* Rows are numbered in the order of their creation.
Fresh(kind) == {x \in Resources : Kind[x] = kind /\ res[x].at = "absent"}
NextRow(kind) == Min(Fresh(kind))

New(at, u, blocked) == [Absent EXCEPT !.at = at, !.owner = u, !.blocked = blocked]

CreateResource(u, x, at, blocked) ==
    /\ Spend("creation")
    /\ x \in left.resources /\ res[x].at = "absent" /\ x = NextRow(Kind[x])
    /\ \/ at = "personal" /\ u \in accounts /\ call' = call
       \/ at = "org" /\ Called(u, "work") /\ StillWorks(u, Admins)
    /\ Fits(x, at, u)
    /\ blocked => Kind[x] = "customer"
    /\ res' = [res EXCEPT ![x] = New(at, u, blocked)]
    /\ UNCHANGED <<accounts, org, role, invite, request, alias, sendVars>>

\* withPreparedWorkspaceResourceMutation and lockWorkspaceMutationResources: who
\* still works in the workspace may change what is theirs and not waiting for an owner.
Changeable(u, x) ==
    /\ Exists(x) /\ ~res[x].pending
    /\ IF res[x].at = "org"
       THEN Called(u, "work") /\ StillWorks(u, Admins) /\ (res[x].owner = u \/ u \in Admins)
       ELSE u \in accounts /\ (res[x].owner = u \/ u \in Admins) /\ call' = call

Publish(u, x, visibility) ==
    /\ Spend("creation")
    /\ Changeable(u, x)
    /\ Kind[x] \in {"template", "campaign", "media"}
    /\ visibility = "organization" => res[x].at = "org"
    /\ visibility = "global" => Kind[x] # "media"
    /\ res' = [res EXCEPT ![x].visibility = visibility]
    /\ UNCHANGED <<accounts, org, role, invite, request, alias, sendVars>>

\* The aliases of a deleted customer go with it; those merged into it are lost.
Forgotten(gone, rows) ==
    [x \in Resources |-> IF x \in Customers /\ rows[x].at = "merged" /\ alias[x] \in gone
                         THEN [rows[x] EXCEPT !.at = "deleted"] ELSE rows[x]]

DeleteResource(u, x) ==
    /\ Spend("creation")
    /\ Changeable(u, x)
    /\ x \notin Campaigns
    /\ res' = Forgotten({x}, [res EXCEPT ![x] = [Absent EXCEPT !.at = "deleted"]])
    /\ alias' = [y \in Customers |-> IF alias[y] = x THEN Nobody ELSE alias[y]]
    /\ UNCHANGED <<accounts, org, role, invite, request, sendVars>>

\* A list goes to the organization, itself or a copy, with at most one subscriber, who
\* is copied, or whose profile is merged into the owner's customer of that address.
MigratePersonalLists(u, list, move, subscribers) ==
    /\ Spend("transfer")
    /\ Called(u, "work") /\ StillWorks(u, {})
    /\ res[list].at = "personal" /\ res[list].owner = u
    /\ \A x \in subscribers : res[x].at = "personal" /\ res[x].owner = u
    /\ move \/ Fresh("list") # {}
    /\ LET there == UNION {Scoped("org", u, Address[x]) : x \in subscribers}
           copies == IF subscribers = {} THEN {} ELSE IF there = {} THEN {NextRow("customer")} ELSE there
           copy   == IF move THEN list ELSE NextRow("list")
       IN  /\ there = {} /\ subscribers # {} => Fresh("customer") # {}
           /\ res' = [x \in Resources |->
                        IF x = copy THEN New("org", u, FALSE)
                        ELSE IF x \in copies
                             THEN New("org", u, res[x].blocked \/ \E y \in subscribers : res[y].blocked)
                             ELSE res[x]]
    /\ UNCHANGED <<accounts, org, role, invite, request, alias, sendVars>>

\* Templates, media and drafts that are private; a copy, or the row itself; a draft
\* is copied and then deleted.
MigratePersonalResources(u, x, move) ==
    /\ Spend("transfer")
    /\ Called(u, "work") /\ StillWorks(u, {})
    /\ Kind[x] \in {"template", "media", "campaign"}
    /\ res[x].at = "personal" /\ res[x].owner = u /\ res[x].visibility = "private"
    /\ move /\ Kind[x] = "campaign" => res[x].status = "draft"
    /\ LET same == move /\ Kind[x] # "campaign"
           copy == IF same THEN x ELSE NextRow(Kind[x])
       IN  /\ same \/ Fresh(Kind[x]) # {}
           /\ res' = [y \in Resources |->
                        IF y = copy THEN New("org", u, FALSE)
                        ELSE IF y = x /\ move THEN [Absent EXCEPT !.at = "deleted"] ELSE res[y]]
    /\ UNCHANGED <<accounts, org, role, invite, request, alias, sendVars>>

-----------------------------------------------------------------------------
(* Owners who go. *)

Halted(s) ==
    CASE s \in {"scheduled", "deferred"} -> "draft" [] s = "running" -> "paused" [] OTHER -> s

Ownerless(x) ==
    [res[x] EXCEPT !.owner = Nobody, !.pending = TRUE,
                   !.status = IF x \in Campaigns THEN Halted(@) ELSE @]

\* What owners leave behind; templates everybody uses go to their author's
\* personal space when keep is set.
Released(owners, keep) ==
    [x \in Resources |->
        IF res[x].at # "org" \/ res[x].owner \notin owners THEN res[x]
        ELSE IF keep /\ Global(x) /\ res[x].owner # Nobody
             THEN [res[x] EXCEPT !.at = "personal", !.pending = FALSE]
             ELSE Ownerless(x)]

Stopped == {x \in Campaigns : res'[x].pending /\ ~res[x].pending /\ res'[x].status = "paused"}

\* The handlers of removal and departure stop the campaigns last; when the replies of
\* the member cannot be forwarded they answer with that error before.
RemoveOrganizationMember(v, forwarded) ==
    /\ RemoveMembership(v)
    /\ res' = Released({v}, TRUE)
    /\ stopping' = IF forwarded THEN stopping \cup Stopped ELSE stopping
    /\ UNCHANGED <<alias, pipe>>

\* Everything waits for a new owner, whoever had it; here a failing forwarding rule
\* is only logged, but without the owners of its mailboxes the handler answers before it
\* stops a campaign.
ArchiveOrganization(u, listed) ==
    /\ ArchiveMembership(u)
    /\ res' = Released(Users \cup {Nobody}, TRUE)
    /\ stopping' = IF listed THEN stopping \cup Stopped ELSE stopping
    /\ UNCHANGED <<alias, pipe>>

\* Templates are not kept apart, no campaign is stopped, and what the account had in
\* its personal space has no owner any more.
DeleteUser(v) ==
    /\ DeleteMembership(v)
    /\ res' = [x \in Resources |->
                IF res[x].at = "personal" /\ res[x].owner = v
                THEN [res[x] EXCEPT !.owner = Nobody] ELSE Released({v}, FALSE)[x]]
    /\ UNCHANGED <<alias, sendVars>>

PurgeArchivedOrganization(u) ==
    /\ PurgeMembership(u)
    /\ \A x \in Resources : res[x].at # "org"
    /\ UNCHANGED <<res, alias, sendVars>>

-----------------------------------------------------------------------------
(* New owners. *)

\* Mutant of Followed: the aliases of the source are not updated.
FollowedOnce(x, goes) == IF goes[x] # x THEN goes[x] ELSE alias[x]

\* mergeCustomer, for every x that goes[x] names a target: earlier aliases follow,
\* and whoever was blocklisted stays so.
Followed(x, goes) == IF goes[x] # x THEN goes[x]
                     ELSE IF alias[x] # Nobody THEN goes[alias[x]] ELSE Nobody

MergedRow(x, goes, row) ==
    IF goes[x] # x THEN [Absent EXCEPT !.at = "merged", !.blocked = row.blocked]
    ELSE [row EXCEPT !.blocked = @ \/ \E y \in Customers : goes[y] = x /\ res[y].blocked]

\* Customers that wait are merged, address by address, into the new owner's, or else
\* into the first of them.
Targets(at, v, lowest) ==
    [x \in Customers |->
        IF ~Waiting(x) THEN x
        ELSE LET there == Scoped(at, v, Address[x])
                 same  == {y \in Customers : Waiting(y) /\ Address[y] = Address[x]}
             IN  IF there # {} THEN CHOOSE y \in there : TRUE
                 ELSE IF lowest THEN Min(same) ELSE Max(same)]

\* handed[x] is what becomes of the row of a resource that waits.
HandOver(goes, handed) ==
    /\ \E x \in Resources : Waiting(x)
    /\ res' = [x \in Resources |->
                LET row == IF Waiting(x) THEN handed[x] ELSE res[x]
                IN  IF x \in Customers THEN MergedRow(x, goes, row) ELSE row]
    /\ alias' = [x \in Customers |-> Followed(x, goes)]
    /\ UNCHANGED <<accounts, org, role, invite, request, sendVars>>

TransferPendingOrganizationResources(u, v) ==
    /\ Spend("transfer")
    /\ Called(u, "transfer") /\ Active
    /\ v \in Members
    /\ \E lowest \in BOOLEAN :
        HandOver(Targets("org", v, lowest),
                 [x \in Resources |-> [res[x] EXCEPT !.owner = v, !.pending = FALSE]])

\* Of an archived organization, to the personal space of one of its members.
TransferArchivedOrganizationResources(u, v) ==
    /\ Spend("transfer")
    /\ u \in Operators \cap accounts /\ call' = call
    /\ org = "archived"
    /\ v \in Members
    /\ HandOver(Targets("personal", v, TRUE),
                [x \in Resources |->
                    [res[x] EXCEPT !.at = "personal", !.owner = v, !.pending = FALSE,
                                   !.visibility = IF @ = "global" /\ Kind[x] # "media"
                                                  THEN @ ELSE "private"]])

\* A shared template, by a manager, to another member, or back to its owner alone.
Shared(x) == Kind[x] = "template" /\ res[x].at = "org" /\ ~res[x].pending
             /\ res[x].visibility = "organization"

TransferOrganizationTemplate(u, x, v) ==
    /\ Spend("transfer")
    /\ Called(u, "manage") /\ Active
    /\ v \in Members /\ Shared(x)
    /\ res' = [res EXCEPT ![x].owner = v]
    /\ UNCHANGED <<accounts, org, role, invite, request, alias, sendVars>>

UnpublishOrganizationTemplate(u, x) ==
    /\ Spend("transfer")
    /\ Called(u, "manage") /\ Active
    /\ Shared(x)
    /\ res' = [res EXCEPT ![x].visibility = "private"]
    /\ UNCHANGED <<accounts, org, role, invite, request, alias, sendVars>>

-----------------------------------------------------------------------------
(* Campaigns at work. *)

From(to) ==
    CASE to = "draft"     -> {"scheduled"}
      [] to = "scheduled" -> {"draft", "paused", "deferred"}
      [] to = "running"   -> {"paused", "draft", "deferred"}
      [] to = "paused"    -> {"running", "deferred"}
      [] to = "cancelled" -> {"running", "paused", "deferred"}
      [] OTHER -> {}

\* StopCampaign: the reason of an explicit stop replaces one of the pipe's own.
StopPipe(p, why) == IF p.at = "open" THEN [p EXCEPT !.stop = why] ELSE p

\* A status handler, with the stop that follows a pause or a cancellation.
UpdateCampaignStatus(u, c, to) ==
    /\ Spend("control")
    /\ Changeable(u, c)
    /\ res[c].status \in From(to)
    /\ res' = [res EXCEPT ![c].status = to]
    /\ pipe' = IF to \in {"paused", "cancelled"}
               THEN [pipe EXCEPT ![c] = StopPipe(@, IF to = "paused" THEN "pause" ELSE to)]
               ELSE pipe
    /\ UNCHANGED <<accounts, org, role, invite, request, alias, stopping>>

\* The end of the handlers of removal and archival.
StopCampaign(c) ==
    /\ c \in stopping
    /\ stopping' = stopping \ {c}
    /\ pipe' = [pipe EXCEPT ![c] = StopPipe(@, "pause")]
    /\ UNCHANGED <<organizationVars, left, res, alias>>

\* next-campaigns: running, or due, with an owner, in a space that is in use.
Runnable(c) ==
    /\ Exists(c) /\ ~res[c].pending /\ res[c].owner # Nobody
    /\ res[c].at = "org" => Active
ScanSelect(c) ==
    /\ pipe[c].at = "none"
    /\ res[c].status \in {"scheduled", "running", "deferred"} /\ Runnable(c)
    /\ pipe' = [pipe EXCEPT ![c] = [NoPipe EXCEPT !.at = "selected", !.owner = res[c].owner,
                                                  !.claim = res[c].status # "running"]]
    /\ UNCHANGED <<organizationVars, left, res, alias, stopping>>

\* SetCampaignRunning is conditional; that nothing is left to send is written
\* whatever the status is by then.
ScanLoad(c) ==
    /\ pipe[c].at = "selected"
    /\ LET claimed == res[c].status \in {"scheduled", "running", "deferred"} /\ Runnable(c)
           started == ~pipe[c].claim \/ claimed
           status  == IF pipe[c].claim /\ claimed THEN "running" ELSE res[c].status
       IN  \/ /\ started
              /\ pipe' = [pipe EXCEPT ![c].at = "open", ![c].claim = FALSE]
              /\ res' = [res EXCEPT ![c].status = status]
           \/ /\ started
              /\ pipe' = [pipe EXCEPT ![c] = NoPipe]
              /\ res' = [res EXCEPT ![c].status = "finished"]
           \/ /\ ~started
              /\ pipe' = [pipe EXCEPT ![c] = NoPipe]
              /\ UNCHANGED res
    /\ UNCHANGED <<organizationVars, left, alias, stopping>>

\* Why a pipe stops by itself: too many errors, no SMTP server, nothing more to
\* claim because all are sent or the campaign does not run any more.
PipeStops(c, why) ==
    /\ pipe[c].at = "open" /\ pipe[c].stop = "none"
    /\ why \in {"errors", "smtp", "finish"}
    /\ pipe' = [pipe EXCEPT ![c].stop = why]
    /\ UNCHANGED <<organizationVars, left, res, alias, stopping>>

\* Of a daily cap or quota: the status is deferred first, if it is running.
PipeDefers(c) ==
    /\ pipe[c].at = "open" /\ pipe[c].stop = "none"
    /\ res[c].status = "running"
    /\ res' = [res EXCEPT ![c].status = "deferred"]
    /\ pipe' = [pipe EXCEPT ![c].stop = "deferred"]
    /\ UNCHANGED <<organizationVars, left, alias, stopping>>

Cleanup(c) ==
    /\ pipe[c].at = "open" /\ pipe[c].stop # "none"
    /\ LET final == CASE pipe[c].stop \in {"errors", "smtp"} -> "paused"
                      [] pipe[c].stop = "finish" -> "finished"
                      [] OTHER -> res[c].status
           mine  == res[c].status = "running" /\ (Runnable(c) \/ pipe[c].stop = "smtp")
       IN  res' = IF mine THEN [res EXCEPT ![c].status = final] ELSE res
    /\ pipe' = [pipe EXCEPT ![c] = NoPipe]
    /\ UNCHANGED <<organizationVars, left, alias, stopping>>

-----------------------------------------------------------------------------

OwnerStep ==
    \E u \in Users, x \in Resources :
        \/ \E at \in {"personal", "org"}, blocked \in BOOLEAN : CreateResource(u, x, at, blocked)
        \/ \E visibility \in {"private", "organization", "global"} : Publish(u, x, visibility)
        \/ DeleteResource(u, x)

TransferStep ==
    \E u \in Users :
        \/ \E v \in Users : \/ TransferPendingOrganizationResources(u, v)
                            \/ TransferArchivedOrganizationResources(u, v)
        \/ \E x \in Resources :
            \/ \E v \in Users : TransferOrganizationTemplate(u, x, v)
            \/ UnpublishOrganizationTemplate(u, x)
            \/ \E move \in BOOLEAN : MigratePersonalResources(u, x, move)
        \/ \E x \in Lists, move \in BOOLEAN : \E subscribers \in {{}} \cup {{y} : y \in Customers} :
            MigratePersonalLists(u, x, move, subscribers)

CampaignStep ==
    \E c \in Campaigns :
        \/ \E u \in Users, to \in Statuses : UpdateCampaignStatus(u, c, to)
        \/ StopCampaign(c) \/ ScanSelect(c) \/ ScanLoad(c) \/ PipeDefers(c) \/ Cleanup(c)
        \/ \E why \in {"errors", "smtp", "finish"} : PipeStops(c, why)

Next ==
    \/ MembershipStep /\ UNCHANGED <<res, alias, sendVars>>
    \/ \E v \in Users, forwarded \in BOOLEAN : RemoveOrganizationMember(v, forwarded)
    \/ \E u \in Users, listed \in BOOLEAN : ArchiveOrganization(u, listed)
    \/ \E u \in Users : DeleteUser(u) \/ PurgeArchivedOrganization(u)
    \/ left.creation > 0 /\ OwnerStep
    \/ left.transfer > 0 /\ TransferStep
    \/ CampaignStep

Spec == Init /\ [][Next]_vars

-----------------------------------------------------------------------------
(* Properties. *)

\* A campaign that waits for an owner is at rest.
AtRest == \A c \in Campaigns : Waiting(c) => res[c].status \notin {"scheduled", "running", "deferred"}

\* What belongs to the organization waits for an owner, or has one who is there.
Owned ==
    \A x \in Resources : res[x].at = "org" =>
        IF res[x].pending THEN res[x].owner = Nobody
        ELSE org = "active" /\ res[x].owner \in accounts \cap (Members \cup Admins)

\* Whatever belongs to the organization has an owner who is there and works in it,
\* or waits for one: creations, changes, migrations and transfers whose senders were
\* checked before a removal, a deletion or the archive (workspace_mutations.go:35-38).
\* A campaign that waits for an owner is at rest: no status handler, scanner or pipe
\* that began before has it running, scheduled or deferred (RemoveOrganizationMember).
OwnerIsMember == TypeOK /\ InviteLimit /\ StaffExists /\ AtRest /\ Owned

\* A customer who was merged is found under the old identity, at the same address
\* and not less blocklisted, however often that address was merged (mergeCustomer).
IdentityKept ==
    \A x \in Customers : res[x].at = "merged" =>
        /\ alias[x] # Nobody /\ Exists(alias[x])
        /\ Address[alias[x]] = Address[x]
        /\ res[x].blocked => res[alias[x]].blocked
=============================================================================
