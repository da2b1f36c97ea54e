---------------------------- MODULE Organization ----------------------------
(***************************************************************************)
(* An organization from its request to its removal: the accounts of the    *)
(* platform, who is a member or a manager, the invitation, and requests    *)
(* whose sender was checked some time before their transaction runs.       *)
(*                                                                         *)
(* A transaction locks the row of the organization, so it is one step.     *)
(* What members own is in Handover, which completes the steps that touch   *)
(* it.                                                                     *)
(***************************************************************************)
EXTENDS Integers, FiniteSets

CONSTANTS
    Users,
    Admins,      \* platform administrators
    Operators,   \* may manage organizations; administrators among them
    Nobody,
    Bounds       \* bound: how many operations of each kind an instance makes, and the
                 \* members it starts with

ASSUME OrganizationAssumption ==
    /\ IsFiniteSet(Users) /\ Nobody \notin Users
    /\ Admins \subseteq Operators /\ Operators \subseteq Users
    /\ \A b \in Bounds : b.members \in [Users -> {"none", "member", "manager", "former"}]

VARIABLES
    accounts,   \* users that exist
    org,        \* organizations.status, and whether the row exists
    role,       \* organization_members
    invite,     \* one invitation
    request,    \* one request to create the organization
    call,       \* requests that passed the check of their handler
    left        \* operations left of the instance's bound

organizationVars == <<accounts, org, role, invite, request, call>>

Roles == {"none", "member", "manager", "former"}
Calls == {"none", "manage", "transfer", "work"}
NoInvite == [at |-> "none", by |-> Nobody, uses |-> 0, max |-> 0, expires |-> FALSE]
NoRequest == [at |-> "none", by |-> Nobody]

OrganizationTypeOK ==
    /\ accounts \subseteq Users
    /\ org \in {"none", "active", "archived", "purged"}
    /\ role \in [Users -> Roles]
    /\ invite \in [at : {"none", "open", "revoked", "expired"}, by : Users \cup {Nobody},
                   uses : Nat, max : Nat, expires : BOOLEAN]
    /\ request \in [at : {"none", "pending", "approved", "rejected", "withdrawn"},
                    by : Users \cup {Nobody}]
    /\ call \in [Users -> Calls]

OrganizationInit ==
    /\ accounts = Users
    /\ left \in Bounds
    /\ role = left.members
    /\ org = IF \E u \in Users : role[u] = "manager" THEN "active" ELSE "none"
    /\ invite = NoInvite
    /\ request = NoRequest
    /\ call = [u \in Users |-> "none"]

Spend(kind) == left[kind] > 0 /\ left' = [left EXCEPT ![kind] = @ - 1]

-----------------------------------------------------------------------------
(* Who may do what. *)

Members == {u \in Users : role[u] \in {"member", "manager"}}
Managers == {u \in Users : role[u] = "manager"}

\* The checks of the handlers: of managers, of those who hand resources over, and
\* of those who work in the workspace.
May(u, kind) ==
    /\ u \in accounts
    /\ \/ kind = "manage" /\ org = "active" /\ u \in Managers \cup Operators
       \/ kind = "transfer" /\ org = "active" /\ u \in Managers \cup Operators
       \/ kind = "transfer" /\ org = "archived" /\ u \in Admins
       \/ kind = "work" /\ org = "active" /\ u \in Members \cup Admins

\* A request passes its check and has yet to reach the database.
Authorize(u, kind) ==
    /\ Spend("delay")
    /\ May(u, kind)
    /\ \A x \in Users : call[x] = "none"
    /\ call' = [call EXCEPT ![u] = kind]
    /\ UNCHANGED <<accounts, org, role, invite, request>>

\* A handler runs from its check, or from where it was delayed.
Called(u, kind) ==
    /\ call[u] = kind \/ May(u, kind)
    /\ call' = [call EXCEPT ![u] = "none"]

\* lockActiveOrganization.
Active == org = "active"

-----------------------------------------------------------------------------
(* Creation. *)

CreateOrganization(u, chosen, others) ==
    /\ Spend("membership")
    /\ u \in Operators \cap accounts
    /\ org = "none"
    /\ chosen \in accounts /\ others \subseteq accounts
    /\ org' = "active"
    /\ role' = [x \in Users |-> IF x = chosen THEN "manager"
                                ELSE IF x \in others THEN "member" ELSE role[x]]
    /\ UNCHANGED <<accounts, invite, request, call>>

CreateOrganizationRequest(u) ==
    /\ Spend("membership")
    /\ u \in accounts
    /\ org = "none" /\ request.at # "pending"
    /\ request' = [at |-> "pending", by |-> u]
    /\ UNCHANGED <<accounts, org, role, invite, call>>

WithdrawOrganizationRequest(u) ==
    /\ Spend("membership")
    /\ u \in accounts
    /\ request = [at |-> "pending", by |-> u]
    /\ request' = [request EXCEPT !.at = "withdrawn"]
    /\ UNCHANGED <<accounts, org, role, invite, call>>

ReviewOrganizationRequest(u, approve) ==
    /\ Spend("membership")
    /\ u \in Operators \cap accounts
    /\ request.at = "pending"
    /\ \/ /\ approve /\ org = "none"
          /\ request' = [request EXCEPT !.at = "approved"]
          /\ org' = "active"
          /\ role' = [role EXCEPT ![request.by] = "manager"]
       \/ /\ ~approve
          /\ request' = [request EXCEPT !.at = "rejected"]
          /\ UNCHANGED <<org, role>>
    /\ UNCHANGED <<accounts, invite, call>>

-----------------------------------------------------------------------------
(* Members. *)

\* Mutant of KeepsManager: off by one.
KeepsManagerLate(v, r) == r = "manager" \/ role[v] # "manager" \/ Cardinality(Managers) >= 1

\* The last manager may neither leave nor be demoted.
KeepsManager(v, r) == r = "manager" \/ role[v] # "manager" \/ Cardinality(Managers) > 1

AddOrganizationMember(u, v, r) ==
    /\ Spend("membership")
    /\ Called(u, "manage") /\ Active
    /\ v \in accounts
    /\ KeepsManager(v, r)
    /\ role' = [role EXCEPT ![v] = r]
    /\ UNCHANGED <<accounts, org, invite, request>>

\* Several at once, by an operator: the batch as a whole must leave a manager.
AddOrganizationMembersBulk(u, batch) ==
    /\ Spend("membership")
    /\ u \in Operators \cap accounts
    /\ Active
    /\ DOMAIN batch # {} /\ DOMAIN batch \subseteq accounts
    /\ role' = [v \in Users |-> IF v \in DOMAIN batch THEN batch[v] ELSE role[v]]
    /\ \E v \in Users : role'[v] = "manager"
    /\ UNCHANGED <<accounts, org, invite, request, call>>

UpdateOrganizationMemberRole(u, v, r) ==
    /\ Spend("membership")
    /\ Called(u, "manage") /\ Active
    /\ v \in Members
    /\ KeepsManager(v, r)
    /\ role' = [role EXCEPT ![v] = r]
    /\ UNCHANGED <<accounts, org, invite, request>>

\* A member goes, by a manager's request or the member's own.
RemoveMembership(v) ==
    /\ Spend("removal")
    /\ \/ \E u \in Users : Called(u, "manage")
       \/ Called(v, "work")
    /\ Active
    /\ v \in Members
    /\ KeepsManager(v, "former")
    /\ role' = [role EXCEPT ![v] = "former"]
    /\ UNCHANGED <<accounts, org, invite, request>>

-----------------------------------------------------------------------------
(* The invitation. *)

\* Checked again under the lock: an operator who is no manager fails here.
CreateOrganizationInvite(u, max, expires) ==
    /\ Spend("invite")
    /\ Called(u, "manage") /\ Active
    /\ u \in Admins \cup Managers
    /\ invite' = [at |-> "open", by |-> u, uses |-> 0, max |-> max, expires |-> expires]
    /\ UNCHANGED <<accounts, org, role, request>>

RevokeOrganizationInvite(u) ==
    /\ Spend("invite")
    /\ Called(u, "manage") /\ Active
    /\ invite.at \in {"open", "expired"}
    /\ invite' = [invite EXCEPT !.at = "revoked"]
    /\ UNCHANGED <<accounts, org, role, request>>

InviteExpires ==
    /\ invite.at = "open" /\ invite.expires
    /\ invite' = [invite EXCEPT !.at = "expired"]
    /\ UNCHANGED <<accounts, org, role, request, call, left>>

\* Joining restores a former member as a plain one.
JoinOrganizationByInvite(u) ==
    /\ Spend("invite")
    /\ u \in accounts \ Members
    /\ Active /\ invite.at = "open"
    /\ invite.max = 0 \/ invite.uses < invite.max
    /\ role' = [role EXCEPT ![u] = "member"]
    /\ invite' = [invite EXCEPT !.uses = @ + 1]
    /\ UNCHANGED <<accounts, org, request, call>>

-----------------------------------------------------------------------------
(* The end of the organization, and of an account. *)

ArchiveMembership(u) ==
    /\ Spend("end")
    /\ u \in Operators \cap accounts
    /\ org = "active"
    /\ org' = "archived"
    /\ UNCHANGED <<accounts, role, invite, request, call>>

PurgeMembership(u) ==
    /\ Spend("end")
    /\ u \in Operators \cap accounts
    /\ org = "archived"
    /\ org' = "purged"
    /\ role' = [x \in Users |-> "none"]
    /\ invite' = NoInvite
    /\ UNCHANGED <<accounts, request, call>>

\* A platform administrator must remain; a manager need not.
DeleteMembership(v) ==
    /\ Spend("deletion")
    /\ v \in accounts
    /\ (Admins \cap accounts) \ {v} # {}
    /\ accounts' = accounts \ {v}
    /\ role' = [role EXCEPT ![v] = "none"]
    /\ invite' = IF invite.by = v THEN NoInvite ELSE invite
    /\ request' = IF request.by = v THEN NoRequest ELSE request
    /\ UNCHANGED <<org, call>>

\* The steps that touch nothing a member owns.
StaffStep ==
    \E u \in Users :
        \/ \E v \in Users : \E S \in SUBSET (Users \ {v}) : CreateOrganization(u, v, S)
        \/ CreateOrganizationRequest(u) \/ WithdrawOrganizationRequest(u)
        \/ \E approve \in BOOLEAN : ReviewOrganizationRequest(u, approve)
        \/ \E v \in Users, r \in {"member", "manager"} :
            AddOrganizationMember(u, v, r) \/ UpdateOrganizationMemberRole(u, v, r)
        \/ \E S \in SUBSET Users : \E batch \in [S -> {"member", "manager"}] :
            AddOrganizationMembersBulk(u, batch)

MembershipStep ==
    \/ left.membership > 0 /\ StaffStep
    \/ InviteExpires
    \/ \E u \in Users :
        \/ \E kind \in Calls \ {"none"} : Authorize(u, kind)
        \/ \E max \in {0, 1}, expires \in BOOLEAN : CreateOrganizationInvite(u, max, expires)
        \/ RevokeOrganizationInvite(u)
        \/ JoinOrganizationByInvite(u)

-----------------------------------------------------------------------------
(* Properties. *)

\* An active organization that has a manager keeps one as long as no account is
\* deleted: additions, demotions, removals, departures and batches, by requests
\* that may be stale, each count the managers under the lock (lockOrganization).
ManagerKeptStep ==
    org = "active" /\ org' = "active" /\ accounts' = accounts /\ Managers # {} => Managers' # {}

ManagerKept == [][ManagerKeptStep]_organizationVars

\* An invitation with a limit is not used more often (JoinOrganizationByInvite).
InviteLimit == invite.max > 0 => invite.uses <= invite.max

\* Members have an account, and so has whoever asked for the organization.
StaffExists ==
    /\ Members \subseteq accounts
    /\ request.at = "pending" => request.by \in accounts
=============================================================================
