--------------------------- MODULE HandoverProofs ---------------------------
(***************************************************************************)
(* An active organization keeps a manager, what it owns has an owner who   *)
(* works in it, and merged customers are found under their old identity:   *)
(* for any users, resources and addresses.                                 *)
(***************************************************************************)
EXTENDS Handover, FiniteSetTheorems, WellFoundedInduction, TLAPS

\* The inductive invariant.
IInv == OwnerIsMember /\ IdentityKept

-----------------------------------------------------------------------------
(* The smallest and the largest of a finite set of numbers. *)

LEMMA MinMaxFacts ==
    ASSUME NEW S, S \subseteq Nat, IsFiniteSet(S), S # {}
    PROVE  Min(S) \in S /\ Max(S) \in S
<1> DEFINE Low(T) == \E x \in T : \A y \in T : x <= y
           High(T) == \E x \in T : \A y \in T : x >= y
           Bad == {T \in SUBSET S : T # {} /\ ~(Low(T) /\ High(T))}
<1>1. Bad = {}
  <2> SUFFICES ASSUME Bad # {} PROVE FALSE
    OBVIOUS
  <2>1. IsWellFoundedOn(StrictSubsetOrdering(S), SUBSET S)
    BY FS_StrictSubsetOrderingWellFounded, FS_FiniteSubsetsOfFinite
  <2>2. Bad \subseteq SUBSET S
    OBVIOUS
  <2> HIDE DEF Bad
  <2>3. PICK T \in Bad : \A U \in Bad : ~(<<U, T>> \in StrictSubsetOrdering(S))
    BY <2>1, <2>2, WFMin
  <2>4. T \in SUBSET S /\ T # {} /\ ~(Low(T) /\ High(T))
    BY DEF Bad
  <2>5. PICK t \in T : TRUE
    BY <2>4
  <2>6. T \ {t} \notin Bad
    BY <2>3, <2>4, <2>5 DEF StrictSubsetOrdering
  <2>7. T \ {t} = {} \/ (Low(T \ {t}) /\ High(T \ {t}))
    BY <2>4, <2>6 DEF Bad
  <2>8. CASE T \ {t} = {}
    BY <2>4, <2>5, <2>8
  <2>9. CASE Low(T \ {t}) /\ High(T \ {t})
    <3>1. PICK l \in T \ {t} : \A y \in T \ {t} : l <= y
      BY <2>9
    <3>2. PICK h \in T \ {t} : \A y \in T \ {t} : h >= y
      BY <2>9
    <3>3. \A y \in T : y \in Nat
      BY <2>4
    <3>4. Low(T)
      <4>1. CASE l <= t
        BY <3>1, <3>3, <4>1
      <4>2. CASE ~(l <= t)
        <5>1. \A y \in T : t <= y
          BY <2>5, <3>1, <3>3, <4>2
        <5> QED
          BY <2>5, <5>1
      <4> QED
        BY <4>1, <4>2
    <3>5. High(T)
      <4>1. CASE h >= t
        BY <3>2, <3>3, <4>1
      <4>2. CASE ~(h >= t)
        <5>1. \A y \in T : t >= y
          BY <2>5, <3>2, <3>3, <4>2
        <5> QED
          BY <2>5, <5>1
      <4> QED
        BY <4>1, <4>2
    <3> QED
      BY <2>4, <3>4, <3>5
  <2> QED
    BY <2>7, <2>8, <2>9
<1>2. Low(S) /\ High(S)
  BY <1>1
<1> QED
  BY <1>2 DEF Min, Max

\* A new row takes the place of one that was never there.
LEMMA NextRowFacts ==
    ASSUME NEW kind, Fresh(kind) # {}
    PROVE  /\ NextRow(kind) \in Resources
           /\ Kind[NextRow(kind)] = kind
           /\ res[NextRow(kind)].at = "absent"
<1>1. Fresh(kind) \subseteq Nat /\ IsFiniteSet(Fresh(kind))
  BY FS_Subset, HandoverAssumption DEF Fresh
<1>2. NextRow(kind) \in Fresh(kind)
  BY <1>1, MinMaxFacts DEF NextRow
<1> QED
  BY <1>2 DEF Fresh

-----------------------------------------------------------------------------
(* Members. *)

\* What the members' own steps leave as it is.
StaffGrows ==
    /\ OrganizationTypeOK' /\ InviteLimit' /\ StaffExists'
    /\ accounts' = accounts /\ Members \subseteq Members'
    /\ Active => Active'

LEMMA StaffStepFacts ==
    ASSUME OrganizationTypeOK, InviteLimit, StaffExists, StaffStep
    PROVE  StaffGrows
<1> USE DEF OrganizationTypeOK, Roles, Calls, InviteLimit, StaffExists, StaffGrows, Members, Active
<1>1. ASSUME NEW u \in Users, NEW v \in Users, NEW S \in SUBSET (Users \ {v}), CreateOrganization(u, v, S)
      PROVE  StaffGrows
  BY <1>1 DEF CreateOrganization
<1>2. ASSUME NEW u \in Users, CreateOrganizationRequest(u)
      PROVE  StaffGrows
  BY <1>2 DEF CreateOrganizationRequest
<1>3. ASSUME NEW u \in Users, WithdrawOrganizationRequest(u)
      PROVE  StaffGrows
  BY <1>3 DEF WithdrawOrganizationRequest
<1>4. ASSUME NEW u \in Users, NEW approve \in BOOLEAN, ReviewOrganizationRequest(u, approve)
      PROVE  StaffGrows
  BY <1>4 DEF ReviewOrganizationRequest
<1>5. ASSUME NEW u \in Users, NEW v \in Users, NEW r \in {"member", "manager"},
             AddOrganizationMember(u, v, r)
      PROVE  StaffGrows
  BY <1>5 DEF AddOrganizationMember, Called
<1>6. ASSUME NEW u \in Users, NEW v \in Users, NEW r \in {"member", "manager"},
             UpdateOrganizationMemberRole(u, v, r)
      PROVE  StaffGrows
  BY <1>6 DEF UpdateOrganizationMemberRole, Called
<1>7. ASSUME NEW u \in Users, NEW S \in SUBSET Users, NEW batch \in [S -> {"member", "manager"}],
             AddOrganizationMembersBulk(u, batch)
      PROVE  StaffGrows
  BY <1>7 DEF AddOrganizationMembersBulk
<1> HIDE DEF OrganizationTypeOK, Roles, Calls, InviteLimit, StaffExists, StaffGrows, Members, Active
<1> QED
  BY <1>1, <1>2, <1>3, <1>4, <1>5, <1>6, <1>7 DEF StaffStep

LEMMA MembershipStepFacts ==
    ASSUME OrganizationTypeOK, InviteLimit, StaffExists, MembershipStep
    PROVE  StaffGrows
<1> USE DEF OrganizationTypeOK, Roles, Calls, InviteLimit, StaffExists, StaffGrows, Members, Active
<1>1. CASE StaffStep
  BY <1>1, StaffStepFacts
<1>2. CASE InviteExpires
  BY <1>2 DEF InviteExpires
<1>3. ASSUME NEW u \in Users, NEW kind \in Calls \ {"none"}, Authorize(u, kind)
      PROVE  StaffGrows
  BY <1>3 DEF Authorize
<1>4. ASSUME NEW u \in Users, NEW max \in {0, 1}, NEW expires \in BOOLEAN,
             CreateOrganizationInvite(u, max, expires)
      PROVE  StaffGrows
  BY <1>4 DEF CreateOrganizationInvite, Called
<1>5. ASSUME NEW u \in Users, RevokeOrganizationInvite(u)
      PROVE  StaffGrows
  BY <1>5 DEF RevokeOrganizationInvite, Called
<1>6. ASSUME NEW u \in Users, JoinOrganizationByInvite(u)
      PROVE  StaffGrows
  BY <1>6 DEF JoinOrganizationByInvite
<1> QED
  BY <1>1, <1>2, <1>3, <1>4, <1>5, <1>6 DEF MembershipStep

\* Steps that leave the organization alone.
LEMMA SameStaff ==
    ASSUME OrganizationTypeOK, InviteLimit, StaffExists,
           UNCHANGED <<accounts, org, role, invite, request>>, call' \in [Users -> Calls]
    PROVE  StaffGrows
BY DEF StaffGrows, OrganizationTypeOK, InviteLimit, StaffExists, Members, Active

LEMMA CalledFacts ==
    ASSUME OrganizationTypeOK, NEW u \in Users, NEW kind, Called(u, kind)
    PROVE  call' \in [Users -> Calls]
BY DEF Called, OrganizationTypeOK, Calls

-----------------------------------------------------------------------------
(* Managers. *)

\* Whoever goes by KeepsManager leaves a manager behind.
LEMMA KeepsManagerFacts ==
    ASSUME OrganizationTypeOK, NEW v \in Users, NEW r \in Roles, KeepsManager(v, r),
           role' = [role EXCEPT ![v] = r], Managers # {}
    PROVE  Managers' # {}
<1>1. CASE r = "manager"
  BY <1>1 DEF Managers, OrganizationTypeOK
<1>2. CASE role[v] # "manager"
  BY <1>2 DEF Managers, OrganizationTypeOK
<1>3. CASE Cardinality(Managers) > 1
  <2>1. IsFiniteSet(Managers)
    BY FS_Subset, OrganizationAssumption DEF Managers
  <2>2. Managers # {v}
    BY <1>3, FS_Singleton
  <2>3. PICK w \in Managers : w # v
    BY <2>2
  <2> QED
    BY <2>3 DEF Managers, OrganizationTypeOK
<1> QED
  BY <1>1, <1>2, <1>3 DEF KeepsManager

LEMMA StaffKeepsManager ==
    ASSUME OrganizationTypeOK, StaffExists, StaffStep
    PROVE  ManagerKeptStep
<1> USE DEF OrganizationTypeOK, ManagerKeptStep, Managers
<1>1. ASSUME NEW u \in Users, NEW v \in Users, NEW S \in SUBSET (Users \ {v}), CreateOrganization(u, v, S)
      PROVE  ManagerKeptStep
  BY <1>1 DEF CreateOrganization
<1>2. ASSUME NEW u \in Users, CreateOrganizationRequest(u) \/ WithdrawOrganizationRequest(u)
      PROVE  ManagerKeptStep
  BY <1>2 DEF CreateOrganizationRequest, WithdrawOrganizationRequest
<1>3. ASSUME NEW u \in Users, NEW approve \in BOOLEAN, ReviewOrganizationRequest(u, approve)
      PROVE  ManagerKeptStep
  BY <1>3 DEF ReviewOrganizationRequest
<1>4. ASSUME NEW u \in Users, NEW v \in Users, NEW r \in {"member", "manager"},
             AddOrganizationMember(u, v, r) \/ UpdateOrganizationMemberRole(u, v, r)
      PROVE  ManagerKeptStep
  <2> HIDE DEF Managers
  <2>1. KeepsManager(v, r) /\ role' = [role EXCEPT ![v] = r]
    BY <1>4 DEF AddOrganizationMember, UpdateOrganizationMemberRole
  <2> QED
    BY <2>1, KeepsManagerFacts DEF Roles
<1>5. ASSUME NEW u \in Users, NEW S \in SUBSET Users, NEW batch \in [S -> {"member", "manager"}],
             AddOrganizationMembersBulk(u, batch)
      PROVE  ManagerKeptStep
  BY <1>5 DEF AddOrganizationMembersBulk
<1> HIDE DEF OrganizationTypeOK, ManagerKeptStep, Managers
<1> QED
  BY <1>1, <1>2, <1>3, <1>4, <1>5 DEF StaffStep

LEMMA MembershipKeepsManager ==
    ASSUME OrganizationTypeOK, StaffExists, MembershipStep
    PROVE  ManagerKeptStep
<1> USE DEF ManagerKeptStep, Managers
<1>1. CASE StaffStep
  BY <1>1, StaffKeepsManager
<1>2. CASE InviteExpires
  BY <1>2 DEF InviteExpires
<1>3. ASSUME NEW u \in Users, NEW kind \in Calls \ {"none"}, Authorize(u, kind)
      PROVE  ManagerKeptStep
  BY <1>3 DEF Authorize
<1>4. ASSUME NEW u \in Users, NEW max \in {0, 1}, NEW expires \in BOOLEAN,
             CreateOrganizationInvite(u, max, expires)
      PROVE  ManagerKeptStep
  BY <1>4 DEF CreateOrganizationInvite
<1>5. ASSUME NEW u \in Users, RevokeOrganizationInvite(u)
      PROVE  ManagerKeptStep
  BY <1>5 DEF RevokeOrganizationInvite
<1>6. ASSUME NEW u \in Users, JoinOrganizationByInvite(u)
      PROVE  ManagerKeptStep
  BY <1>6 DEF JoinOrganizationByInvite, OrganizationTypeOK, Members
<1> QED
  BY <1>1, <1>2, <1>3, <1>4, <1>5, <1>6 DEF MembershipStep

-----------------------------------------------------------------------------
(* Rows. *)

RowsTypeOK ==
    /\ res \in [Resources -> Rows]
    /\ alias \in [Customers -> Customers \cup {Nobody}]
    /\ pipe \in [Campaigns -> Pipes]
    /\ stopping \subseteq Campaigns

RowsKept == AtRest /\ Owned /\ IdentityKept

LEMMA IInvParts ==
    IInv <=> /\ OrganizationTypeOK /\ InviteLimit /\ StaffExists
             /\ RowsTypeOK /\ RowsKept
BY DEF IInv, OwnerIsMember, TypeOK, RowsTypeOK, RowsKept

\* What is demanded of one row.
RowKept(x, row) ==
    row.at = "org" =>
        IF row.pending
        THEN /\ row.owner = Nobody
             /\ x \in Campaigns => row.status \notin {"scheduled", "running", "deferred"}
        ELSE org = "active" /\ row.owner \in accounts \cap (Members \cup Admins)

LEMMA RowKeptFacts ==
    (\A x \in Resources : RowKept(x, res[x])) <=> AtRest /\ Owned
BY DEF RowKept, AtRest, Owned, Waiting, Campaigns

\* An organization that only grows keeps the rows.
LEMMA RowsStay ==
    ASSUME RowsTypeOK, RowsKept, StaffGrows, UNCHANGED <<res, alias>>
    PROVE  RowsKept'
BY DEF RowsKept, AtRest, Owned, IdentityKept, StaffGrows, Active, Waiting, Exists

\* A step that rewrites one row, of a customer without taking the customer away.
LEMMA OneRow ==
    ASSUME RowsTypeOK, RowsKept, StaffGrows, alias' = alias,
           NEW x \in Resources, NEW row \in Rows, res' = [res EXCEPT ![x] = row],
           RowKept(x, row)',
           res[x].at # "merged", row.at # "merged",
           x \in Customers /\ Exists(x) =>
               row.at \in {"personal", "org"} /\ (res[x].blocked => row.blocked)
    PROVE  res' \in [Resources -> Rows] /\ RowsKept'
<1>1. res' \in [Resources -> Rows]
  BY DEF RowsTypeOK
<1>2. \A y \in Resources : RowKept(y, res[y])
  BY RowKeptFacts DEF RowsKept
<1>3. \A y \in Resources : RowKept(y, res[y])'
  BY <1>2 DEF RowKept, StaffGrows, Active, RowsTypeOK
<1>4. (AtRest /\ Owned)'
  BY <1>3 DEF RowKept, AtRest, Owned, Waiting, Campaigns
<1>5. IdentityKept'
  BY DEF RowsKept, IdentityKept, Exists, RowsTypeOK, Customers
<1> QED
  BY <1>1, <1>4, <1>5 DEF RowsKept

-----------------------------------------------------------------------------
(* Owners at work. *)

\* A handler that works in the workspace, or in a personal space.
LEMMA ChangeableFacts ==
    ASSUME IInv, NEW u \in Users, NEW x \in Resources, Changeable(u, x)
    PROVE  /\ call' \in [Users -> Calls]
           /\ Exists(x) /\ ~res[x].pending
BY CalledFacts, IInvParts DEF Changeable, OrganizationTypeOK

\* A change of one row by its owner that leaves the owner to it.
LEMMA ChangedRow ==
    ASSUME IInv, NEW x \in Resources, Exists(x), NEW row \in Rows, StaffGrows,
           res' = [res EXCEPT ![x] = row], UNCHANGED <<alias, stopping>>, pipe' \in [Campaigns -> Pipes],
           row.at = res[x].at, row.owner = res[x].owner, row.pending = res[x].pending,
           row.blocked = res[x].blocked,
           row.pending => row.status = res[x].status
    PROVE  IInv'
<1>1. RowKept(x, res[x])
  BY IInvParts, RowKeptFacts DEF RowsKept
<1>2. RowKept(x, row)'
  BY <1>1, IInvParts DEF RowKept, StaffGrows, Active, RowsTypeOK, Rows
<1>3. res[x].at # "merged" /\ row.at # "merged"
  BY DEF Exists
<1>4. res' \in [Resources -> Rows] /\ RowsKept'
  BY <1>2, <1>3, OneRow, IInvParts DEF Exists
<1>5. RowsTypeOK'
  BY <1>4, IInvParts DEF RowsTypeOK
<1> QED
  BY <1>4, <1>5, IInvParts, PTL DEF StaffGrows

LEMMA CreateResourceStep ==
    ASSUME IInv, NEW u \in Users, NEW x \in Resources, NEW at \in {"personal", "org"},
           NEW blocked \in BOOLEAN, CreateResource(u, x, at, blocked)
    PROVE  IInv'
<1> DEFINE row == New(at, u, blocked)
<1>1. /\ res' = [res EXCEPT ![x] = row] /\ res[x].at = "absent"
      /\ UNCHANGED <<accounts, org, role, invite, request, alias, pipe, stopping>>
  BY DEF CreateResource, sendVars
<1>2. call' \in [Users -> Calls]
  BY CalledFacts, IInvParts DEF CreateResource, OrganizationTypeOK
<1>3. StaffGrows
  BY <1>1, <1>2, SameStaff, IInvParts
<1>4. /\ row \in Rows /\ row.at = at /\ row.owner = u /\ row.pending = FALSE
      /\ row.blocked = blocked
  BY DEF New, Absent, Rows, Statuses
<1>5. at = "org" => StillWorks(u, Admins)
  BY DEF CreateResource
<1> HIDE DEF row
<1>6. RowKept(x, row)'
  BY <1>1, <1>4, <1>5 DEF RowKept, StillWorks, Active, Members
<1>7. res' \in [Resources -> Rows] /\ RowsKept'
  BY <1>1, <1>3, <1>4, <1>6, OneRow, IInvParts DEF Exists
<1>8. RowsTypeOK'
  BY <1>1, <1>7, IInvParts DEF RowsTypeOK
<1> QED
  BY <1>3, <1>7, <1>8, IInvParts, PTL DEF StaffGrows

LEMMA PublishStep ==
    ASSUME IInv, NEW u \in Users, NEW x \in Resources,
           NEW visibility \in {"private", "organization", "global"}, Publish(u, x, visibility)
    PROVE  IInv'
<1> DEFINE row == [res[x] EXCEPT !.visibility = visibility]
<1>1. /\ res' = [res EXCEPT ![x] = row] /\ Changeable(u, x)
      /\ UNCHANGED <<accounts, org, role, invite, request, alias, pipe, stopping>>
  BY IInvParts DEF Publish, sendVars, RowsTypeOK
<1>2. StaffGrows
  BY <1>1, ChangeableFacts, SameStaff, IInvParts
<1>3. res[x] \in Rows
  BY IInvParts DEF RowsTypeOK
<1>4. /\ row \in Rows /\ row.at = res[x].at /\ row.owner = res[x].owner
      /\ row.pending = res[x].pending /\ row.blocked = res[x].blocked
      /\ row.status = res[x].status
  BY <1>3 DEF Rows
<1> HIDE DEF row
<1> QED
  BY <1>1, <1>2, <1>4, ChangeableFacts, ChangedRow, IInvParts DEF RowsTypeOK

LEMMA DeleteResourceStep ==
    ASSUME IInv, NEW u \in Users, NEW x \in Resources, DeleteResource(u, x)
    PROVE  IInv'
<1> DEFINE gone == [Absent EXCEPT !.at = "deleted"]
<1>1. /\ UNCHANGED <<accounts, org, role, invite, request, pipe, stopping>>
      /\ Changeable(u, x)
      /\ res' = Forgotten({x}, [res EXCEPT ![x] = gone])
      /\ alias' = [y \in Customers |-> IF alias[y] = x THEN Nobody ELSE alias[y]]
  BY DEF DeleteResource, sendVars
<1>2. StaffGrows
  BY <1>1, ChangeableFacts, SameStaff, IInvParts
<1>3. gone \in Rows /\ gone.at = "deleted"
  BY DEF Absent, Rows, Statuses
<1> HIDE DEF gone
<1>4. ASSUME NEW y \in Resources
      PROVE  /\ res'[y] \in Rows
             /\ \/ res'[y] = res[y] /\ y # x /\ ~(y \in Customers /\ res[y].at = "merged" /\ alias[y] = x)
                \/ res'[y].at = "deleted" /\ (y = x \/ res[y].at = "merged")
  BY <1>1, <1>3, IInvParts DEF Forgotten, RowsTypeOK, Rows
<1>5. RowsTypeOK'
  BY <1>1, <1>4, IInvParts DEF RowsTypeOK, Forgotten, Customers
<1>6. (AtRest /\ Owned)'
  BY <1>2, <1>4, IInvParts DEF RowsKept, AtRest, Owned, StaffGrows, Active, Waiting, Campaigns
<1>7. IdentityKept'
  <2> SUFFICES ASSUME NEW y \in Customers, res'[y].at = "merged"
               PROVE  /\ alias'[y] # Nobody /\ Exists(alias[y])'
                      /\ Address[alias'[y]] = Address[y]
                      /\ res'[y].blocked => res'[alias'[y]].blocked
    BY DEF IdentityKept
  <2>1. y \in Resources
    BY DEF Customers
  <2>2. res'[y] = res[y] /\ alias[y] # x
    BY <1>4, <2>1
  <2>3. alias'[y] = alias[y]
    BY <1>1, <2>2
  <2>4. /\ alias[y] # Nobody /\ Exists(alias[y]) /\ Address[alias[y]] = Address[y]
        /\ res[y].blocked => res[alias[y]].blocked
    BY <2>2, IInvParts DEF RowsKept, IdentityKept
  <2>5. alias[y] \in Resources
    BY <2>4, IInvParts DEF RowsTypeOK, Customers
  <2>6. res'[alias[y]] = res[alias[y]]
    BY <1>4, <2>2, <2>4, <2>5 DEF Exists
  <2> QED
    BY <2>2, <2>3, <2>4, <2>6 DEF Exists
<1> QED
  BY <1>2, <1>5, <1>6, <1>7, IInvParts, PTL DEF StaffGrows, RowsKept

-----------------------------------------------------------------------------
(* Rows that a member brings along. *)

\* A row of a member who works in the organization.
LEMMA MembersRow ==
    ASSUME OrganizationTypeOK, StaffExists, StaffGrows, NEW u \in Users, StillWorks(u, {}),
           NEW blocked \in BOOLEAN, NEW x
    PROVE  LET row == New("org", u, blocked)
           IN  row \in Rows /\ row.at = "org" /\ row.blocked = blocked /\ RowKept(x, row)'
BY DEF New, Absent, Rows, Statuses, RowKept, StillWorks, StaffGrows, Active

LEMMA MigrateListsStep ==
    ASSUME IInv, NEW u \in Users, NEW list \in Lists, NEW move \in BOOLEAN,
           NEW subscribers, subscribers \in {{}} \cup {{y} : y \in Customers},
           MigratePersonalLists(u, list, move, subscribers)
    PROVE  IInv'
<1> DEFINE there == UNION {Scoped("org", u, Address[x]) : x \in subscribers}
           copies == IF subscribers = {} THEN {} ELSE IF there = {} THEN {NextRow("customer")} ELSE there
           copy   == IF move THEN list ELSE NextRow("list")
           hit(x) == res[x].blocked \/ \E y \in subscribers : res[y].blocked
<1>1. /\ UNCHANGED <<accounts, org, role, invite, request, alias, pipe, stopping>>
      /\ Called(u, "work") /\ StillWorks(u, {})
      /\ res[list].at = "personal"
      /\ move \/ Fresh("list") # {}
      /\ there = {} /\ subscribers # {} => Fresh("customer") # {}
      /\ res' = [x \in Resources |->
                   IF x = copy THEN New("org", u, FALSE)
                   ELSE IF x \in copies THEN New("org", u, hit(x)) ELSE res[x]]
  BY DEF MigratePersonalLists, sendVars
<1>2. StaffGrows
  BY <1>1, CalledFacts, SameStaff, IInvParts
<1>3. /\ copy \in Resources /\ copy \notin Customers
      /\ res[copy].at \in {"personal", "absent"}
  BY <1>1, NextRowFacts DEF Lists, Customers
<1>4. /\ copies \subseteq Customers
      /\ \A x \in copies : res[x].at \in {"absent", "org"}
  <2>1. there \subseteq Customers /\ \A x \in there : res[x].at = "org"
    BY DEF Scoped
  <2> HIDE DEF there
  <2> QED
    BY <1>1, <2>1, NextRowFacts DEF Customers
<1> HIDE DEF there, copies, copy
<1>5. \A x \in Resources : hit(x) \in BOOLEAN
  OBVIOUS
<1>6. ASSUME NEW x \in Resources
      PROVE  /\ res'[x] \in Rows /\ RowKept(x, res[x])'
             /\ \/ res'[x] = res[x]
                \/ x \notin Customers /\ res'[x].at = "org"
                \/ /\ res[x].at \in {"absent", "org"} /\ res'[x].at = "org"
                   /\ res[x].blocked => res'[x].blocked
  <2>1. CASE x = copy
    BY <1>1, <1>2, <1>3, <2>1, MembersRow, IInvParts DEF RowKept
  <2>2. CASE x # copy /\ x \in copies
    <3>1. PICK b \in BOOLEAN : b = hit(x)
      BY <1>5
    <3>2. res'[x] = New("org", u, b)
      BY <1>1, <2>2, <3>1
    <3>3. /\ res'[x] \in Rows /\ res'[x].at = "org" /\ res'[x].blocked = b
          /\ RowKept(x, New("org", u, b))'
      BY <1>1, <1>2, <3>2, MembersRow, IInvParts
    <3>4. RowKept(x, res[x])'
      BY <3>2, <3>3 DEF RowKept
    <3> QED
      BY <1>4, <2>2, <3>1, <3>3, <3>4
  <2>3. CASE x # copy /\ x \notin copies
    <3>1. res'[x] = res[x]
      BY <1>1, <2>3
    <3>2. RowKept(x, res[x])
      BY IInvParts, RowKeptFacts DEF RowsKept
    <3> QED
      BY <1>1, <1>2, <3>1, <3>2, IInvParts DEF RowsTypeOK, RowKept, StaffGrows, Active
  <2> QED
    BY <2>1, <2>2, <2>3
<1>7. RowsTypeOK'
  BY <1>1, <1>6, IInvParts DEF RowsTypeOK
<1>8. (AtRest /\ Owned)'
  BY <1>6 DEF RowKept, AtRest, Owned, Waiting, Campaigns
<1>9. IdentityKept'
  <2> SUFFICES ASSUME NEW y \in Customers, res'[y].at = "merged"
               PROVE  /\ alias'[y] # Nobody /\ Exists(alias[y])'
                      /\ Address[alias'[y]] = Address[y]
                      /\ res'[y].blocked => res'[alias'[y]].blocked
    BY DEF IdentityKept
  <2>1. res'[y] = res[y] /\ alias'[y] = alias[y]
    BY <1>1, <1>6 DEF Customers
  <2>2. /\ alias[y] # Nobody /\ Exists(alias[y]) /\ Address[alias[y]] = Address[y]
        /\ res[y].blocked => res[alias[y]].blocked
    BY <2>1, IInvParts DEF RowsKept, IdentityKept
  <2>3. alias[y] \in Customers /\ alias[y] \in Resources
    BY <2>2, IInvParts DEF RowsTypeOK, Customers
  <2>4. /\ res'[alias[y]].at \in {"personal", "org"}
        /\ res[alias[y]].blocked => res'[alias[y]].blocked
    BY <1>6, <2>2, <2>3 DEF Exists
  <2> QED
    BY <2>1, <2>2, <2>4 DEF Exists
<1> QED
  BY <1>2, <1>7, <1>8, <1>9, IInvParts, PTL DEF StaffGrows, RowsKept

LEMMA MigrateResourcesStep ==
    ASSUME IInv, NEW u \in Users, NEW x \in Resources, NEW move \in BOOLEAN,
           MigratePersonalResources(u, x, move)
    PROVE  IInv'
<1> DEFINE same == move /\ Kind[x] # "campaign"
           copy == IF same THEN x ELSE NextRow(Kind[x])
           gone == [Absent EXCEPT !.at = "deleted"]
<1>1. /\ UNCHANGED <<accounts, org, role, invite, request, alias, pipe, stopping>>
      /\ Called(u, "work") /\ StillWorks(u, {})
      /\ Kind[x] \in {"template", "media", "campaign"}
      /\ res[x].at = "personal"
      /\ same \/ Fresh(Kind[x]) # {}
      /\ res' = [y \in Resources |->
                   IF y = copy THEN New("org", u, FALSE)
                   ELSE IF y = x /\ move THEN gone ELSE res[y]]
  BY DEF MigratePersonalResources, sendVars
<1>2. StaffGrows
  BY <1>1, CalledFacts, SameStaff, IInvParts
<1>3. /\ x \notin Customers
      /\ copy \in Resources /\ copy \notin Customers
  BY <1>1, NextRowFacts DEF Customers
<1>4. gone \in Rows /\ gone.at = "deleted"
  BY DEF Absent, Rows, Statuses
<1> HIDE DEF copy, gone
<1>5. ASSUME NEW y \in Resources
      PROVE  /\ res'[y] \in Rows /\ RowKept(y, res[y])'
             /\ res'[y] = res[y] \/ y \notin Customers
  <2>1. CASE y = copy
    BY <1>1, <1>2, <1>3, <2>1, MembersRow, IInvParts DEF RowKept
  <2>2. CASE y # copy /\ y = x /\ move
    BY <1>1, <1>3, <1>4, <2>2 DEF RowKept
  <2>3. CASE y # copy /\ ~(y = x /\ move)
    <3>1. res'[y] = res[y]
      BY <1>1, <2>3
    <3>2. RowKept(y, res[y])
      BY IInvParts, RowKeptFacts DEF RowsKept
    <3> QED
      BY <1>1, <1>2, <3>1, <3>2, IInvParts DEF RowsTypeOK, RowKept, StaffGrows, Active
  <2> QED
    BY <2>1, <2>2, <2>3
<1>6. RowsTypeOK'
  BY <1>1, <1>5, IInvParts DEF RowsTypeOK
<1>7. (AtRest /\ Owned)'
  BY <1>5 DEF RowKept, AtRest, Owned, Waiting, Campaigns
<1>8. IdentityKept'
  BY <1>1, <1>5, IInvParts, ZenonT(40) DEF RowsKept, RowsTypeOK, IdentityKept, Exists, Customers
<1> QED
  BY <1>2, <1>6, <1>7, <1>8, IInvParts, PTL DEF StaffGrows, RowsKept

-----------------------------------------------------------------------------
(* Owners who go. *)

\* A row that waits for a new owner.
Resting(x, row) ==
    /\ row.pending /\ row.owner = Nobody
    /\ x \in Campaigns => row.status \notin {"scheduled", "running", "deferred"}

\* What is released keeps its identity and has no owner in the organization.
LEMMA ReleasedFacts ==
    ASSUME RowsTypeOK, NEW owners \in SUBSET (Users \cup {Nobody}), NEW keep \in BOOLEAN,
           NEW x \in Resources
    PROVE  LET row == Released(owners, keep)[x]
           IN  /\ row \in Rows
               /\ row.blocked = res[x].blocked
               /\ \/ row = res[x] /\ (res[x].at # "org" \/ res[x].owner \notin owners)
                  \/ row.at = "personal" /\ res[x].at = "org"
                  \/ row.at = "org" /\ res[x].at = "org" /\ Resting(x, row)
<1>1. res[x] \in Rows
  BY DEF RowsTypeOK
<1>2. /\ Ownerless(x) \in Rows /\ Ownerless(x).at = res[x].at
      /\ Ownerless(x).blocked = res[x].blocked /\ Resting(x, Ownerless(x))
  BY <1>1 DEF Resting, Ownerless, Halted, Rows, Statuses
<1>3. LET row == [res[x] EXCEPT !.at = "personal", !.pending = FALSE]
      IN  row \in Rows /\ row.at = "personal" /\ row.blocked = res[x].blocked
  BY <1>1 DEF Rows
<1>4. Global(x) => x \notin Campaigns
  BY DEF Global, Campaigns
<1> DEFINE mine == res[x].at = "org" /\ res[x].owner \in owners
           kept == keep /\ Global(x) /\ res[x].owner # Nobody
           row == Released(owners, keep)[x]
<1>5. row = IF ~mine THEN res[x]
            ELSE IF kept THEN [res[x] EXCEPT !.at = "personal", !.pending = FALSE]
            ELSE Ownerless(x)
  BY DEF Released
<1>6. CASE ~mine
  BY <1>1, <1>5, <1>6
<1>7. CASE mine /\ kept
  BY <1>3, <1>4, <1>5, <1>7
<1>8. CASE mine /\ ~kept
  BY <1>2, <1>5, <1>8
<1> QED
  BY <1>6, <1>7, <1>8

\* No identity is lost by a step that leaves every customer where it is, or takes its
\* owner away.
LEMMA SamePlaces ==
    ASSUME RowsTypeOK, IdentityKept, alias' = alias,
           \A x \in Resources : /\ res'[x].blocked = res[x].blocked
                                /\ \/ res'[x].at = res[x].at
                                   \/ res[x].at = "org" /\ res'[x].at = "personal"
    PROVE  IdentityKept'
<1> SUFFICES ASSUME NEW y \in Customers, res'[y].at = "merged"
             PROVE  /\ alias'[y] # Nobody /\ Exists(alias[y])'
                    /\ Address[alias'[y]] = Address[y]
                    /\ res'[y].blocked => res'[alias'[y]].blocked
  BY DEF IdentityKept
<1>1. y \in Resources /\ res[y].at = "merged"
  BY DEF Customers
<1>2. /\ alias[y] # Nobody /\ Exists(alias[y]) /\ Address[alias[y]] = Address[y]
      /\ res[y].blocked => res[alias[y]].blocked
  BY <1>1 DEF IdentityKept
<1>3. alias[y] \in Resources
  BY <1>2 DEF RowsTypeOK, Customers
<1> QED
  BY <1>1, <1>2, <1>3 DEF Exists

LEMMA RemoveMemberStep ==
    ASSUME IInv, NEW v \in Users, NEW forwarded \in BOOLEAN, RemoveOrganizationMember(v, forwarded)
    PROVE  IInv'
<1>1. /\ RemoveMembership(v)
      /\ res' = Released({v}, TRUE)
      /\ stopping' = IF forwarded THEN stopping \cup Stopped ELSE stopping
      /\ UNCHANGED <<alias, pipe>>
  BY DEF RemoveOrganizationMember
<1>2. /\ UNCHANGED <<accounts, org, invite, request>> /\ Active
      /\ role' = [role EXCEPT ![v] = "former"]
      /\ call' \in [Users -> Calls]
  BY <1>1, CalledFacts, IInvParts DEF RemoveMembership
<1>3. (OrganizationTypeOK /\ InviteLimit /\ StaffExists)'
  BY <1>2, IInvParts DEF OrganizationTypeOK, InviteLimit, StaffExists, Members, Roles
<1>4. Members' \cup {v} = Members \cup {v}
  BY <1>2, IInvParts DEF OrganizationTypeOK, Members
<1>5. v \notin {Nobody} /\ {v} \in SUBSET (Users \cup {Nobody})
  BY OrganizationAssumption
<1>6. ASSUME NEW x \in Resources
      PROVE  /\ res'[x] \in Rows /\ RowKept(x, res[x])'
             /\ res'[x].blocked = res[x].blocked
             /\ res'[x].at = res[x].at \/ (res[x].at = "org" /\ res'[x].at = "personal")
  <2>1. RowKept(x, res[x])
    BY IInvParts, RowKeptFacts DEF RowsKept
  <2> DEFINE row == Released({v}, TRUE)[x]
  <2>2. /\ row \in Rows /\ row.blocked = res[x].blocked
        /\ \/ row = res[x] /\ (res[x].at # "org" \/ res[x].owner # v)
           \/ row.at = "personal" /\ res[x].at = "org"
           \/ row.at = "org" /\ res[x].at = "org" /\ Resting(x, row)
    BY <1>5, ReleasedFacts, IInvParts
  <2>3. res'[x] = row
    BY <1>1
  <2> HIDE DEF row
  <2>4. CASE row = res[x] /\ (res[x].at # "org" \/ res[x].owner # v)
    BY <1>2, <1>4, <2>1, <2>2, <2>3, <2>4 DEF RowKept, Active
  <2>5. CASE row.at = "personal" /\ res[x].at = "org"
    BY <2>2, <2>3, <2>5 DEF RowKept
  <2>6. CASE row.at = "org" /\ res[x].at = "org" /\ Resting(x, row)
    BY <2>2, <2>3, <2>6 DEF RowKept, Resting
  <2> QED
    BY <2>2, <2>4, <2>5, <2>6
<1>7. RowsTypeOK'
  BY <1>1, <1>6, IInvParts DEF RowsTypeOK, Released, Stopped
<1>8. (AtRest /\ Owned)'
  BY <1>6 DEF RowKept, AtRest, Owned, Waiting, Campaigns
<1>9. IdentityKept'
  BY <1>1, <1>6, SamePlaces, IInvParts DEF RowsKept
<1> QED
  BY <1>3, <1>7, <1>8, <1>9, IInvParts, PTL DEF RowsKept

LEMMA ArchiveStep ==
    ASSUME IInv, NEW u \in Users, NEW listed \in BOOLEAN, ArchiveOrganization(u, listed)
    PROVE  IInv'
<1>1. /\ ArchiveMembership(u)
      /\ res' = Released(Users \cup {Nobody}, TRUE)
      /\ stopping' \in {stopping, stopping \cup Stopped}
      /\ UNCHANGED <<alias, pipe>>
  BY DEF ArchiveOrganization
<1>2. UNCHANGED <<accounts, role, invite, request, call>> /\ org' = "archived"
  BY <1>1 DEF ArchiveMembership
<1>3. (OrganizationTypeOK /\ InviteLimit /\ StaffExists)'
  BY <1>2, IInvParts DEF OrganizationTypeOK, InviteLimit, StaffExists, Members
<1>4. ASSUME NEW x \in Resources
      PROVE  /\ res'[x] \in Rows /\ RowKept(x, res[x])'
             /\ res'[x].blocked = res[x].blocked
             /\ res'[x].at = res[x].at \/ (res[x].at = "org" /\ res'[x].at = "personal")
  <2>1. res[x].owner \in Users \cup {Nobody}
    BY IInvParts DEF RowsTypeOK, Rows
  <2> DEFINE row == Released(Users \cup {Nobody}, TRUE)[x]
  <2>2. /\ row \in Rows /\ row.blocked = res[x].blocked
        /\ \/ row = res[x] /\ res[x].at # "org"
           \/ row.at = "personal" /\ res[x].at = "org"
           \/ row.at = "org" /\ res[x].at = "org" /\ Resting(x, row)
    BY <2>1, ReleasedFacts, IInvParts
  <2>3. res'[x] = row
    BY <1>1
  <2> HIDE DEF row
  <2> QED
    BY <2>2, <2>3 DEF RowKept, Resting
<1>5. RowsTypeOK'
  BY <1>1, <1>4, IInvParts DEF RowsTypeOK, Released, Stopped
<1>6. (AtRest /\ Owned)'
  BY <1>4 DEF RowKept, AtRest, Owned, Waiting, Campaigns
<1>7. IdentityKept'
  BY <1>1, <1>4, SamePlaces, IInvParts DEF RowsKept
<1> QED
  BY <1>3, <1>5, <1>6, <1>7, IInvParts, PTL DEF RowsKept

LEMMA DeleteUserStep ==
    ASSUME IInv, NEW v \in Users, DeleteUser(v)
    PROVE  IInv'
<1>1. /\ DeleteMembership(v)
      /\ res' = [x \in Resources |->
                    IF res[x].at = "personal" /\ res[x].owner = v
                    THEN [res[x] EXCEPT !.owner = Nobody] ELSE Released({v}, FALSE)[x]]
      /\ UNCHANGED <<alias, pipe, stopping>>
  BY DEF DeleteUser, sendVars
<1>2. /\ UNCHANGED <<org, call>>
      /\ accounts' = accounts \ {v}
      /\ role' = [role EXCEPT ![v] = "none"]
      /\ invite' = IF invite.by = v THEN NoInvite ELSE invite
      /\ request' = IF request.by = v THEN NoRequest ELSE request
  BY <1>1 DEF DeleteMembership
<1>3. OrganizationTypeOK'
  BY <1>2, IInvParts DEF OrganizationTypeOK, Roles, NoInvite, NoRequest
<1>4. InviteLimit' /\ StaffExists'
  BY <1>2, IInvParts DEF OrganizationTypeOK, InviteLimit, StaffExists, Members, NoInvite, NoRequest
<1>5. v \notin {Nobody} /\ {v} \in SUBSET (Users \cup {Nobody})
  BY OrganizationAssumption
<1>6. ASSUME NEW x \in Resources
      PROVE  /\ res'[x] \in Rows /\ RowKept(x, res[x])'
             /\ res'[x].blocked = res[x].blocked
             /\ res'[x].at = res[x].at \/ (res[x].at = "org" /\ res'[x].at = "personal")
  <2>1. RowKept(x, res[x]) /\ res[x] \in Rows
    BY IInvParts, RowKeptFacts DEF RowsKept, RowsTypeOK
  <2>2. CASE res[x].at = "personal" /\ res[x].owner = v
    BY <1>1, <2>1, <2>2 DEF RowKept, Rows
  <2>3. CASE ~(res[x].at = "personal" /\ res[x].owner = v)
    <3> DEFINE row == Released({v}, FALSE)[x]
    <3>1. /\ row \in Rows /\ row.blocked = res[x].blocked
          /\ \/ row = res[x] /\ (res[x].at # "org" \/ res[x].owner # v)
             \/ row.at = "personal" /\ res[x].at = "org"
             \/ row.at = "org" /\ res[x].at = "org" /\ Resting(x, row)
      BY <1>5, ReleasedFacts, IInvParts
    <3>2. res'[x] = row
      BY <1>1, <2>3
    <3> HIDE DEF row
    <3>3. CASE row = res[x] /\ (res[x].at # "org" \/ res[x].owner # v)
      BY <1>2, <2>1, <3>1, <3>2, <3>3, IInvParts DEF RowKept, Members, OrganizationTypeOK
    <3>4. CASE row.at = "personal" /\ res[x].at = "org"
      BY <3>1, <3>2, <3>4 DEF RowKept
    <3>5. CASE row.at = "org" /\ res[x].at = "org" /\ Resting(x, row)
      BY <3>1, <3>2, <3>5 DEF RowKept, Resting
    <3> QED
      BY <3>1, <3>3, <3>4, <3>5
  <2> QED
    BY <2>2, <2>3
<1>7. RowsTypeOK'
  BY <1>1, <1>6, IInvParts DEF RowsTypeOK
<1>8. (AtRest /\ Owned)'
  BY <1>6 DEF RowKept, AtRest, Owned, Waiting, Campaigns
<1>9. IdentityKept'
  BY <1>1, <1>6, SamePlaces, IInvParts DEF RowsKept
<1> QED
  BY <1>3, <1>4, <1>7, <1>8, <1>9, IInvParts, PTL DEF RowsKept

LEMMA PurgeStep ==
    ASSUME IInv, NEW u \in Users, PurgeArchivedOrganization(u)
    PROVE  IInv'
<1>1. /\ UNCHANGED <<accounts, request, call, res, alias, pipe, stopping>>
      /\ org' = "purged" /\ role' = [x \in Users |-> "none"] /\ invite' = NoInvite
      /\ \A x \in Resources : res[x].at # "org"
  BY DEF PurgeArchivedOrganization, PurgeMembership, sendVars
<1>2. (OrganizationTypeOK /\ InviteLimit /\ StaffExists)'
  BY <1>1, IInvParts DEF OrganizationTypeOK, InviteLimit, StaffExists, Members, NoInvite, Roles
<1>3. RowsTypeOK'
  BY <1>1, IInvParts DEF RowsTypeOK
<1>4. (AtRest /\ Owned)'
  BY <1>1 DEF AtRest, Owned, Waiting, Campaigns
<1>5. IdentityKept'
  BY <1>1, IInvParts DEF RowsKept, IdentityKept, Exists
<1> QED
  BY <1>2, <1>3, <1>4, <1>5, IInvParts, PTL DEF RowsKept

-----------------------------------------------------------------------------
(* New owners. *)

\* Whoever is merged into another waits, and that one is at the same address and stays.
Merges(goes) ==
    /\ goes \in [Customers -> Customers]
    /\ \A x \in Customers : goes[x] # x =>
        /\ Waiting(x) /\ Exists(goes[x])
        /\ goes[goes[x]] = goes[x]
        /\ Address[goes[x]] = Address[x]

LEMMA TargetsFacts ==
    ASSUME IInv, NEW at \in {"personal", "org"}, NEW v \in Users, NEW lowest \in BOOLEAN
    PROVE  Merges(Targets(at, v, lowest))
<1> DEFINE goes == Targets(at, v, lowest)
           there(x) == Scoped(at, v, Address[x])
           same(x) == {y \in Customers : Waiting(y) /\ Address[y] = Address[x]}
           first(x) == IF there(x) # {} THEN CHOOSE y \in there(x) : TRUE
                       ELSE IF lowest THEN Min(same(x)) ELSE Max(same(x))
<1>1. goes = [x \in Customers |-> IF ~Waiting(x) THEN x ELSE first(x)]
  BY DEF Targets
<1>2. ASSUME NEW x \in Customers, Waiting(x)
      PROVE  /\ first(x) \in Customers /\ Exists(first(x))
             /\ Address[first(x)] = Address[x]
             /\ goes[first(x)] = first(x)
  <2>1. CASE there(x) # {}
    <3>1. first(x) \in there(x)
      BY <2>1
    <3> HIDE DEF first
    <3>2. /\ first(x) \in Customers /\ res[first(x)].at = at /\ res[first(x)].owner = v
          /\ Address[first(x)] = Address[x]
      BY <3>1 DEF Scoped
    <3>3. first(x) \in Resources /\ v # Nobody
      BY <3>2, OrganizationAssumption DEF Customers
    <3>4. ~Waiting(first(x))
      BY <3>2, <3>3, IInvParts DEF RowsKept, Owned, Waiting
    <3> QED
      BY <1>1, <3>2, <3>4 DEF Exists
  <2>2. CASE there(x) = {}
    <3>1. same(x) \subseteq Nat /\ IsFiniteSet(same(x)) /\ x \in same(x)
      BY <1>2, FS_Subset, HandoverAssumption DEF Customers
    <3>2. first(x) \in same(x)
      <4>1. Min(same(x)) \in same(x) /\ Max(same(x)) \in same(x)
        BY <3>1, MinMaxFacts
      <4> QED
        BY <2>2, <4>1
    <3>3. ASSUME NEW y \in same(x) PROVE first(y) = first(x)
      <4>1. y \in Customers /\ Address[y] = Address[x]
        OBVIOUS
      <4>2. same(y) = same(x) /\ there(y) = there(x)
        BY <4>1
      <4> QED
        BY <4>2
    <3> HIDE DEF first
    <3>4. goes[first(x)] = first(first(x))
      BY <1>1, <3>2
    <3>5. first(first(x)) = first(x)
      BY <3>2, <3>3
    <3> QED
      BY <3>2, <3>4, <3>5 DEF Waiting, Exists
  <2> QED
    BY <2>1, <2>2
<1> HIDE DEF first, goes
<1> QED
  <2>1. goes \in [Customers -> Customers]
    BY <1>1, <1>2
  <2>2. ASSUME NEW x \in Customers, goes[x] # x
        PROVE  /\ Waiting(x) /\ Exists(goes[x])
               /\ goes[goes[x]] = goes[x] /\ Address[goes[x]] = Address[x]
    BY <1>1, <1>2, <2>2
  <2> QED
    BY <2>1, <2>2 DEF Merges, goes

\* A hand-over keeps every identity.
LEMMA HandOverFacts ==
    ASSUME IInv, NEW goes, NEW handed, Merges(goes), HandOver(goes, handed),
           StaffGrows,
           \A x \in Resources : Waiting(x) =>
               /\ handed[x] \in Rows /\ RowKept(x, handed[x])'
               /\ handed[x].at \in {"personal", "org"}
               /\ handed[x].blocked = res[x].blocked
    PROVE  IInv'
<1> DEFINE row(x) == IF Waiting(x) THEN handed[x] ELSE res[x]
           merged(x) == [Absent EXCEPT !.at = "merged", !.blocked = row(x).blocked]
           joined(x) == [row(x) EXCEPT !.blocked = @ \/ \E y \in Customers : goes[y] = x /\ res[y].blocked]
<1>1. /\ res' = [x \in Resources |-> IF x \in Customers THEN MergedRow(x, goes, row(x)) ELSE row(x)]
      /\ alias' = [x \in Customers |-> Followed(x, goes)]
      /\ UNCHANGED <<pipe, stopping>>
  BY DEF HandOver, sendVars
<1>2. ASSUME NEW x \in Resources, NEW old, old = row(x)
      PROVE  /\ old \in Rows /\ RowKept(x, old)'
             /\ old.at = res[x].at \/ (Waiting(x) /\ old.at \in {"personal", "org"})
             /\ old.blocked = res[x].blocked
  <2>1. RowKept(x, res[x]) /\ res[x] \in Rows
    BY IInvParts, RowKeptFacts DEF RowsKept, RowsTypeOK
  <2>2. CASE Waiting(x)
    <3>1. old = handed[x]
      BY <1>2, <2>2
    <3> QED
      BY <2>2, <3>1
  <2>3. CASE ~Waiting(x)
    <3>1. old = res[x]
      BY <1>2, <2>3
    <3> QED
      BY <2>1, <2>3, <3>1 DEF RowKept, StaffGrows, Active
  <2> QED
    BY <2>2, <2>3
<1>3. ASSUME NEW x \in Customers
      PROVE  /\ res'[x] \in Rows /\ RowKept(x, res[x])'
             /\ goes[x] # x => res'[x].at = "merged" /\ res'[x].blocked = res[x].blocked
             /\ goes[x] = x => /\ res'[x].at = row(x).at
                               /\ res'[x].blocked =
                                    (res[x].blocked \/ \E y \in Customers : goes[y] = x /\ res[y].blocked)
  <2>1. x \in Resources
    BY DEF Customers
  <2>2. PICK old : old = row(x)
    OBVIOUS
  <2>3. PICK hit \in BOOLEAN : hit = (\E y \in Customers : goes[y] = x /\ res[y].blocked)
    OBVIOUS
  <2>4. old \in Rows /\ RowKept(x, old)' /\ old.blocked = res[x].blocked
    BY <1>2, <2>1, <2>2
  <2>5. res'[x] = IF goes[x] # x THEN [Absent EXCEPT !.at = "merged", !.blocked = old.blocked]
                  ELSE [old EXCEPT !.blocked = @ \/ hit]
    <3> HIDE DEF row
    <3> QED
      BY <1>1, <2>1, <2>2, <2>3 DEF MergedRow
  <2>6. CASE goes[x] # x
    BY <2>4, <2>5, <2>6, ZenonT(40) DEF Absent, Rows, Statuses, RowKept
  <2>7. CASE goes[x] = x
    <3>1. /\ res'[x] \in Rows /\ RowKept(x, res[x])'
          /\ res'[x].at = old.at /\ res'[x].blocked = (old.blocked \/ hit)
      BY <2>4, <2>5, <2>7 DEF Rows, RowKept
    <3> QED
      BY <2>2, <2>3, <2>4, <2>7, <3>1
  <2> QED
    BY <2>6, <2>7
<1>4. ASSUME NEW x \in Resources
      PROVE  res'[x] \in Rows /\ RowKept(x, res[x])'
  <2>1. CASE x \in Customers
    BY <1>3, <2>1
  <2>2. CASE x \notin Customers
    <3>1. PICK old : old = row(x)
      OBVIOUS
    <3>2. res'[x] = old
      BY <1>1, <2>2, <3>1
    <3>3. old \in Rows /\ RowKept(x, old)'
      BY <1>2, <3>1
    <3> QED
      BY <3>2, <3>3 DEF RowKept
  <2> QED
    BY <2>1, <2>2
<1> HIDE DEF row
<1>5. RowsTypeOK'
  <2>1. res' \in [Resources -> Rows]
    BY <1>1, <1>4
  <2>2. ASSUME NEW x \in Customers PROVE Followed(x, goes) \in Customers \cup {Nobody}
    BY IInvParts DEF RowsTypeOK, Followed, Merges
  <2> QED
    BY <1>1, <2>1, <2>2, IInvParts DEF RowsTypeOK
<1>6. (AtRest /\ Owned)'
  BY <1>4 DEF RowKept, AtRest, Owned, Waiting, Campaigns
<1>7. ASSUME NEW x \in Customers, Exists(x)
      PROVE  /\ goes[x] \in Customers /\ Exists(goes[x])'
             /\ Address[goes[x]] = Address[x]
             /\ res[x].blocked => res'[goes[x]].blocked
  <2> DEFINE z == goes[x]
  <2>1. z \in Customers /\ goes[z] = z /\ Exists(z) /\ Address[z] = Address[x]
    BY <1>7 DEF Merges
  <2> HIDE DEF z
  <2>2. z \in Resources
    BY <2>1 DEF Customers
  <2>3. row(z).at \in {"personal", "org"}
    BY <1>2, <2>1, <2>2 DEF Exists
  <2>4. /\ res'[z].at = row(z).at
        /\ res'[z].blocked = (res[z].blocked \/ \E y \in Customers : goes[y] = z /\ res[y].blocked)
    BY <1>3, <2>1
  <2>5. Exists(z)'
    BY <2>3, <2>4 DEF Exists
  <2> QED
    BY <2>1, <2>4, <2>5 DEF z
<1>8. IdentityKept'
  <2> SUFFICES ASSUME NEW x \in Customers, res'[x].at = "merged"
               PROVE  /\ alias'[x] # Nobody /\ Exists(alias[x])'
                      /\ Address[alias'[x]] = Address[x]
                      /\ res'[x].blocked => res'[alias'[x]].blocked
    BY DEF IdentityKept
  <2>0. alias'[x] = Followed(x, goes) /\ x \in Resources /\ Nobody \notin Customers
    BY <1>1, HandoverAssumption DEF Customers
  <2>1. CASE goes[x] # x
    <3>1. Exists(x) /\ alias'[x] = goes[x] /\ res'[x].blocked = res[x].blocked
      BY <1>3, <2>0, <2>1 DEF Merges, Followed, Waiting, Exists
    <3> QED
      BY <1>7, <2>0, <3>1
  <2>2. CASE goes[x] = x
    <3>1. res[x].at = "merged"
      BY <1>2, <1>3, <2>0, <2>2
    <3>2. /\ alias[x] # Nobody /\ Exists(alias[x]) /\ Address[alias[x]] = Address[x]
          /\ res[x].blocked => res[alias[x]].blocked
      BY <3>1, IInvParts DEF RowsKept, IdentityKept
    <3>3. alias[x] \in Customers
      BY <3>2, IInvParts DEF RowsTypeOK
    <3>4. alias'[x] = goes[alias[x]]
      BY <2>0, <2>2, <3>2 DEF Followed
    <3>5. res'[x].blocked = res[x].blocked
      <4>1. ASSUME NEW y \in Customers, goes[y] = x PROVE y = x
        BY <3>1, <4>1 DEF Merges, Exists
      <4>2. res[x].blocked \in BOOLEAN
        BY <2>0, IInvParts DEF RowsTypeOK, Rows
      <4> QED
        BY <1>3, <2>2, <4>1, <4>2
    <3> QED
      BY <1>7, <2>0, <3>2, <3>3, <3>4, <3>5
  <2> QED
    BY <2>1, <2>2
<1> QED
  BY <1>5, <1>6, <1>8, IInvParts, PTL DEF RowsKept, StaffGrows

LEMMA TransferPendingStep ==
    ASSUME IInv, NEW u \in Users, NEW v \in Users, TransferPendingOrganizationResources(u, v)
    PROVE  IInv'
<1> DEFINE handed == [x \in Resources |-> [res[x] EXCEPT !.owner = v, !.pending = FALSE]]
<1>1. /\ Called(u, "transfer") /\ Active /\ v \in Members
      /\ \E lowest \in BOOLEAN : HandOver(Targets("org", v, lowest), handed)
  BY DEF TransferPendingOrganizationResources
<1>2. PICK lowest \in BOOLEAN : HandOver(Targets("org", v, lowest), handed)
  BY <1>1
<1>3. UNCHANGED <<accounts, org, role, invite, request>>
  BY <1>2 DEF HandOver
<1>4. StaffGrows
  BY <1>1, <1>3, CalledFacts, SameStaff, IInvParts
<1>5. ASSUME NEW x \in Resources, NEW row, row = handed[x]
      PROVE  row \in Rows /\ row.at = res[x].at /\ row.blocked = res[x].blocked /\ RowKept(x, row)'
  BY <1>1, <1>4, <1>5, IInvParts
     DEF RowsTypeOK, Rows, RowKept, StaffGrows, Active, StaffExists
<1>6. Merges(Targets("org", v, lowest))
  BY TargetsFacts
<1>7. \A x \in Resources : Waiting(x) => res[x].at = "org"
  BY DEF Waiting
<1> HIDE DEF handed
<1> QED
  BY <1>2, <1>4, <1>5, <1>6, <1>7, HandOverFacts

LEMMA TransferArchivedStep ==
    ASSUME IInv, NEW u \in Users, NEW v \in Users, TransferArchivedOrganizationResources(u, v)
    PROVE  IInv'
<1> DEFINE handed == [x \in Resources |->
                        [res[x] EXCEPT !.at = "personal", !.owner = v, !.pending = FALSE,
                                       !.visibility = IF @ = "global" /\ Kind[x] # "media"
                                                      THEN @ ELSE "private"]]
<1>1. call' = call /\ HandOver(Targets("personal", v, TRUE), handed)
  BY DEF TransferArchivedOrganizationResources
<1>2. UNCHANGED <<accounts, org, role, invite, request>> /\ call' \in [Users -> Calls]
  BY <1>1, IInvParts DEF HandOver, OrganizationTypeOK
<1>3. StaffGrows
  BY <1>2, SameStaff, IInvParts
<1>4. ASSUME NEW x \in Resources, NEW row, row = handed[x]
      PROVE  row \in Rows /\ row.at = "personal" /\ row.blocked = res[x].blocked /\ RowKept(x, row)'
  BY <1>4, IInvParts, ZenonT(40) DEF RowsTypeOK, Rows, RowKept
<1>5. Merges(Targets("personal", v, TRUE))
  BY TargetsFacts
<1>6. PICK new : new = handed
  OBVIOUS
<1> HIDE DEF handed
<1>7. \A x \in Resources : /\ new[x] \in Rows /\ new[x].at = "personal"
                          /\ new[x].blocked = res[x].blocked /\ RowKept(x, new[x])'
  BY <1>4, <1>6
<1> QED
  BY <1>1, <1>3, <1>5, <1>6, <1>7, HandOverFacts

LEMMA TransferTemplateStep ==
    ASSUME IInv, NEW u \in Users, NEW x \in Resources, NEW v \in Users,
           TransferOrganizationTemplate(u, x, v)
    PROVE  IInv'
<1> DEFINE row == [res[x] EXCEPT !.owner = v]
<1>1. /\ Called(u, "manage") /\ Active /\ v \in Members /\ Shared(x)
      /\ res' = [res EXCEPT ![x] = row]
      /\ UNCHANGED <<accounts, org, role, invite, request, alias, pipe, stopping>>
  BY IInvParts DEF TransferOrganizationTemplate, sendVars, RowsTypeOK
<1>2. StaffGrows
  BY <1>1, CalledFacts, SameStaff, IInvParts
<1>3. PICK new : new = row
  OBVIOUS
<1>4. /\ new \in Rows /\ new.at = "org" /\ RowKept(x, new)' /\ res[x].at = "org"
      /\ new.blocked = res[x].blocked
  BY <1>1, <1>2, <1>3, IInvParts
     DEF RowsTypeOK, Rows, Shared, RowKept, StaffGrows, Active, StaffExists
<1> HIDE DEF row
<1>5. res' \in [Resources -> Rows] /\ RowsKept'
  BY <1>1, <1>2, <1>3, <1>4, OneRow, IInvParts
<1>6. RowsTypeOK'
  BY <1>1, <1>5, IInvParts DEF RowsTypeOK
<1> QED
  BY <1>2, <1>5, <1>6, IInvParts, PTL DEF StaffGrows

LEMMA UnpublishTemplateStep ==
    ASSUME IInv, NEW u \in Users, NEW x \in Resources, UnpublishOrganizationTemplate(u, x)
    PROVE  IInv'
<1> DEFINE row == [res[x] EXCEPT !.visibility = "private"]
<1>1. /\ Called(u, "manage") /\ Shared(x)
      /\ res' = [res EXCEPT ![x] = row]
      /\ UNCHANGED <<accounts, org, role, invite, request, alias, pipe, stopping>>
  BY IInvParts DEF UnpublishOrganizationTemplate, sendVars, RowsTypeOK
<1>2. StaffGrows
  BY <1>1, CalledFacts, SameStaff, IInvParts
<1>3. /\ Exists(x) /\ row \in Rows /\ row.at = res[x].at /\ row.owner = res[x].owner
      /\ row.pending = res[x].pending /\ row.blocked = res[x].blocked
      /\ row.status = res[x].status
  BY <1>1, IInvParts DEF RowsTypeOK, Rows, Shared, Exists
<1> HIDE DEF row
<1> QED
  BY <1>1, <1>2, <1>3, ChangedRow, IInvParts DEF RowsTypeOK

-----------------------------------------------------------------------------
(* Campaigns at work. *)

\* A step of the sender that gives a campaign a status: of one that waits for an owner
\* it keeps the status, or it is at rest with the new one.
LEMMA StatusStep ==
    ASSUME IInv, NEW c \in Campaigns, NEW status \in Statuses, StaffGrows,
           res' = [res EXCEPT ![c].status = status],
           UNCHANGED alias, pipe' \in [Campaigns -> Pipes], stopping' \subseteq Campaigns,
           Waiting(c) => status \notin {"scheduled", "running", "deferred"}
    PROVE  IInv'
<1> DEFINE row == [res[c] EXCEPT !.status = status]
<1>1. c \in Resources /\ c \notin Customers
  BY DEF Campaigns, Customers
<1>2. res' = [res EXCEPT ![c] = row]
  BY <1>1, IInvParts DEF RowsTypeOK
<1>3. /\ row \in Rows /\ row.at = res[c].at /\ row.owner = res[c].owner
      /\ row.pending = res[c].pending /\ row.status = status
  BY <1>1, IInvParts DEF RowsTypeOK, Rows
<1>4. PICK new : new = row
  OBVIOUS
<1> HIDE DEF row
<1>5. new \in Rows /\ RowKept(c, new)'
  BY <1>1, <1>3, <1>4, IInvParts DEF RowsKept, Owned, RowKept, StaffGrows, Active, Waiting
<1>6. ASSUME NEW x \in Resources PROVE res'[x] \in Rows /\ RowKept(x, res[x])'
  <2>1. RowKept(x, res[x])
    BY IInvParts, RowKeptFacts DEF RowsKept
  <2> QED
    BY <1>1, <1>2, <1>4, <1>5, <2>1, IInvParts DEF RowsTypeOK, RowKept, StaffGrows, Active
<1>7. \A x \in Customers : res'[x] = res[x]
  BY <1>1, <1>2, IInvParts DEF RowsTypeOK, Customers
<1>8. RowsTypeOK'
  BY <1>2, <1>6, IInvParts DEF RowsTypeOK
<1>9. (AtRest /\ Owned)'
  BY <1>6 DEF RowKept, AtRest, Owned, Waiting, Campaigns
<1>10. IdentityKept'
  BY <1>7, HandoverAssumption, IInvParts DEF RowsKept, RowsTypeOK, IdentityKept, Exists
<1> QED
  BY <1>8, <1>9, <1>10, IInvParts, PTL DEF RowsKept, StaffGrows

\* A step that touches the pipes alone.
LEMMA PipeStep ==
    ASSUME IInv, UNCHANGED <<accounts, org, role, invite, request, call, res, alias>>,
           pipe' \in [Campaigns -> Pipes], stopping' \subseteq Campaigns
    PROVE  IInv'
<1>1. StaffGrows
  BY SameStaff, IInvParts DEF OrganizationTypeOK
<1>2. RowsKept'
  BY <1>1, RowsStay, IInvParts
<1>3. RowsTypeOK'
  BY IInvParts DEF RowsTypeOK
<1> QED
  BY <1>1, <1>2, <1>3, IInvParts, PTL DEF StaffGrows

LEMMA UpdateStatusStep ==
    ASSUME IInv, NEW c \in Campaigns, NEW u \in Users, NEW to \in Statuses,
           UpdateCampaignStatus(u, c, to)
    PROVE  IInv'
<1>1. /\ Changeable(u, c) /\ res' = [res EXCEPT ![c].status = to]
      /\ UNCHANGED <<accounts, org, role, invite, request, alias, stopping>>
      /\ pipe' = IF to \in {"paused", "cancelled"}
                 THEN [pipe EXCEPT ![c] = StopPipe(@, IF to = "paused" THEN "pause" ELSE to)]
                 ELSE pipe
  BY DEF UpdateCampaignStatus
<1>2. c \in Resources
  BY DEF Campaigns
<1>3. StaffGrows /\ ~Waiting(c)
  BY <1>1, <1>2, ChangeableFacts, SameStaff, IInvParts DEF Waiting
<1>4. pipe' \in [Campaigns -> Pipes]
  BY <1>1, IInvParts DEF RowsTypeOK, StopPipe, Pipes
<1> QED
  BY <1>1, <1>3, <1>4, StatusStep, IInvParts DEF RowsTypeOK

LEMMA StopCampaignStep ==
    ASSUME IInv, NEW c \in Campaigns, StopCampaign(c)
    PROVE  IInv'
<1>1. pipe' \in [Campaigns -> Pipes] /\ stopping' \subseteq Campaigns
  BY IInvParts DEF StopCampaign, RowsTypeOK, StopPipe, Pipes
<1> QED
  BY <1>1, PipeStep DEF StopCampaign, organizationVars

LEMMA ScanSelectStep ==
    ASSUME IInv, NEW c \in Campaigns, ScanSelect(c)
    PROVE  IInv'
<1>1. res[c].owner \in Users \cup {Nobody} /\ (res[c].status # "running") \in BOOLEAN
  BY IInvParts DEF RowsTypeOK, Rows, Campaigns
<1>2. pipe' \in [Campaigns -> Pipes] /\ stopping' \subseteq Campaigns
  BY <1>1, IInvParts DEF ScanSelect, RowsTypeOK, Pipes, NoPipe
<1> QED
  BY <1>2, PipeStep DEF ScanSelect, organizationVars

LEMMA ScanLoadStep ==
    ASSUME IInv, NEW c \in Campaigns, ScanLoad(c)
    PROVE  IInv'
<1> DEFINE claimed == res[c].status \in {"scheduled", "running", "deferred"} /\ Runnable(c)
           started == ~pipe[c].claim \/ claimed
           status == IF pipe[c].claim /\ claimed THEN "running" ELSE res[c].status
<1>1. /\ UNCHANGED <<accounts, org, role, invite, request, call, alias, stopping>>
      /\ \/ /\ started
            /\ pipe' = [pipe EXCEPT ![c].at = "open", ![c].claim = FALSE]
            /\ res' = [res EXCEPT ![c].status = status]
         \/ /\ started
            /\ pipe' = [pipe EXCEPT ![c] = NoPipe]
            /\ res' = [res EXCEPT ![c].status = "finished"]
         \/ /\ ~started
            /\ pipe' = [pipe EXCEPT ![c] = NoPipe]
            /\ UNCHANGED res
  BY DEF ScanLoad, organizationVars
<1>2. StaffGrows
  BY <1>1, SameStaff, IInvParts DEF OrganizationTypeOK
<1>3. pipe' \in [Campaigns -> Pipes] /\ stopping' \subseteq Campaigns
  <2>1. pipe \in [Campaigns -> Pipes] /\ stopping \subseteq Campaigns
    BY IInvParts DEF RowsTypeOK
  <2>2. \/ pipe' = [pipe EXCEPT ![c] = [pipe[c] EXCEPT !.at = "open", !.claim = FALSE]]
        \/ pipe' = [pipe EXCEPT ![c] = NoPipe]
    <3> HIDE DEF started, status
    <3> QED
      BY <1>1
  <2>3. [pipe[c] EXCEPT !.at = "open", !.claim = FALSE] \in Pipes /\ NoPipe \in Pipes
    BY <2>1 DEF Pipes, NoPipe
  <2> QED
    BY <1>1, <2>1, <2>2, <2>3
<1>4. res[c].status \in Statuses
  BY IInvParts DEF RowsTypeOK, Rows, Campaigns
<1>5. Waiting(c) => ~Runnable(c) /\ res[c].status \notin {"scheduled", "running", "deferred"}
  BY IInvParts DEF RowsKept, AtRest, Waiting, Runnable
<1>6. CASE res' = [res EXCEPT ![c].status = status]
  <2>1. PICK new \in Statuses : new = status
    BY <1>4 DEF Statuses
  <2>2. Waiting(c) => new \notin {"scheduled", "running", "deferred"}
    BY <1>5, <2>1
  <2> HIDE DEF status
  <2> QED
    BY <1>1, <1>2, <1>3, <1>6, <2>1, <2>2, StatusStep
<1>7. CASE res' = [res EXCEPT ![c].status = "finished"]
  BY <1>1, <1>2, <1>3, <1>7, StatusStep DEF Statuses
<1>8. CASE UNCHANGED res
  BY <1>1, <1>3, <1>8, PipeStep
<1> QED
  BY <1>1, <1>6, <1>7, <1>8

LEMMA PipeStopsStep ==
    ASSUME IInv, NEW c \in Campaigns, NEW why \in {"errors", "smtp", "finish"}, PipeStops(c, why)
    PROVE  IInv'
<1>1. pipe' \in [Campaigns -> Pipes] /\ stopping' \subseteq Campaigns
  BY IInvParts DEF PipeStops, RowsTypeOK, Pipes
<1> QED
  BY <1>1, PipeStep DEF PipeStops, organizationVars

LEMMA PipeDefersStep ==
    ASSUME IInv, NEW c \in Campaigns, PipeDefers(c)
    PROVE  IInv'
<1>1. /\ UNCHANGED <<accounts, org, role, invite, request, call, alias, stopping>>
      /\ res[c].status = "running" /\ res' = [res EXCEPT ![c].status = "deferred"]
  BY DEF PipeDefers, organizationVars
<1>2. StaffGrows
  BY <1>1, SameStaff, IInvParts DEF OrganizationTypeOK
<1>3. pipe' \in [Campaigns -> Pipes] /\ stopping' \subseteq Campaigns
  BY IInvParts DEF PipeDefers, RowsTypeOK, Pipes
<1>4. ~Waiting(c)
  BY <1>1, IInvParts DEF RowsKept, AtRest
<1> QED
  BY <1>1, <1>2, <1>3, <1>4, StatusStep DEF Statuses

LEMMA CleanupStep ==
    ASSUME IInv, NEW c \in Campaigns, Cleanup(c)
    PROVE  IInv'
<1> DEFINE final == CASE pipe[c].stop \in {"errors", "smtp"} -> "paused"
                      [] pipe[c].stop = "finish" -> "finished"
                      [] OTHER -> res[c].status
<1>1. /\ UNCHANGED <<accounts, org, role, invite, request, call, alias, stopping>>
      /\ pipe' = [pipe EXCEPT ![c] = NoPipe]
      /\ \/ res' = res
         \/ res[c].status = "running" /\ res' = [res EXCEPT ![c].status = final]
  BY DEF Cleanup, organizationVars
<1>2. StaffGrows
  BY <1>1, SameStaff, IInvParts DEF OrganizationTypeOK
<1>3. PICK new \in Statuses : new = final
  BY IInvParts DEF RowsTypeOK, Rows, Campaigns, Statuses
<1> HIDE DEF final
<1>4. pipe' \in [Campaigns -> Pipes] /\ stopping' \subseteq Campaigns
  BY <1>1, IInvParts DEF RowsTypeOK, Pipes, NoPipe
<1>5. CASE res' = res
  BY <1>1, <1>4, <1>5, PipeStep
<1>6. CASE res[c].status = "running" /\ res' = [res EXCEPT ![c].status = final]
  <2>1. ~Waiting(c)
    BY <1>6, IInvParts DEF RowsKept, AtRest
  <2> QED
    BY <1>1, <1>2, <1>3, <1>4, <1>6, <2>1, StatusStep
<1> QED
  BY <1>1, <1>5, <1>6

-----------------------------------------------------------------------------
(* The theorems. *)

LEMMA InitIInv == Init => IInv
<1> SUFFICES ASSUME Init PROVE IInv
  OBVIOUS
<1>1. role \in [Users -> Roles] /\ org \in {"none", "active"}
  BY OrganizationAssumption DEF Init, OrganizationInit, Roles
<1>2. OrganizationTypeOK /\ InviteLimit /\ StaffExists
  BY <1>1 DEF Init, OrganizationInit, OrganizationTypeOK, InviteLimit, StaffExists, Members,
              NoInvite, NoRequest, Calls
<1>3. RowsTypeOK
  BY DEF Init, RowsTypeOK, Rows, Pipes, Absent, NoPipe, Statuses
<1>4. RowsKept
  BY DEF Init, RowsKept, AtRest, Owned, IdentityKept, Absent, Waiting, Campaigns, Customers
<1> QED
  BY <1>2, <1>3, <1>4, IInvParts

LEMMA OwnerSteps ==
    ASSUME IInv, OwnerStep
    PROVE  IInv'
BY CreateResourceStep, PublishStep, DeleteResourceStep DEF OwnerStep

LEMMA TransferSteps ==
    ASSUME IInv, TransferStep
    PROVE  IInv'
<1>1. ASSUME NEW u \in Users, NEW v \in Users,
             \/ TransferPendingOrganizationResources(u, v)
             \/ TransferArchivedOrganizationResources(u, v)
      PROVE  IInv'
  BY <1>1, TransferPendingStep, TransferArchivedStep
<1>2. ASSUME NEW u \in Users, NEW x \in Resources,
             \/ \E v \in Users : TransferOrganizationTemplate(u, x, v)
             \/ UnpublishOrganizationTemplate(u, x)
             \/ \E move \in BOOLEAN : MigratePersonalResources(u, x, move)
      PROVE  IInv'
  BY <1>2, TransferTemplateStep, UnpublishTemplateStep, MigrateResourcesStep
<1>3. ASSUME NEW u \in Users, NEW x \in Lists, NEW move \in BOOLEAN,
             NEW subscribers \in {{}} \cup {{y} : y \in Customers},
             MigratePersonalLists(u, x, move, subscribers)
      PROVE  IInv'
  BY <1>3, MigrateListsStep
<1> QED
  BY <1>1, <1>2, <1>3 DEF TransferStep

LEMMA CampaignSteps ==
    ASSUME IInv, CampaignStep
    PROVE  IInv'
<1>1. PICK c \in Campaigns :
          \/ \E u \in Users, to \in Statuses : UpdateCampaignStatus(u, c, to)
          \/ StopCampaign(c) \/ ScanSelect(c) \/ ScanLoad(c) \/ PipeDefers(c) \/ Cleanup(c)
          \/ \E why \in {"errors", "smtp", "finish"} : PipeStops(c, why)
  BY DEF CampaignStep
<1> QED
  BY <1>1, UpdateStatusStep, StopCampaignStep, ScanSelectStep, ScanLoadStep, PipeDefersStep,
     CleanupStep, PipeStopsStep

LEMMA NextIInv ==
    ASSUME IInv, [Next]_vars
    PROVE  IInv'
<1>1. CASE MembershipStep /\ UNCHANGED <<res, alias, sendVars>>
  <2>1. StaffGrows
    BY <1>1, MembershipStepFacts, IInvParts
  <2>2. RowsKept'
    BY <1>1, <2>1, RowsStay, IInvParts
  <2>3. RowsTypeOK'
    BY <1>1, IInvParts DEF RowsTypeOK, sendVars
  <2> QED
    BY <2>1, <2>2, <2>3, IInvParts, PTL DEF StaffGrows
<1>2. ASSUME NEW v \in Users, NEW forwarded \in BOOLEAN, RemoveOrganizationMember(v, forwarded)
      PROVE  IInv'
  BY <1>2, RemoveMemberStep
<1>3. ASSUME NEW u \in Users, NEW listed \in BOOLEAN,
             ArchiveOrganization(u, listed) \/ DeleteUser(u) \/ PurgeArchivedOrganization(u)
      PROVE  IInv'
  BY <1>3, ArchiveStep, DeleteUserStep, PurgeStep
<1>4. CASE UNCHANGED vars
  BY <1>4, PipeStep, IInvParts DEF vars, organizationVars, sendVars, RowsTypeOK
<1> QED
  BY <1>1, <1>2, <1>3, <1>4, OwnerSteps, TransferSteps, CampaignSteps DEF Next

\* The inductive invariant: besides OwnerIsMember and IdentityKept it needs that members
\* and whoever asked for the organization have an account, which OwnerIsMember says too.
THEOREM HandoverInvariant == Spec => []IInv
BY InitIInv, NextIInv, PTL DEF Spec

\* For any users and resources: what belongs to an organization has an owner who is there
\* and works in it, or waits for one, and a campaign that waits is at rest, whoever of
\* the members goes while late requests, transfers and pipes are under way
\* (RemoveOrganizationMember, withPreparedWorkspaceResourceMutation).
THEOREM OwnerIsMemberCorrect == Spec => []OwnerIsMember
BY HandoverInvariant, PTL DEF IInv

\* For any customers and addresses: however often customers of one address are merged,
\* the old identity leads to a customer who is there, at the same address and not less
\* blocklisted (mergeCustomer, customer_uuid_aliases).
THEOREM IdentityKeptCorrect == Spec => []IdentityKept
BY HandoverInvariant, PTL DEF IInv

\* For any users: while no account is deleted, an active organization that has a manager
\* keeps one, by whatever mixture of additions, demotions, batches, removals and
\* departures (lockOrganization and the count of managers under it).
THEOREM ManagerKeptCorrect == Spec => ManagerKept
<1>1. ASSUME IInv, [Next]_vars PROVE [ManagerKeptStep]_organizationVars
  <2> SUFFICES ManagerKeptStep
    OBVIOUS
  <2>1. CASE MembershipStep
    BY <1>1, <2>1, MembershipKeepsManager, IInvParts
  <2>2. ASSUME NEW v \in Users, NEW forwarded \in BOOLEAN, RemoveOrganizationMember(v, forwarded)
        PROVE  ManagerKeptStep
    <3>1. KeepsManager(v, "former") /\ role' = [role EXCEPT ![v] = "former"]
      BY <2>2 DEF RemoveOrganizationMember, RemoveMembership
    <3> QED
      BY <1>1, <3>1, KeepsManagerFacts, IInvParts DEF Roles, ManagerKeptStep
  <2>3. ASSUME NEW u \in Users, NEW listed \in BOOLEAN,
               ArchiveOrganization(u, listed) \/ PurgeArchivedOrganization(u)
        PROVE  ManagerKeptStep
    BY <2>3 DEF ArchiveOrganization, ArchiveMembership, PurgeArchivedOrganization, PurgeMembership,
                ManagerKeptStep
  <2>4. ASSUME NEW v \in Users, DeleteUser(v)
        PROVE  ManagerKeptStep
    BY <2>4 DEF DeleteUser, DeleteMembership, ManagerKeptStep
  <2>5. ASSUME UNCHANGED <<accounts, org, role, invite, request>>
        PROVE  ManagerKeptStep
    BY <2>5 DEF ManagerKeptStep, Managers
  <2>6. CASE OwnerStep \/ TransferStep
    <3>1. CASE OwnerStep
      BY <2>5, <3>1 DEF OwnerStep, CreateResource, Publish, DeleteResource
    <3>2. ASSUME NEW u \in Users, NEW v \in Users,
                 \/ TransferPendingOrganizationResources(u, v)
                 \/ TransferArchivedOrganizationResources(u, v)
          PROVE  ManagerKeptStep
      BY <2>5, <3>2 DEF TransferPendingOrganizationResources, TransferArchivedOrganizationResources,
                        HandOver
    <3>3. ASSUME NEW u \in Users, NEW x \in Resources, NEW v, NEW move, NEW subscribers,
                 \/ TransferOrganizationTemplate(u, x, v) \/ UnpublishOrganizationTemplate(u, x)
                 \/ MigratePersonalResources(u, x, move)
                 \/ MigratePersonalLists(u, x, move, subscribers)
          PROVE  ManagerKeptStep
      BY <2>5, <3>3 DEF TransferOrganizationTemplate, UnpublishOrganizationTemplate,
                        MigratePersonalResources, MigratePersonalLists
    <3>4. Lists \subseteq Resources
      BY DEF Lists
    <3> QED
      BY <2>6, <3>1, <3>2, <3>3, <3>4 DEF TransferStep
  <2>7. CASE CampaignStep
    <3>1. UNCHANGED <<accounts, org, role, invite, request>>
      BY <2>7 DEF CampaignStep, UpdateCampaignStatus, StopCampaign, ScanSelect, ScanLoad,
                  PipeDefers, Cleanup, PipeStops, organizationVars
    <3> QED
      BY <2>5, <3>1
  <2> QED
    BY <1>1, <2>1, <2>2, <2>3, <2>4, <2>5, <2>6, <2>7 DEF Next, vars, organizationVars
<1> QED
  BY <1>1, HandoverInvariant, PTL DEF Spec, ManagerKept
=============================================================================
