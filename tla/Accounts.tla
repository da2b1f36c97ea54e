------------------------------ MODULE Accounts ------------------------------
(***************************************************************************)
(* Accounts and roles, and the requests that change them.                  *)
(*                                                                         *)
(* A request that committed a change still has steps to take: sessions to  *)
(* end or to start, the cache of the keys to renew. What is left of it is  *)
(* its "todo". An edit of an account is one statement without a lock of    *)
(* the table: it counts the other administrators in its snapshot and       *)
(* writes later, so that two edits may cross.                              *)
(***************************************************************************)
EXTENDS Integers, FiniteSets, Sequences

CONSTANTS
    Users,       \* bound: the accounts there may ever be, by their id
    Roles,       \* bound: the roles there may ever be
    NoRole,
    Requests,    \* bound: requests under way at once
    Bounds       \* bound: operations of each kind, and the rows there are at the start

SuperAdminRoleID == 1

AccountRow == [api : BOOLEAN, enabled : BOOLEAN, role : Roles, list : Roles \cup {NoRole},
               login : BOOLEAN, has : BOOLEAN, pw : Nat, totp : BOOLEAN, rooted : BOOLEAN]
RoleRow == [list : BOOLEAN, perms : Nat]
Form == [user : Users, api : BOOLEAN, enabled : BOOLEAN, role : Roles, list : Roles \cup {NoRole},
         login : BOOLEAN, set : BOOLEAN]

\* Ids of the rows at the start are the first of their sequences. What accounts have over lists
\* is a role over lists.
ASSUME AccountsAssumption ==
    /\ Users \subseteq Nat \ {0} /\ Roles \subseteq Nat \ {0} /\ IsFiniteSet(Requests) /\ NoRole \notin Roles
    /\ SuperAdminRoleID \in Roles
    /\ \A b \in Bounds :
          /\ "forms" \in DOMAIN b
          /\ b.forms \subseteq Form
          /\ b.users \in Seq(AccountRow) /\ DOMAIN b.users \subseteq Users
          /\ b.roles \in Seq(RoleRow) /\ DOMAIN b.roles \subseteq Roles
          /\ \A i \in DOMAIN b.users :
                /\ b.users[i].role \in DOMAIN b.roles
                /\ \/ b.users[i].list = NoRole
                   \/ b.users[i].list \in DOMAIN b.roles /\ b.roles[b.users[i].list].list

VARIABLES
    users,         \* users: the rows by their id
    roles,         \* roles without a parent; perms counts the changes of what the role permits
    editing,       \* update-user statements between their snapshot and their write
    needsSetup,    \* App.needsUserSetup
    requests,      \* what is left of the requests under way
    serial,        \* the sequences that ids are drawn from
    left           \* operations left of the instance's bound

accountVars == <<users, roles, editing, needsSetup>>

Refresh == <<"readUsers", "readKeys", "cacheUsers", "cacheKeys">>

AccountsTypeOK ==
    /\ DOMAIN users \subseteq Users /\ DOMAIN roles \subseteq Roles
    /\ \A i \in DOMAIN users :
          /\ users[i] \in AccountRow
          /\ users[i].role \in DOMAIN roles /\ users[i].list \in DOMAIN roles \cup {NoRole}
    /\ needsSetup \in BOOLEAN
    /\ DOMAIN requests \subseteq Requests

\* f with the value v for k.
With(f, k, v) == [x \in DOMAIN f \cup {k} |-> IF x = k THEN v ELSE f[x]]

Spend(kind) == left[kind] > 0 /\ left' = [left EXCEPT ![kind] = @ - 1]

-----------------------------------------------------------------------------
(* Requests. *)

FreeRequest == CHOOSE r \in Requests : r \notin DOMAIN requests

Begun(todo, i, pw, link) ==
    With(requests, FreeRequest,
         [todo |-> todo, user |-> i, pw |-> pw, link |-> link, login |-> FALSE, seen |-> <<>>, keys |-> {}])

Begin(todo, i, pw, link) == DOMAIN requests # Requests /\ requests' = Begun(todo, i, pw, link)

\* The request that commits and then renews the cache.
ThenRefresh == Begin(Refresh, 0, 0, 0)

At(r, step) == r \in DOMAIN requests /\ Head(requests[r].todo) = step

End(r) == requests' = [q \in DOMAIN requests \ {r} |-> requests[q]]

Continue(r, q) ==
    IF Len(q.todo) = 1 THEN End(r) ELSE requests' = [requests EXCEPT ![r] = [q EXCEPT !.todo = Tail(@)]]

-----------------------------------------------------------------------------
(* Accounts. *)

Admins == {i \in DOMAIN users : ~users[i].api /\ users[i].enabled /\ users[i].role = SuperAdminRoleID}

UserRole(r) == r \in DOMAIN roles /\ ~roles[r].list
ListRole(r) == IF r \in DOMAIN roles /\ roles[r].list THEN r ELSE NoRole

\* An account of a form; a service account has a token for a password and does not log in.
Account(f) ==
    [api |-> f.api, enabled |-> f.enabled, role |-> f.role, list |-> ListRole(f.list),
     login |-> f.login /\ ~f.api, has |-> f.api \/ f.login, pw |-> 1, totp |-> FALSE, rooted |-> FALSE]

NextUser == serial.user + 1

CreateUser(f) ==
    /\ Spend("create")
    /\ NextUser \in Users /\ UserRole(f.role)
    /\ users' = With(users, NextUser, Account(f))
    /\ serial' = [serial EXCEPT !.user = NextUser]
    /\ ThenRefresh
    /\ UNCHANGED <<roles, editing, needsSetup>>

\* A row of a batch: a regular account with a password and no administrator.
Importable(f) == UserRole(f.role) /\ f.role # SuperAdminRoleID /\ ~f.api /\ f.login

\* A batch of accounts: all of them or none.
CreateUsers(f, g) ==
    /\ Spend("import")
    /\ {NextUser, NextUser + 1} \subseteq Users
    /\ Importable(f) /\ Importable(g)
    /\ users' = With(With(users, NextUser, Account(f)), NextUser + 1, Account(g))
    /\ serial' = [serial EXCEPT !.user = @ + 2]
    /\ ThenRefresh
    /\ UNCHANGED <<roles, editing, needsSetup>>

FirstAccount ==
    Account([api |-> FALSE, enabled |-> TRUE, role |-> SuperAdminRoleID, list |-> NoRole, login |-> TRUE])

\* The first account, under a lock: whoever comes second finds it.
FirstTimeSetup ==
    /\ Spend("setup")
    /\ needsSetup
    /\ IF \E i \in DOMAIN users : ~users[i].api
       THEN needsSetup' = FALSE /\ UNCHANGED <<users, roles, requests, serial>>
       ELSE /\ NextUser \in Users
            /\ roles' = IF SuperAdminRoleID \in DOMAIN roles THEN roles
                        ELSE With(roles, SuperAdminRoleID, [list |-> FALSE, perms |-> 0])
            /\ users' = With(users, NextUser, FirstAccount)
            /\ serial' = [serial EXCEPT !.user = NextUser, !.role = IF @ = 0 THEN SuperAdminRoleID ELSE @]
            /\ Begin(<<"session", "ready">>, NextUser, 1, 0)
            /\ UNCHANGED needsSetup
    /\ UNCHANGED editing

SetupDone(r) ==
    /\ At(r, "ready")
    /\ needsSetup' = FALSE
    /\ Continue(r, requests[r])
    /\ UNCHANGED <<users, roles, editing, serial, left>>

\* The only administrator stays an enabled one.
MayEdit(f, others) == others # {} \/ (f.role = SuperAdminRoleID /\ f.enabled)

\* The statement of an edit: what it counted is what its snapshot shows.
OpenEdit(f, own) ==
    /\ Spend("edit")
    /\ f.user \in DOMAIN users /\ UserRole(f.role)
    /\ MayEdit(f, Admins \ {f.user})
    /\ editing' = editing \cup {[form |-> [f EXCEPT !.list = ListRole(@)], own |-> own,
                                 others |-> Admins \ {f.user}]}
    /\ UNCHANGED <<users, roles, needsSetup, requests, serial>>

\* Without a login by password there is no password; a password in the form is set or kept.
Edited(q, f) ==
    [q EXCEPT !.api = f.api, !.enabled = f.enabled, !.role = f.role, !.list = f.list, !.login = f.login,
              !.has = f.login /\ (f.set \/ @), !.pw = IF f.login /\ f.set THEN @ + 1 ELSE @]

\* Mutant of AfterEdit: one who edits their own account keeps all their sessions.
AfterEditOfOthers(f, own) == (IF f.set /\ ~own THEN <<"destroy">> ELSE <<>>) \o Refresh

AfterEdit(f, own) ==
    (IF f.set THEN <<"destroy">> \o (IF own THEN <<"session">> ELSE <<>>) ELSE <<>>) \o Refresh

\* The row or a role it names may be gone meanwhile.
WriteEdit(e) ==
    /\ editing' = editing \ {e}
    /\ IF e.form.user \in DOMAIN users /\ e.form.role \in DOMAIN roles
             /\ e.form.list \in DOMAIN roles \cup {NoRole}
       THEN /\ users' = [users EXCEPT ![e.form.user] = Edited(@, e.form)]
            /\ Begin(AfterEdit(e.form, e.own), e.form.user, users'[e.form.user].pw, 0)
       ELSE UNCHANGED <<users, requests>>
    /\ UNCHANGED <<roles, needsSetup, serial, left>>

\* Mutant of Remaining: an administrator whose account is disabled counts.
RemainingWithDisabled(ids) ==
    {i \in DOMAIN users : ~users[i].api /\ users[i].role = SuperAdminRoleID} \ ids

Remaining(ids) == Admins \ ids

\* The statement deletes the row whose id is all the ids.
Gone(ids) == {i \in DOMAIN users : \A j \in ids : i = j}

\* One account, or several at once.
Deletions == {{i} : i \in DOMAIN users} \cup {DOMAIN users}

\* The table is locked: no edit is open.
DeleteUsers(ids) ==
    /\ Spend("delete")
    /\ editing = {}
    /\ Remaining(ids) # {}
    /\ Gone(ids) # {}
    /\ users' = [i \in DOMAIN users \ Gone(ids) |-> users[i]]
    /\ ThenRefresh
    /\ UNCHANGED <<roles, editing, needsSetup, serial>>

\* The profile of a user: whether they have a password is what the request was authenticated with.
Profile(q, login, set) ==
    [q EXCEPT !.has = login /\ (set \/ @), !.pw = IF login /\ set THEN @ + 1 ELSE @]

\* Someone with a session gets a new one in the place of those that a new password ends.
OpenProfile(i, login, session, set) ==
    /\ Spend("profile")
    /\ DOMAIN requests # Requests
    /\ LET todo == IF ~set THEN <<"profile">>
                   ELSE IF session THEN <<"profile", "destroy", "session">> ELSE <<"profile", "destroy">>
       IN  requests' = [Begun(todo, i, 0, 0) EXCEPT ![FreeRequest].login = login]
    /\ UNCHANGED <<accountVars, serial>>

UpdateUserProfile(r) ==
    /\ At(r, "profile")
    /\ LET q == requests[r]
       IN  IF q.user \in DOMAIN users
           THEN /\ users' = [users EXCEPT ![q.user] = Profile(@, q.login, Len(q.todo) > 1)]
                /\ Continue(r, [q EXCEPT !.pw = users'[q.user].pw])
           ELSE End(r) /\ UNCHANGED users
    /\ UNCHANGED <<roles, editing, needsSetup, serial, left>>

EnableTOTP(i) ==
    /\ Spend("totp")
    /\ users[i].login \/ users[i].has
    /\ ~users[i].totp
    /\ users' = [users EXCEPT ![i].totp = TRUE]
    /\ UNCHANGED <<roles, editing, needsSetup, requests, serial>>

\* The password is asked for once more.
DisableTOTP(i) ==
    /\ Spend("totp")
    /\ users[i].totp /\ users[i].login /\ users[i].has
    /\ users' = [users EXCEPT ![i].totp = FALSE]
    /\ UNCHANGED <<roles, editing, needsSetup, requests, serial>>

-----------------------------------------------------------------------------
(* Roles. *)

NewRole(list) == [list |-> list, perms |-> 0]

CreateRole(list) ==
    /\ Spend("role")
    /\ serial.role + 1 \in Roles
    /\ roles' = With(roles, serial.role + 1, NewRole(list))
    /\ serial' = [serial EXCEPT !.role = @ + 1]
    /\ UNCHANGED <<users, editing, needsSetup, requests>>

Permitting(q) == [q EXCEPT !.perms = @ + 1]

\* Mutant of UpdateRole: the cache is not renewed.
UpdateRoleWithoutRefresh(r) ==
    /\ Spend("permit")
    /\ r \in DOMAIN roles \ {SuperAdminRoleID}
    /\ roles' = [roles EXCEPT ![r] = Permitting(@)]
    /\ UNCHANGED <<users, editing, needsSetup, requests, serial>>

UpdateRole(r) ==
    /\ Spend("permit")
    /\ r \in DOMAIN roles \ {SuperAdminRoleID}
    /\ roles' = [roles EXCEPT ![r] = Permitting(@)]
    /\ ThenRefresh
    /\ UNCHANGED <<users, editing, needsSetup, serial>>

\* A role of accounts is kept, and one over lists whose account something else refers to.
Droppable(r) == \A i \in DOMAIN users : users[i].role # r /\ (users[i].list = r => ~users[i].rooted)

\* A role over lists takes the accounts that have it along.
DeleteRole(r) ==
    /\ Spend("drop")
    /\ r \in DOMAIN roles \ {SuperAdminRoleID}
    /\ Droppable(r)
    /\ users' = [i \in {j \in DOMAIN users : users[j].list # r} |-> users[i]]
    /\ roles' = [q \in DOMAIN roles \ {r} |-> roles[q]]
    /\ ThenRefresh
    /\ UNCHANGED <<editing, needsSetup, serial>>
=============================================================================
