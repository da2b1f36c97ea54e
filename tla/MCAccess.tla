------------------------------ MODULE MCAccess ------------------------------
(* Small instances of Access for TLC. *)
EXTENDS Access

Person(role, list, totp) ==
    [api |-> FALSE, enabled |-> TRUE, role |-> role, list |-> list, login |-> TRUE, has |-> TRUE, pw |-> 1,
     totp |-> totp, rooted |-> FALSE]
Service(role) ==
    [Person(role, NoRole, FALSE) EXCEPT !.api = TRUE, !.login = FALSE]
Key(user, personal) ==
    [user |-> user, personal |-> personal, ws |-> 0, scope |-> 0, revoked |-> FALSE, expired |-> FALSE,
     late |-> FALSE]
Filled(user, role, enabled, set) ==
    [user |-> user, api |-> FALSE, enabled |-> enabled, role |-> role, list |-> NoRole, login |-> TRUE,
     set |-> set]

\* An administrator, a user with a personal key, and a service account with a key; role 2 is
\* theirs, role 3 is one over lists.
Quiet == [create |-> 0, import |-> 0, setup |-> 0, edit |-> 0, delete |-> 0, profile |-> 0, totp |-> 0,
          role |-> 0, permit |-> 0, drop |-> 0, service |-> 0, key |-> 0, rescope |-> 0, revoke |-> 0,
          rotate |-> 0, expire |-> 0, fail |-> 0, logout |-> 0, wait |-> 0, login |-> 0, guess |-> 0,
          code |-> 0, oidc |-> 0, forgot |-> 0, open |-> 0, restart |-> 0, legacy |-> FALSE,
          forms |-> {},
          users |-> <<Person(1, NoRole, FALSE), Person(2, 3, FALSE), Service(2)>>,
          roles |-> <<[list |-> FALSE, perms |-> 0], [list |-> FALSE, perms |-> 0],
                      [list |-> TRUE, perms |-> 0]>>,
          tokens |-> <<Key(2, TRUE), Key(3, FALSE)>>,
          signedIn |-> {1, 2}]

\* Two administrators, the second with a role over lists.
Two == <<Person(1, NoRole, FALSE), Person(1, 3, FALSE)>>
Demote == {Filled(i, 2, TRUE, FALSE) : i \in {1, 2}} \cup {Filled(i, 1, FALSE, FALSE) : i \in {1, 2}}
Convert == [Filled(2, 1, TRUE, FALSE) EXCEPT !.api = TRUE]
Coded == <<Person(1, NoRole, FALSE), Person(2, NoRole, TRUE)>>

Scenarios ==
    { [Quiet EXCEPT !.edit = 2, !.delete = 2, !.drop = 1, !.users = Two, !.tokens = <<>>,
                    !.forms = Demote \cup {Convert}],
      [Quiet EXCEPT !.setup = 2, !.users = <<>>, !.roles = <<>>, !.tokens = <<>>, !.signedIn = {},
                    !.login = 1, !.fail = 1, !.restart = 1, !.legacy = TRUE],
      [Quiet EXCEPT !.setup = 1, !.users = <<Person(1, 3, FALSE), Service(1)>>, !.tokens = <<>>,
                    !.signedIn = {1}, !.drop = 1, !.restart = 1, !.login = 1],
      [Quiet EXCEPT !.create = 1, !.import = 1, !.role = 1, !.restart = 1,
                    !.forms = {Filled(2, 2, TRUE, FALSE), Filled(2, 2, FALSE, TRUE)}],
      [Quiet EXCEPT !.permit = 1, !.drop = 1, !.revoke = 1, !.fail = 1, !.legacy = TRUE],
      [Quiet EXCEPT !.edit = 1, !.permit = 1, !.delete = 1,
                    !.forms = {Filled(2, 2, FALSE, FALSE), Filled(3, 2, FALSE, FALSE), Filled(2, 2, TRUE, TRUE)}],
      [Quiet EXCEPT !.service = 1, !.key = 1, !.revoke = 1],
      [Quiet EXCEPT !.key = 1, !.rotate = 1, !.expire = 1, !.tokens = <<Key(2, TRUE), Key(2, TRUE)>>],
      [Quiet EXCEPT !.rotate = 2, !.rescope = 1, !.revoke = 1],
      [Quiet EXCEPT !.login = 2, !.profile = 2, !.logout = 1, !.tokens = <<>>],
      [Quiet EXCEPT !.login = 1, !.profile = 1, !.edit = 1, !.fail = 1, !.restart = 1, !.tokens = <<>>,
                    !.forms = {Filled(2, 2, TRUE, TRUE), [Filled(2, 2, TRUE, FALSE) EXCEPT !.login = FALSE]}],
      [Quiet EXCEPT !.login = 1, !.forgot = 2, !.open = 3, !.restart = 1, !.tokens = <<>>],
      [Quiet EXCEPT !.login = 1, !.forgot = 1, !.open = 2, !.profile = 1, !.fail = 2, !.tokens = <<>>],
      [Quiet EXCEPT !.forgot = 1, !.open = 3, !.login = 1, !.code = 2, !.wait = 1, !.users = Coded, !.tokens = <<>>],
      [Quiet EXCEPT !.totp = 2, !.login = 2, !.code = 2, !.guess = 2, !.wait = 1, !.tokens = <<>>],
      [Quiet EXCEPT !.login = 1, !.code = 1, !.oidc = 1, !.fail = 1, !.users = <<Coded[2]>>,
                    !.roles = <<[list |-> FALSE, perms |-> 0], [list |-> FALSE, perms |-> 0]>>,
                    !.tokens = <<>>, !.signedIn = {}],
      [Quiet EXCEPT !.oidc = 1, !.login = 1, !.guess = 2, !.profile = 1, !.tokens = <<>>],
      [Quiet EXCEPT !.profile = 1, !.edit = 1, !.open = 1, !.forgot = 1,
                    !.forms = {Convert, [Filled(3, 2, TRUE, TRUE) EXCEPT !.api = TRUE]}] }
=============================================================================
