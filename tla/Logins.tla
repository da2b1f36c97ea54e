------------------------------- MODULE Logins -------------------------------
(***************************************************************************)
(* Sessions, and the ways to get one: a password, a code of the second     *)
(* factor, the provider, a link to reset the password.                     *)
(*                                                                         *)
(* A login is checked in one step and its session is stored in a later     *)
(* one. Challenges and reset links are kept in memory, in one store of     *)
(* tokens that counts how often each was looked up.                        *)
(***************************************************************************)
EXTENDS ApiKeys

CONSTANTS
    MaxTries,       \* how often a token in memory may be looked up
    MaxFailures     \* authThrottleMaxFailures

ASSUME LoginsAssumption ==
    /\ MaxTries \in Nat /\ MaxFailures \in Nat \ {0}
    /\ \A b \in Bounds : b.signedIn \subseteq DOMAIN b.users

VARIABLES
    sessions,      \* sessions, with the password of the account they were got with
    challenges,    \* tmptokens: challenges of a second factor by their token
    links,         \* tmptokens: the reset token of each account, by its address
    mailed,        \* reset links that were sent, and how often each set a password
    throttle       \* failures counted for a key, and the keys that are locked

loginVars == <<sessions, challenges, links, mailed, throttle>>

LoginsTypeOK ==
    /\ \A s \in sessions : s \in [user : Users, pw : Nat, kept : BOOLEAN]
    /\ \A n \in DOMAIN challenges : challenges[n] \in [user : Users, pw : Nat, tries : 0..MaxTries]
    /\ \A i \in DOMAIN links : links[i] \in [token : DOMAIN mailed, tries : 0..MaxTries]
    /\ throttle \in [{"login", "twofa"} \X Users -> [failures : 0..MaxFailures - 1, locked : BOOLEAN]]

-----------------------------------------------------------------------------
(* Sessions. *)

Exists(i) == i \in DOMAIN users

\* A session is checked against the account on every request.
Valid(s) == Exists(s.user) /\ users[s.user].enabled
SignedIn(i) == \E s \in sessions : s.user = i /\ Valid(s)

\* A request under way will end the sessions of the account.
Ending(i) ==
    \E r \in DOMAIN requests :
        requests[r].user = i /\ \E n \in DOMAIN requests[r].todo : requests[r].todo[n] = "destroy"

\* A session of a password that is no longer the account's.
Outdated(s) == Exists(s.user) /\ s.pw < users[s.user].pw

\* It outlives the password: nothing is left that would end it.
Keep(S) == {[s EXCEPT !.kept = @ \/ Outdated(s)] : s \in S}

DestroyUserSessions(r) ==
    /\ At(r, "destroy")
    /\ sessions' = {s \in sessions : s.user # requests[r].user}
    /\ Continue(r, requests[r])
    /\ UNCHANGED <<accountVars, keyVars, serial, left, challenges, links, mailed, throttle>>

\* The sessions of the account are not ended.
Outlive(r) ==
    sessions' = (sessions \ {s \in sessions : s.user = requests[r].user})
                \cup Keep({s \in sessions : s.user = requests[r].user})

\* The error is logged, and the request goes on.
FailToDestroy(r) ==
    /\ Spend("fail")
    /\ At(r, "destroy")
    /\ Outlive(r)
    /\ Continue(r, requests[r])
    /\ UNCHANGED <<accountVars, keyVars, serial, challenges, links, mailed, throttle>>

\* The request ends with an error before all it had left to do, a refresh too.
GiveUp(r) ==
    /\ End(r)
    /\ cache' = [cache EXCEPT !.alone = @ /\ \A n \in DOMAIN requests[r].todo : requests[r].todo[n] # "cacheKeys"]

\* The password is set, and the row is read again before the sessions are ended: on an error, or
\* without a row, the request ends there.
FailReread(r) ==
    /\ Spend("fail")
    /\ At(r, "destroy")
    /\ Outlive(r)
    /\ GiveUp(r)
    /\ UNCHANGED <<accountVars, tokens, serial, challenges, links, mailed, throttle>>

\* The challenge of a code is spent, the session stored: perhaps after the sessions were ended.
SaveSession(r) ==
    /\ At(r, "session")
    /\ LET q == requests[r]
           s == [user |-> q.user, pw |-> q.pw, kept |-> FALSE]
       IN  /\ sessions' = sessions \cup IF Ending(q.user) THEN {s} ELSE Keep({s})
           /\ challenges' = [n \in DOMAIN challenges \ {q.link} |-> challenges[n]]
           /\ Continue(r, q)
    /\ UNCHANGED <<accountVars, keyVars, serial, left, links, mailed, throttle>>

\* The session is not stored; the challenge is spent before.
FailToSave(r) ==
    /\ Spend("fail")
    /\ At(r, "session")
    /\ challenges' = [n \in DOMAIN challenges \ {requests[r].link} |-> challenges[n]]
    /\ GiveUp(r)
    /\ UNCHANGED <<accountVars, tokens, serial, sessions, links, mailed, throttle>>

Logout(s) ==
    /\ Spend("logout")
    /\ Valid(s)
    /\ sessions' = sessions \ {s}
    /\ UNCHANGED <<accountVars, keyVars, requests, serial, challenges, links, mailed, throttle>>

-----------------------------------------------------------------------------
(* Throttle. *)

Allow(k) == ~throttle[k].locked

Failure(k) ==
    IF throttle[k].failures + 1 >= MaxFailures THEN [failures |-> 0, locked |-> TRUE]
    ELSE [throttle[k] EXCEPT !.failures = @ + 1]

Success == [failures |-> 0, locked |-> FALSE]

\* The time of a lock is over, or that of the failures counted.
ThrottleEnds(k) ==
    /\ Spend("wait")
    /\ throttle[k] # Success
    /\ throttle' = [throttle EXCEPT ![k] = Success]
    /\ UNCHANGED <<accountVars, keyVars, requests, serial, sessions, challenges, links, mailed>>

-----------------------------------------------------------------------------
(* Logins. *)

NextToken == serial.token + 1

LoginUser(i) == Exists(i) /\ users[i].enabled /\ users[i].login /\ users[i].has

\* A challenge for an account with a second factor; what its password was is remembered.
Challenged(i, pw) == With(challenges, NextToken, [user |-> i, pw |-> pw, tries |-> 0])

Login(i) ==
    /\ Spend("login")
    /\ Allow(<<"login", i>>) /\ LoginUser(i)
    /\ throttle' = [throttle EXCEPT ![<<"login", i>>] = Success]
    /\ IF users[i].totp
       THEN /\ challenges' = Challenged(i, users[i].pw)
            /\ serial' = [serial EXCEPT !.token = NextToken]
            /\ UNCHANGED requests
       ELSE /\ Begin(<<"session">>, i, users[i].pw, 0)
            /\ UNCHANGED <<challenges, serial>>
    /\ UNCHANGED <<accountVars, keyVars, sessions, links, mailed>>

WrongPassword(i) ==
    /\ Spend("guess")
    /\ Allow(<<"login", i>>)
    /\ throttle' = [throttle EXCEPT ![<<"login", i>>] = Failure(<<"login", i>>)]
    /\ UNCHANGED <<accountVars, keyVars, requests, serial, sessions, challenges, links, mailed>>

\* A token that was looked up too often is gone.
Checked(f, n) ==
    IF f[n].tries < MaxTries THEN [f EXCEPT ![n].tries = @ + 1] ELSE [m \in DOMAIN f \ {n} |-> f[m]]

\* The code is good: the session follows. The challenge stays until then.
VerifyCode(n) ==
    /\ Spend("code")
    /\ challenges' = Checked(challenges, n)
    /\ LET i == challenges[n].user
       IN  IF n \in DOMAIN challenges' /\ Exists(i) /\ users[i].totp /\ users[i].enabled /\ Allow(<<"twofa", i>>)
           THEN /\ throttle' = [throttle EXCEPT ![<<"twofa", i>>] = Success]
                /\ Begin(<<"session">>, i, challenges[n].pw, n)
           ELSE UNCHANGED <<throttle, requests>>
    /\ UNCHANGED <<accountVars, keyVars, serial, sessions, links, mailed>>

WrongCode(n) ==
    /\ Spend("guess")
    /\ challenges' = Checked(challenges, n)
    /\ LET k == <<"twofa", challenges[n].user>>
       IN  throttle' = IF n \in DOMAIN challenges' /\ Allow(k) THEN [throttle EXCEPT ![k] = Failure(k)]
                       ELSE throttle
    /\ UNCHANGED <<accountVars, keyVars, requests, serial, sessions, links, mailed>>

\* The provider vouches for the address of an account.
OIDCFinish(i) ==
    /\ Spend("oidc")
    /\ Exists(i) /\ users[i].enabled /\ ~users[i].api
    /\ Begin(<<"session">>, i, users[i].pw, 0)
    /\ UNCHANGED <<accountVars, keyVars, serial, loginVars>>

\* No account has the address: one is created, with the roles of the settings.
CreateOIDCUser(role, list) ==
    /\ Spend("oidc")
    /\ NextUser \in Users /\ UserRole(role)
    /\ users' = With(users, NextUser,
          Account([api |-> FALSE, enabled |-> TRUE, role |-> role, list |-> list, login |-> FALSE]))
    /\ serial' = [serial EXCEPT !.user = NextUser]
    /\ Begin(<<"session">>, NextUser, 1, 0)
    /\ UNCHANGED <<roles, editing, needsSetup, keyVars, loginVars>>

-----------------------------------------------------------------------------
(* Passwords that were forgotten. *)

\* A new link takes the place of the one before.
ForgotPassword(i) ==
    /\ Spend("forgot")
    /\ Exists(i) /\ (users[i].login \/ users[i].has) /\ ~users[i].api
    /\ serial' = [serial EXCEPT !.token = NextToken]
    /\ links' = With(links, i, [token |-> NextToken, tries |-> 0])
    /\ mailed' = With(mailed, NextToken, [user |-> i, sets |-> 0])
    /\ UNCHANGED <<accountVars, keyVars, requests, sessions, challenges, throttle>>

\* A link is opened, with a new password or only to be asked for one.
OpenLink(n, set) ==
    /\ Spend("open")
    /\ LET i == mailed[n].user
       IN  /\ i \in DOMAIN links
           /\ links' = Checked(links, i)
           /\ IF set /\ i \in DOMAIN links' /\ links[i].token = n /\ Exists(i)
              THEN Begin(<<"consume">>, i, 0, n) ELSE UNCHANGED requests
    /\ UNCHANGED <<accountVars, keyVars, serial, sessions, challenges, mailed, throttle>>

\* Mutant of WithoutLink: the link is only looked up once more.
WithoutLinkChecked(i) == links

WithoutLink(i) == [j \in DOMAIN links \ {i} |-> links[j]]

\* The link of the address is taken, whichever it is, and must be the one that was opened.
ConsumeLink(r) ==
    /\ At(r, "consume")
    /\ LET q == requests[r]
           i == q.user
       IN  /\ links' = WithoutLink(i)
           /\ IF i \in DOMAIN links /\ links[i].token = q.link /\ Exists(i) /\ users[i].enabled
                    /\ (users[i].login \/ users[i].has)
              THEN Continue(r, [q EXCEPT !.login = TRUE, !.todo =
                       <<"consume", "reset", "destroy", IF users[i].totp THEN "challenge" ELSE "session">>])
              ELSE End(r)
    /\ UNCHANGED <<accountVars, keyVars, serial, left, sessions, challenges, mailed, throttle>>

ResetPassword(r) ==
    /\ At(r, "reset")
    /\ LET q == requests[r]
       IN  IF Exists(q.user)
           THEN /\ users' = [users EXCEPT ![q.user] = Profile(@, q.login, TRUE)]
                /\ mailed' = [mailed EXCEPT ![q.link].sets = @ + 1]
                /\ Continue(r, [q EXCEPT !.pw = users'[q.user].pw])
           ELSE End(r) /\ UNCHANGED <<users, mailed>>
    /\ UNCHANGED <<roles, editing, needsSetup, tokens, serial, left, sessions, challenges, links, throttle>>
    /\ Unread

IssueChallenge(r) ==
    /\ At(r, "challenge")
    /\ challenges' = Challenged(requests[r].user, requests[r].pw)
    /\ serial' = [serial EXCEPT !.token = NextToken]
    /\ Continue(r, requests[r])
    /\ UNCHANGED <<accountVars, keyVars, left, sessions, links, mailed, throttle>>

\* A token in memory is too old.
TokenExpires ==
    /\ Spend("wait")
    /\ \/ \E n \in DOMAIN challenges : challenges' = [m \in DOMAIN challenges \ {n} |-> challenges[m]]
                                      /\ UNCHANGED links
       \/ \E i \in DOMAIN links : links' = WithoutLink(i) /\ UNCHANGED challenges
    /\ UNCHANGED <<accountVars, keyVars, requests, serial, sessions, mailed, throttle>>
=============================================================================
