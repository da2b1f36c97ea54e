------------------------------- MODULE Access -------------------------------
(***************************************************************************)
(* Accounts, their keys and their sessions together, and restarts of the   *)
(* program, which keep the rows and lose everything else.                  *)
(***************************************************************************)
EXTENDS Logins

accessVars == <<users, roles, editing, needsSetup, requests, serial, left, tokens, cache, sessions,
                challenges, links, mailed, throttle>>

Init ==
    /\ left \in Bounds
    /\ users = left.users /\ roles = left.roles /\ tokens = left.tokens
    /\ sessions = {[user |-> i, pw |-> users[i].pw, kept |-> FALSE] : i \in left.signedIn}
    /\ editing = {} /\ requests = <<>> /\ challenges = <<>> /\ links = <<>> /\ mailed = <<>>
    /\ needsSetup = \A i \in DOMAIN users : users[i].api
    /\ serial = [user |-> Cardinality(DOMAIN users), role |-> Cardinality(DOMAIN roles),
                 key |-> Cardinality(DOMAIN tokens), token |-> 0]
    /\ cache = Loaded
    /\ throttle = [k \in {"login", "twofa"} \X Users |-> Success]

\* The users, once they are seen, are cached before anything is served.
Restart ==
    /\ Spend("restart")
    /\ editing' = {} /\ requests' = <<>> /\ challenges' = <<>> /\ links' = <<>>
    /\ needsSetup' = \A i \in DOMAIN users : users[i].api
    /\ cache' = Loaded
    /\ sessions' = Keep(sessions)
    /\ throttle' = [k \in DOMAIN throttle |-> Success]
    /\ UNCHANGED <<users, roles, serial, tokens, mailed>>

\* Steps of accounts and roles; a row takes its keys along.
AccountStep ==
    /\ \/ \E f \in left.forms : CreateUser(f)
       \/ \E f, g \in left.forms : CreateUsers(f, g)
       \/ FirstTimeSetup
       \/ \E r \in DOMAIN requests : SetupDone(r)
       \/ \E f \in left.forms, own \in BOOLEAN : OpenEdit(f, own) /\ (own => SignedIn(f.user))
       \/ \E e \in editing : WriteEdit(e)
       \/ \E ids \in Deletions : DeleteUsers(ids)
       \/ \E i \in DOMAIN users : SignedIn(i) /\ (EnableTOTP(i) \/ DisableTOTP(i))
       \/ \E list \in BOOLEAN : CreateRole(list)
       \/ \E r \in DOMAIN roles : UpdateRole(r) \/ DeleteRole(r)
    /\ tokens' = KeysOfRemaining
    /\ UNCHANGED <<cache, loginVars>>

\* The profile of whoever is signed in, or presents the token of a service account.
ProfileStep ==
    /\ \/ /\ \/ \E i \in DOMAIN users, set \in BOOLEAN :
                   SignedIn(i) /\ OpenProfile(i, users[i].login \/ users[i].has, TRUE, set)
             \/ \E a \in cache.apis, set \in BOOLEAN : a.as.token[1] /\ OpenProfile(a.user, TRUE, FALSE, set)
          /\ UNCHANGED cache
       \/ (\E r \in DOMAIN requests : UpdateUserProfile(r)) /\ Unread
    /\ UNCHANGED <<tokens, loginVars>>

\* Steps of the keys; personal keys are a signed in user's own business.
KeyStep ==
    /\ \/ \E i \in DOMAIN users, ws \in Workspaces :
             \/ CreateIntegrationToken(i, ws)
             \/ SignedIn(i) /\ CreatePersonalIntegrationToken(i, ws)
       \/ \E t \in DOMAIN tokens :
             \/ DeleteIntegrationToken(t)
             \/ /\ SignedIn(tokens[t].user)
                /\ \/ DeletePersonalIntegrationToken(t)
                   \/ UpdatePersonalIntegrationToken(t)
                   \/ OpenRotation(t)
             \/ Expire(t)
       \/ \E r \in DOMAIN requests :
             \/ RotatePersonalIntegrationToken(r)
             \/ GetUsers(r) \/ GetActiveIntegrationTokens(r)
             \/ CacheAPIUsers(r) \/ CacheIntegrationTokens(r) \/ FailRefresh(r)
    /\ UNCHANGED loginVars

LoginStep ==
    \/ \E i \in DOMAIN users : Login(i) \/ WrongPassword(i) \/ OIDCFinish(i) \/ ForgotPassword(i)
    \/ \E role \in DOMAIN roles, list \in DOMAIN roles \cup {NoRole} : CreateOIDCUser(role, list)
    \/ \E n \in DOMAIN challenges : VerifyCode(n) \/ WrongCode(n)
    \/ \E n \in DOMAIN mailed, set \in BOOLEAN : OpenLink(n, set)
    \/ \E r \in DOMAIN requests :
          \/ ConsumeLink(r) \/ ResetPassword(r) \/ IssueChallenge(r)
          \/ DestroyUserSessions(r) \/ FailToDestroy(r) \/ FailReread(r)
          \/ SaveSession(r) \/ FailToSave(r)
    \/ \E s \in sessions : Logout(s)
    \/ \E k \in DOMAIN throttle : ThrottleEnds(k)
    \/ TokenExpires

Next == AccountStep \/ ProfileStep \/ KeyStep \/ LoginStep \/ Restart

Spec == Init /\ [][Next]_accessVars

-----------------------------------------------------------------------------
(* Properties. *)

\* Admins go all at once only when two edits crossed, each counting on whom the other demoted,
\* when an edit made the last one a service account, or when a role over lists took its accounts.
AdminsGo ==
    Admins # {} /\ Admins' = {} =>
        \/ \E e \in editing \ editing' :
              \/ e.others # {} /\ e.others \cap Admins = {}
              \/ e.form.api
        \/ \E r \in DOMAIN roles \ DOMAIN roles' : roles[r].list

\* Types, and an enabled administrator is left by every deletion and every edit but those.
AdminKept == [][(AccountsTypeOK /\ KeysTypeOK /\ LoginsTypeOK)' /\ AdminsGo]_accessVars

\* With no refresh left to do, the cache accepts exactly the service accounts and the keys that
\* the rows allow, with what their roles permit, unless the last refresh overlapped another one
\* or failed or was not reached, or a service account set another token since, which renews nothing.
CacheCurrent ==
    (cache.alone /\ \A r \in DOMAIN requests : \A n \in DOMAIN requests[r].todo :
                        requests[r].todo[n] # "cacheKeys")
        => cache.apis = ApisOf(Seen) /\ Accepted = KeysOf(Seen, ReadKeys)

\* A session of an earlier password is gone when the request that set the new one has ended
\* sessions, but for logins that were checked before and stored after, an end that failed, a
\* request that could not read the row again and so came to no end, and a restart in between.
SessionsEnd == \A s \in sessions : Outdated(s) => s.kept \/ Ending(s.user)

\* A reset link sets a password once, however many requests carry it.
LinksOnce == \A n \in DOMAIN mailed : mailed[n].sets <= 1
=============================================================================
