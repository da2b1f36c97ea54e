------------------------------ MODULE ApiKeys -------------------------------
(***************************************************************************)
(* Keys of service accounts and personal keys of regular ones, and the     *)
(* cache in memory that authenticates them without the database.           *)
(*                                                                         *)
(* Every request that changes an account, a role or a key renews the cache *)
(* after its commit: it reads the accounts, then the keys, and stores two  *)
(* maps one after the other. Nothing orders the refreshes of two requests. *)
(***************************************************************************)
EXTENDS Accounts

CONSTANTS
    Keys,          \* bound: the keys there may ever be
    Workspaces,    \* workspaces a personal key is bound to
    MaxKeys        \* MaxPersonalIntegrationTokensPerWorkspace

VARIABLES
    tokens,    \* integration_tokens: the rows by their id
    cache      \* Auth.apiUsers and Auth.integrationTokens, whether the account of the configuration
               \* file is still among them, and whether the last refresh was alone and no token
               \* changed without one since

KeyRow == [user : Users, personal : BOOLEAN, ws : Workspaces, scope : Nat,
           revoked : BOOLEAN, expired : BOOLEAN, late : BOOLEAN]

ASSUME KeysAssumption ==
    \A b \in Bounds :
        /\ b.tokens \in Seq(KeyRow) /\ DOMAIN b.tokens \subseteq Keys
        /\ \A t \in DOMAIN b.tokens : b.tokens[t].user \in DOMAIN b.users

keyVars == <<tokens, cache>>

KeysTypeOK ==
    /\ DOMAIN tokens \subseteq Keys
    /\ \A t \in DOMAIN tokens : tokens[t] \in KeyRow /\ tokens[t].user \in DOMAIN users

-----------------------------------------------------------------------------
(* Rows. *)

Active(t) == ~tokens[t].revoked /\ ~tokens[t].expired

ActiveOf(i, ws) ==
    {t \in DOMAIN tokens : tokens[t].personal /\ tokens[t].user = i /\ tokens[t].ws = ws /\ Active(t)}

\* The keys of an account go with its row.
KeysOfRemaining == [t \in {s \in DOMAIN tokens : tokens[s].user \in DOMAIN users'} |-> tokens[t]]

NextKey == serial.key + 1

Insert(i, personal, ws, late) ==
    /\ NextKey \in Keys
    /\ serial' = [serial EXCEPT !.key = NextKey]
    /\ tokens' = With(tokens, NextKey,
          [user |-> i, personal |-> personal, ws |-> ws, scope |-> 0, revoked |-> FALSE,
           expired |-> FALSE, late |-> late])

CreateIntegrationToken(i, ws) ==
    /\ Spend("service")
    /\ users[i].api
    /\ Insert(i, FALSE, ws, FALSE)
    /\ ThenRefresh
    /\ UNCHANGED <<accountVars, cache>>

Regular(i) == i \in DOMAIN users /\ ~users[i].api /\ users[i].enabled

\* Creations of one owner and workspace wait for each other.
MayCreate(i, ws) == Regular(i) /\ Cardinality(ActiveOf(i, ws)) < MaxKeys

CreatePersonalIntegrationToken(i, ws) ==
    /\ Spend("key")
    /\ MayCreate(i, ws)
    /\ Insert(i, TRUE, ws, FALSE)
    /\ ThenRefresh
    /\ UNCHANGED <<accountVars, cache>>

UpdatePersonalIntegrationToken(t) ==
    /\ Spend("rescope")
    /\ tokens[t].personal /\ Active(t)
    /\ tokens' = [tokens EXCEPT ![t].scope = @ + 1]
    /\ ThenRefresh
    /\ UNCHANGED <<accountVars, cache, serial>>

\* A key that is revoked already is not found, an expired one is.
Revoke(t) ==
    /\ ~tokens[t].revoked
    /\ tokens' = [tokens EXCEPT ![t].revoked = TRUE]

DeleteIntegrationToken(t) ==
    /\ Spend("revoke")
    /\ ~tokens[t].personal
    /\ Revoke(t)
    /\ ThenRefresh
    /\ UNCHANGED <<accountVars, cache, serial>>

DeletePersonalIntegrationToken(t) ==
    /\ Spend("revoke")
    /\ tokens[t].personal
    /\ Revoke(t)
    /\ ThenRefresh
    /\ UNCHANGED <<accountVars, cache, serial>>

\* What a rotation checks, outside of its transaction.
Rotatable(t) == tokens[t].personal /\ Active(t)

OpenRotation(t) ==
    /\ Spend("rotate")
    /\ Rotatable(t)
    /\ Begin(<<"rotate">> \o Refresh, tokens[t].user, 0, t)
    /\ UNCHANGED <<accountVars, keyVars, serial>>

\* The transaction asks only that nobody revoked the key; it takes no lock of the owner.
RotatePersonalIntegrationToken(r) ==
    /\ At(r, "rotate")
    /\ LET t == requests[r].link
           key == [tokens[t] EXCEPT !.expired = FALSE, !.scope = 0, !.late = @ \/ tokens[t].expired]
       IN  IF t \in DOMAIN tokens /\ ~tokens[t].revoked /\ Regular(tokens[t].user)
           THEN /\ NextKey \in Keys
                /\ serial' = [serial EXCEPT !.key = NextKey]
                /\ tokens' = With([tokens EXCEPT ![t].revoked = TRUE], NextKey, key)
                /\ Continue(r, requests[r])
           ELSE End(r) /\ UNCHANGED <<tokens, serial>>
    /\ UNCHANGED <<accountVars, cache, left>>

\* Time passes.
Expire(t) ==
    /\ Spend("expire")
    /\ tokens[t].personal /\ ~tokens[t].expired
    /\ tokens' = [tokens EXCEPT ![t].expired = TRUE]
    /\ UNCHANGED <<accountVars, cache, requests, serial>>

-----------------------------------------------------------------------------
(* The cache. *)

\* What a refresh reads of the accounts: their state, and what their roles permit.
Seen ==
    [i \in DOMAIN users |->
        [api |-> users[i].api, enabled |-> users[i].enabled, token |-> <<users[i].has, users[i].pw>>,
         grants |-> <<users[i].role, roles[users[i].role].perms>>,
         lists |-> IF users[i].list = NoRole THEN <<>>
                   ELSE <<users[i].list, roles[users[i].list].perms>>]]

ReadKeys ==
    {[key |-> t, user |-> tokens[t].user, personal |-> tokens[t].personal, scope |-> tokens[t].scope] :
        t \in {s \in DOMAIN tokens : Active(s)}}

\* Service accounts with their token.
ApisOf(seen) ==
    {[user |-> i, as |-> seen[i]] : i \in {j \in DOMAIN seen : seen[j].api /\ seen[j].enabled}}

\* Keys with the account they act for, of an enabled account of their kind.
KeysOf(seen, keys) ==
    {[key |-> k.key, scope |-> k.scope, grants |-> seen[k.user].grants, lists |-> seen[k.user].lists] :
        k \in {q \in keys : /\ q.user \in DOMAIN seen
                            /\ seen[q.user].enabled /\ seen[q.user].api = ~q.personal}}

Renewing(r) == Head(requests[r].todo) \in {"readKeys", "cacheUsers", "cacheKeys"}

GetUsers(r) ==
    /\ At(r, "readUsers")
    /\ cache' = [cache EXCEPT !.alone = \A q \in DOMAIN requests : ~Renewing(q)]
    /\ Continue(r, [requests[r] EXCEPT !.seen = Seen])
    /\ UNCHANGED <<accountVars, tokens, serial, left>>

GetActiveIntegrationTokens(r) ==
    /\ At(r, "readKeys")
    /\ Continue(r, [requests[r] EXCEPT !.keys = ReadKeys])
    /\ UNCHANGED <<accountVars, keyVars, serial, left>>

\* The whole map is replaced: what only the start put into it is lost.
CacheAPIUsers(r) ==
    /\ At(r, "cacheUsers")
    /\ cache' = [cache EXCEPT !.apis = ApisOf(requests[r].seen), !.legacy = FALSE]
    /\ Continue(r, requests[r])
    /\ UNCHANGED <<accountVars, tokens, serial, left>>

CacheIntegrationTokens(r) ==
    /\ At(r, "cacheKeys")
    /\ cache' = [cache EXCEPT !.keys = KeysOf(requests[r].seen, requests[r].keys)]
    /\ Continue(r, requests[r])
    /\ UNCHANGED <<accountVars, tokens, serial, left>>

\* A request changes an account and renews no cache: the token of a service account may be another.
Unread == cache' = [cache EXCEPT !.alone = @ /\ ApisOf(Seen)' = ApisOf(Seen)]

\* The start of the program: a refresh, and the account of the configuration file, if there is one.
Loaded == [apis |-> ApisOf(Seen), keys |-> KeysOf(Seen, ReadKeys), legacy |-> left.legacy, alone |-> TRUE]

\* A read of a refresh fails, after the commit of the request, or the read of the changed row
\* that comes before it.
FailRefresh(r) ==
    /\ Spend("fail")
    /\ At(r, "readUsers") \/ At(r, "readKeys")
    /\ cache' = [cache EXCEPT !.alone = FALSE]
    /\ End(r)
    /\ UNCHANGED <<accountVars, tokens, serial>>

\* A key that is accepted: its time is checked again at every request.
Accepted == {k \in cache.keys : ~(k.key \in DOMAIN tokens /\ tokens[k.key].expired)}
=============================================================================
