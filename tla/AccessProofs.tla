---------------------------- MODULE AccessProofs ----------------------------
(***************************************************************************)
(* Accounts, keys and sessions. Each request has a plan of steps, whoever  *)
(* changes a password plans the end of the sessions, a reset link is held  *)
(* by one store or carried by one request, and an edit that is open has    *)
(* counted another administrator. Whoever changes what the cached keys     *)
(* rest on owes the cache a refresh that reads the rows after the change.  *)
(***************************************************************************)
EXTENDS Access, FiniteSetTheorems, SequenceTheorems, TLAPS

\* What a request may have left to do.
RefreshPlans ==
    {<<"readUsers", "readKeys", "cacheUsers", "cacheKeys">>, <<"readKeys", "cacheUsers", "cacheKeys">>,
     <<"cacheUsers", "cacheKeys">>, <<"cacheKeys">>}
SessionPlans ==
    {<<"session">>, <<"challenge">>, <<"ready">>, <<"session", "ready">>, <<"consume">>, <<"profile">>,
     <<"session", "readUsers", "readKeys", "cacheUsers", "cacheKeys">>,
     <<"rotate", "readUsers", "readKeys", "cacheUsers", "cacheKeys">>}
EndingPlans ==
    {<<"destroy", "readUsers", "readKeys", "cacheUsers", "cacheKeys">>,
     <<"destroy", "session", "readUsers", "readKeys", "cacheUsers", "cacheKeys">>,
     <<"destroy", "session">>, <<"destroy", "challenge">>,
     <<"profile", "destroy", "session">>, <<"profile", "destroy">>, <<"destroy">>,
     <<"reset", "destroy", "session">>, <<"reset", "destroy", "challenge">>}
Plans == RefreshPlans \cup SessionPlans \cup EndingPlans

Steps == {"readUsers", "readKeys", "cacheUsers", "cacheKeys", "session", "challenge", "ready", "consume",
          "profile", "rotate", "destroy", "reset"}
Renewals == {"readUsers", "readKeys", "cacheUsers", "cacheKeys"}

-----------------------------------------------------------------------------
(* Plans. *)

\* What is left after the first step is a plan, and sessions are ended before one is stored.
Planned(t) ==
    /\ t \in Seq(Steps) /\ DOMAIN t = 1..Len(t) /\ Len(t) >= 1 /\ Head(t) = t[1]
    /\ Len(t) # 1 => Tail(t) \in Plans /\ t[2] # "reset"
    /\ t[1] \in Renewals <=> t \in RefreshPlans
    /\ t[1] \in Renewals \cup {"session", "challenge", "ready", "consume", "rotate"} =>
          \A n \in DOMAIN t : t[n] # "destroy"
    /\ (t[1] = "profile" /\ Len(t) # 1) \/ t[1] = "reset" => t[2] = "destroy"
    /\ t[1] = "reset" => Len(t) = 3

\* Every plan of a refresh is one.
LEMMA RefreshPlanned == \A t \in RefreshPlans : Planned(t)
<1>1. Planned(<<"readUsers", "readKeys", "cacheUsers", "cacheKeys">>)
  BY DEF Planned, Steps, Renewals, Plans, RefreshPlans, SessionPlans, EndingPlans
<1>2. Planned(<<"readKeys", "cacheUsers", "cacheKeys">>)
  BY DEF Planned, Steps, Renewals, Plans, RefreshPlans, SessionPlans, EndingPlans
<1>3. Planned(<<"cacheUsers", "cacheKeys">>)
  BY DEF Planned, Steps, Renewals, Plans, RefreshPlans, SessionPlans, EndingPlans
<1>4. Planned(<<"cacheKeys">>)
  BY DEF Planned, Steps, Renewals, Plans, RefreshPlans, SessionPlans, EndingPlans
<1> QED
  BY <1>1, <1>2, <1>3, <1>4 DEF RefreshPlans

\* So is every plan that ends no session.
LEMMA SessionPlanned == \A t \in SessionPlans : Planned(t)
<1>1. Planned(<<"session">>)
  BY DEF Planned, Steps, Renewals, Plans, RefreshPlans, SessionPlans, EndingPlans
<1>2. Planned(<<"challenge">>)
  BY DEF Planned, Steps, Renewals, Plans, RefreshPlans, SessionPlans, EndingPlans
<1>3. Planned(<<"ready">>)
  BY DEF Planned, Steps, Renewals, Plans, RefreshPlans, SessionPlans, EndingPlans
<1>4. Planned(<<"session", "ready">>)
  BY DEF Planned, Steps, Renewals, Plans, RefreshPlans, SessionPlans, EndingPlans
<1>5. Planned(<<"consume">>)
  BY DEF Planned, Steps, Renewals, Plans, RefreshPlans, SessionPlans, EndingPlans
<1>6. Planned(<<"profile">>)
  BY DEF Planned, Steps, Renewals, Plans, RefreshPlans, SessionPlans, EndingPlans
<1>7. Planned(<<"session", "readUsers", "readKeys", "cacheUsers", "cacheKeys">>)
  BY DEF Planned, Steps, Renewals, Plans, RefreshPlans, SessionPlans, EndingPlans
<1>8. Planned(<<"rotate", "readUsers", "readKeys", "cacheUsers", "cacheKeys">>)
  BY DEF Planned, Steps, Renewals, Plans, RefreshPlans, SessionPlans, EndingPlans
<1> QED
  BY <1>1, <1>2, <1>3, <1>4, <1>5, <1>6, <1>7, <1>8 DEF SessionPlans

\* So is every plan that does.
LEMMA EndingPlanned == \A t \in EndingPlans : Planned(t)
<1>1. Planned(<<"destroy", "readUsers", "readKeys", "cacheUsers", "cacheKeys">>)
  BY DEF Planned, Steps, Renewals, Plans, RefreshPlans, SessionPlans, EndingPlans
<1>2. Planned(<<"destroy", "session", "readUsers", "readKeys", "cacheUsers", "cacheKeys">>)
  BY DEF Planned, Steps, Renewals, Plans, RefreshPlans, SessionPlans, EndingPlans
<1>3. Planned(<<"destroy", "session">>)
  BY DEF Planned, Steps, Renewals, Plans, RefreshPlans, SessionPlans, EndingPlans
<1>4. Planned(<<"destroy", "challenge">>)
  BY DEF Planned, Steps, Renewals, Plans, RefreshPlans, SessionPlans, EndingPlans
<1>5. Planned(<<"profile", "destroy", "session">>)
  BY DEF Planned, Steps, Renewals, Plans, RefreshPlans, SessionPlans, EndingPlans
<1>6. Planned(<<"reset", "destroy", "session">>)
  BY DEF Planned, Steps, Renewals, Plans, RefreshPlans, SessionPlans, EndingPlans
<1>7. Planned(<<"reset", "destroy", "challenge">>)
  BY DEF Planned, Steps, Renewals, Plans, RefreshPlans, SessionPlans, EndingPlans
<1>8. Planned(<<"profile", "destroy">>)
  BY DEF Planned, Steps, Renewals, Plans, RefreshPlans, SessionPlans, EndingPlans
<1>9. Planned(<<"destroy">>)
  BY DEF Planned, Steps, Renewals, Plans, RefreshPlans, SessionPlans, EndingPlans
<1> QED
  BY <1>1, <1>2, <1>3, <1>4, <1>5, <1>6, <1>7, <1>8, <1>9 DEF EndingPlans

\* What is left to do, whatever it is.
LEMMA PlanFacts == \A t \in Plans : Planned(t)
  BY RefreshPlanned, SessionPlanned, EndingPlanned DEF Plans

\* The step before a refresh.
LEMMA BeforeRefresh ==
    ASSUME NEW x \in Steps
    PROVE  <<x>> \o Refresh = <<x, "readUsers", "readKeys", "cacheUsers", "cacheKeys">>
<1> DEFINE s == <<x>> \o Refresh
           t == <<x, "readUsers", "readKeys", "cacheUsers", "cacheKeys">>
<1>1. s \in Seq(Steps) /\ t \in Seq(Steps) /\ Len(s) = 5 /\ Len(t) = 5
  BY DEF Refresh, Steps
<1>2. \A i \in 1..5 : s[i] = t[i]
  BY DEF Refresh
<1>3. s = t
  <2> HIDE DEF s, t
  <2>1. Len(s) = Len(t) /\ \A i \in 1..Len(s) : s[i] = t[i]
    BY <1>1, <1>2
  <2> QED
    BY <1>1, <2>1, SeqEqual
<1> QED
  BY <1>3

\* An edit that sets a password ends the sessions.
LEMMA AfterEditFacts ==
    ASSUME NEW f \in Form, NEW own \in BOOLEAN
    PROVE  /\ AfterEdit(f, own) \in Plans
           /\ AfterEdit(f, own)[1] # "reset"
           /\ f.set => AfterEdit(f, own)[1] = "destroy"
<1>1. CASE ~f.set
  <2>1. AfterEdit(f, own) = Refresh
    <3>1. Refresh \in Seq(Steps)
      BY DEF Refresh, Steps
    <3> QED
      BY <1>1, <3>1, EmptySeq, ConcatEmptySeq DEF AfterEdit
  <2> QED
    BY <1>1, <2>1 DEF Refresh, Plans, RefreshPlans
<1>2. CASE f.set /\ ~own
  <2>1. AfterEdit(f, own) = <<"destroy">> \o Refresh
    <3>1. <<"destroy">> \in Seq(Steps)
      BY DEF Steps
    <3>2. <<"destroy">> \o <<>> = <<"destroy">>
      BY <3>1, ConcatEmptySeq
    <3> QED
      BY <1>2, <3>2 DEF AfterEdit
  <2>2. "destroy" \in Steps
    BY DEF Steps
  <2>3. AfterEdit(f, own) = <<"destroy", "readUsers", "readKeys", "cacheUsers", "cacheKeys">>
    BY <2>1, <2>2, BeforeRefresh
  <2> QED
    BY <1>2, <2>3 DEF Plans, EndingPlans
<1>3. CASE f.set /\ own
  <2> DEFINE s == (<<"destroy">> \o <<"session">>) \o Refresh
             t == <<"destroy", "session", "readUsers", "readKeys", "cacheUsers", "cacheKeys">>
  <2>1. s \in Seq(Steps) /\ t \in Seq(Steps) /\ Len(s) = 6 /\ Len(t) = 6
    BY DEF Refresh, Steps
  <2>2. \A i \in 1..6 : s[i] = t[i]
    BY DEF Refresh
  <2>3. s = t
    <3> HIDE DEF s, t
    <3>1. Len(s) = Len(t) /\ \A i \in 1..Len(s) : s[i] = t[i]
      BY <2>1, <2>2
    <3> QED
      BY <2>1, <3>1, SeqEqual
  <2>4. AfterEdit(f, own) = t
    BY <1>3, <2>3 DEF AfterEdit
  <2>5. t \in Plans /\ t[1] = "destroy"
    BY DEF Plans, EndingPlans
  <2> HIDE DEF t
  <2> QED
    BY <1>3, <2>4, <2>5
<1> QED
  BY <1>1, <1>2, <1>3

-----------------------------------------------------------------------------
(* Requests. *)

\* Whoever ends or starts sessions knows of whom.
Fits(q, top) ==
    /\ q \in [todo : Plans, user : 0..top, pw : Nat, link : {q.link}, login : BOOLEAN,
              seen : {q.seen}, keys : {q.keys}]
    /\ DOMAIN q.seen \subseteq Users \cap 1..top
    /\ q.todo \in RefreshPlans \/ q.user \in Users

RequestsFit == \A r \in DOMAIN requests : Fits(requests[r], serial.user)

-----------------------------------------------------------------------------
(* The invariant. *)

\* Ids are never used again.
SerialsFit ==
    /\ serial \in [user : Nat, role : Nat, key : Nat, token : Nat]
    /\ DOMAIN users \subseteq 1..serial.user /\ DOMAIN roles \subseteq 1..serial.role
    /\ DOMAIN tokens \subseteq 1..serial.key /\ DOMAIN mailed \subseteq 1..serial.token
    /\ serial.role >= SuperAdminRoleID => SuperAdminRoleID \in DOMAIN roles
    /\ \A s \in sessions : s.user \in 1..serial.user

LeftFits == "forms" \in DOMAIN left /\ left.forms \subseteq Form

RolesFit ==
    /\ \A r \in DOMAIN roles : roles[r] \in RoleRow
    /\ \A i \in DOMAIN users : users[i].list # NoRole => roles[users[i].list].list

EditsFit ==
    \A e \in editing :
        /\ e \in [form : Form, own : BOOLEAN, others : {e.others}]
        /\ MayEdit(e.form, e.others) /\ e.form.user \notin e.others
        /\ e.form.list \in 1..serial.role \cup {NoRole}
        /\ e.form.list \in DOMAIN roles => roles[e.form.list].list

Resets(q) == q.todo[1] = "reset"

LinksFit ==
    /\ \A n \in DOMAIN mailed : mailed[n] \in [user : Users, sets : Nat]
    /\ \A i \in DOMAIN links : mailed[links[i].token].user = i /\ mailed[links[i].token].sets = 0
    /\ \A r \in DOMAIN requests : Resets(requests[r]) =>
          /\ requests[r].link \in DOMAIN mailed /\ mailed[requests[r].link].sets = 0
          /\ \A i \in DOMAIN links : links[i].token # requests[r].link
          /\ \A q \in DOMAIN requests :
                Resets(requests[q]) /\ requests[q].link = requests[r].link => q = r

\* The cache as a whole, whatever it holds.
Cached == cache \in [apis : {cache.apis}, keys : {cache.keys}, legacy : {cache.legacy}, alone : BOOLEAN]

CacheFits == Cached /\ \A a \in cache.apis : a.user \in Users \cap 1..serial.user

AccessInv ==
    /\ AccountsTypeOK /\ KeysTypeOK /\ LoginsTypeOK
    /\ SerialsFit /\ LeftFits /\ CacheFits /\ RequestsFit /\ RolesFit /\ EditsFit
    /\ LinksFit /\ LinksOnce /\ SessionsEnd

-----------------------------------------------------------------------------
(* One request. *)

\* Who fits while few accounts were created fits later.
LEMMA FitsLater ==
    ASSUME NEW m \in Nat, NEW n \in Nat, m <= n, NEW q, Fits(q, m)
    PROVE  Fits(q, n)
<1>1. 0..m \subseteq 0..n /\ 1..m \subseteq 1..n
  OBVIOUS
<1> QED
  BY <1>1 DEF Fits

\* A new request.
LEMMA FitsNew ==
    ASSUME NEW top \in Nat, NEW todo \in Plans, NEW i \in 0..top, NEW pw \in Nat, NEW link,
           todo \in RefreshPlans \/ i \in Users
    PROVE  Fits([todo |-> todo, user |-> i, pw |-> pw, link |-> link, login |-> FALSE,
                 seen |-> <<>>, keys |-> {}], top)
  BY DEF Fits

\* It remembers the password that was set.
LEMMA FitsWith ==
    ASSUME NEW top \in Nat, NEW q, Fits(q, top), NEW pw \in Nat
    PROVE  LET p == [q EXCEPT !.pw = pw]
           IN  Fits(p, top) /\ p.todo = q.todo /\ p.user = q.user /\ p.link = q.link /\ p.pw = pw
  BY DEF Fits

\* Its first step is done.
LEMMA FitsNext ==
    ASSUME NEW top \in Nat, NEW q, Fits(q, top), Len(q.todo) # 1
    PROVE  LET p == [q EXCEPT !.todo = Tail(@)]
           IN  /\ Fits(p, top)
               /\ p.todo = Tail(q.todo)
               /\ p.user = q.user /\ p.pw = q.pw /\ p.link = q.link /\ p.login = q.login
               /\ p.seen = q.seen /\ p.keys = q.keys
<1>1. q.todo \in Plans
  BY DEF Fits
<1>2. Planned(q.todo)
  BY <1>1, PlanFacts
<1>3. PICK t \in Plans : t = Tail(q.todo)
  BY <1>2 DEF Planned
<1>4. ASSUME q.todo \in RefreshPlans PROVE t \in RefreshPlans
  <2>1. CASE q.todo = <<"readUsers", "readKeys", "cacheUsers", "cacheKeys">>
    BY <1>3, <2>1 DEF RefreshPlans
  <2>2. CASE q.todo = <<"readKeys", "cacheUsers", "cacheKeys">>
    BY <1>3, <2>2 DEF RefreshPlans
  <2>3. CASE q.todo = <<"cacheUsers", "cacheKeys">>
    BY <1>3, <2>3 DEF RefreshPlans
  <2>4. q.todo # <<"cacheKeys">>
    OBVIOUS
  <2> QED
    BY <1>4, <2>1, <2>2, <2>3, <2>4 DEF RefreshPlans
<1> QED
  BY <1>3, <1>4 DEF Fits

\* What a request is that fits.
LEMMA FitsFacts ==
    ASSUME NEW top \in Nat, NEW q, Fits(q, top)
    PROVE  /\ Planned(q.todo) /\ q.todo \in Plans
           /\ q.user \in Nat /\ q.user \in 0..top /\ q.pw \in Nat /\ q.login \in BOOLEAN
           /\ q.todo[1] \notin Renewals => q.user \in Users
<1>1. q.todo \in Plans /\ q.user \in 0..top /\ q.pw \in Nat /\ q.login \in BOOLEAN
  BY DEF Fits
<1>2. Planned(q.todo)
  BY <1>1, PlanFacts
<1> QED
  BY <1>1, <1>2 DEF Fits, Planned

\* The request at a step is one there is, and the step its first.
LEMMA AtFacts ==
    ASSUME RequestsFit, serial.user \in Nat, NEW r, NEW step, At(r, step)
    PROVE  /\ r \in DOMAIN requests
           /\ Fits(requests[r], serial.user)
           /\ Planned(requests[r].todo)
           /\ requests[r].todo[1] = step
<1>1. r \in DOMAIN requests /\ Fits(requests[r], serial.user)
  BY DEF At, RequestsFit
<1>2. Planned(requests[r].todo)
  BY <1>1, FitsFacts
<1> QED
  BY <1>1, <1>2 DEF At, Planned

-----------------------------------------------------------------------------
(* The requests under way. *)

\* A step of requests that starts no reset.
Orderly ==
    /\ DOMAIN requests' \subseteq Requests
    /\ RequestsFit'
    /\ \A r \in DOMAIN requests' :
          requests'[r].todo[1] = "reset" => r \in DOMAIN requests /\ requests'[r] = requests[r]

\* Nor does it end sessions of an account.
Easy == Orderly /\ \A i \in DOMAIN users : Ending(i) => Ending(i)'

\* Other steps may create accounts.
LEMMA StayEasy ==
    ASSUME DOMAIN requests \subseteq Requests, RequestsFit, UNCHANGED requests,
           serial.user \in Nat, serial'.user \in Nat, serial.user <= serial'.user
    PROVE  Easy
<1>1. RequestsFit'
  BY FitsLater DEF RequestsFit
<1> QED
  BY <1>1 DEF Easy, Orderly, Ending

\* A request is added that begins with something else than a reset.
LEMMA AddedEasy ==
    ASSUME DOMAIN requests \subseteq Requests, RequestsFit,
           serial.user \in Nat, serial'.user \in Nat, serial.user <= serial'.user,
           NEW q, Fits(q, serial'.user), q.todo[1] # "reset", NEW r \in Requests \ DOMAIN requests,
           requests' = With(requests, r, q)
    PROVE  Easy /\ (q.todo[1] = "destroy" => Ending(q.user)')
<1>1. /\ DOMAIN requests' = DOMAIN requests \cup {r}
      /\ \A k \in DOMAIN requests : requests'[k] = requests[k]
      /\ requests'[r] = q
  BY DEF With
<1>2. RequestsFit'
  <2> SUFFICES ASSUME NEW k \in DOMAIN requests' PROVE Fits(requests'[k], serial'.user)
    BY DEF RequestsFit
  <2>1. CASE k = r
    BY <1>1, <2>1
  <2>2. CASE k # r
    <3>1. requests'[k] = requests[k] /\ Fits(requests[k], serial.user)
      BY <1>1, <2>2 DEF RequestsFit
    <3> QED
      BY <3>1, FitsLater
  <2> QED
    BY <2>1, <2>2
<1>3. \A k \in DOMAIN requests' :
          requests'[k].todo[1] = "reset" => k \in DOMAIN requests /\ requests'[k] = requests[k]
  BY <1>1
<1>4. \A j \in DOMAIN users : Ending(j) => Ending(j)'
  BY <1>1 DEF Ending
<1>5. ASSUME q.todo[1] = "destroy" PROVE Ending(q.user)'
  <2>1. 1 \in DOMAIN q.todo
    BY FitsFacts DEF Planned
  <2> QED
    BY <1>1, <1>5, <2>1 DEF Ending
<1> QED
  BY <1>1, <1>2, <1>3, <1>4, <1>5 DEF Easy, Orderly

\* So does a request that a handler begins.
LEMMA BeginEasy ==
    ASSUME DOMAIN requests \subseteq Requests, RequestsFit,
           serial.user \in Nat, serial'.user \in Nat, serial.user <= serial'.user,
           NEW todo \in Plans, NEW i \in Nat, NEW pw \in Nat, NEW link,
           i <= serial'.user, todo \in RefreshPlans \/ i \in Users, todo[1] # "reset",
           Begin(todo, i, pw, link)
    PROVE  Easy /\ (todo[1] = "destroy" => Ending(i)')
<1>1. FreeRequest \in Requests \ DOMAIN requests
  BY DEF FreeRequest, Begin
<1>2. PICK r \in Requests \ DOMAIN requests : r = FreeRequest
  BY <1>1
<1>3. PICK q : q = [todo |-> todo, user |-> i, pw |-> pw, link |-> link, login |-> FALSE,
                    seen |-> <<>>, keys |-> {}]
  OBVIOUS
<1>4. requests' = With(requests, r, q)
  BY <1>2, <1>3 DEF Begin, Begun
<1>5. Fits(q, serial'.user) /\ q.todo = todo /\ q.user = i
  <2>1. i \in 0..serial'.user
    OBVIOUS
  <2>2. PICK top \in Nat : top = serial'.user
    OBVIOUS
  <2> QED
    BY <1>3, <2>1, <2>2, FitsNew
<1> QED
  BY <1>4, <1>5, AddedEasy

\* The refresh that follows a change.
LEMMA RefreshEasy ==
    ASSUME DOMAIN requests \subseteq Requests, RequestsFit,
           serial.user \in Nat, serial'.user \in Nat, serial.user <= serial'.user, ThenRefresh
    PROVE  Easy
<1>1. /\ Refresh \in Plans /\ Refresh \in RefreshPlans /\ Refresh[1] # "reset"
      /\ Begin(Refresh, 0, 0, 0)
  BY DEF Refresh, Plans, RefreshPlans, ThenRefresh
<1>2. PICK t \in Plans : t = Refresh
  BY <1>1
<1> QED
  BY <1>1, <1>2, BeginEasy

\* A request that ends.
LEMMA EndEasy ==
    ASSUME DOMAIN requests \subseteq Requests, RequestsFit,
           serial.user \in Nat, serial'.user \in Nat, serial.user <= serial'.user,
           NEW r \in DOMAIN requests, End(r),
           \/ \A n \in DOMAIN requests[r].todo : requests[r].todo[n] # "destroy"
           \/ requests[r].user \notin DOMAIN users
    PROVE  Easy
<1>1. /\ DOMAIN requests' = DOMAIN requests \ {r}
      /\ \A q \in DOMAIN requests' : requests'[q] = requests[q]
  BY DEF End
<1>2. RequestsFit'
  BY <1>1, FitsLater DEF RequestsFit
<1>3. ASSUME NEW i \in DOMAIN users, Ending(i) PROVE Ending(i)'
  BY <1>1, <1>3 DEF Ending
<1> QED
  BY <1>1, <1>2, <1>3 DEF Easy, Orderly

\* A request that goes on, with what it learned.
LEMMA ContinueFacts ==
    ASSUME DOMAIN requests \subseteq Requests, RequestsFit,
           serial.user \in Nat, serial'.user \in Nat, serial.user <= serial'.user,
           NEW r \in DOMAIN requests, NEW q, Fits(q, serial.user),
           q.todo = requests[r].todo, q.user = requests[r].user, Continue(r, q)
    PROVE  /\ Orderly
           /\ \A i : Ending(i) /\ (i # q.user \/ q.todo[1] # "destroy") => Ending(i)'
<1>1. Planned(q.todo) /\ Planned(requests[r].todo)
  BY FitsFacts DEF RequestsFit
<1>2. CASE Len(q.todo) = 1
  <2>1. /\ DOMAIN requests' = DOMAIN requests \ {r}
        /\ \A k \in DOMAIN requests' : requests'[k] = requests[k]
    BY <1>2 DEF Continue, End
  <2>2. RequestsFit'
    BY <2>1, FitsLater DEF RequestsFit
  <2>3. ASSUME NEW i, Ending(i), i # q.user \/ q.todo[1] # "destroy" PROVE Ending(i)'
    <3>1. PICK k \in DOMAIN requests : /\ requests[k].user = i
                                       /\ \E n \in DOMAIN requests[k].todo : requests[k].todo[n] = "destroy"
      BY <2>3 DEF Ending
    <3>2. k # r
      <4> SUFFICES ASSUME k = r PROVE FALSE
        OBVIOUS
      <4>1. PICK n \in DOMAIN q.todo : q.todo[n] = "destroy"
        BY <3>1
      <4>2. n = 1
        BY <1>1, <1>2 DEF Planned
      <4> QED
        BY <2>3, <3>1, <4>1, <4>2
    <3> QED
      BY <2>1, <3>1, <3>2 DEF Ending
  <2> QED
    BY <2>1, <2>2, <2>3 DEF Orderly
<1>3. CASE Len(q.todo) # 1
  <2> DEFINE p == [q EXCEPT !.todo = Tail(@)]
  <2>1. /\ DOMAIN requests' = DOMAIN requests /\ requests'[r] = p
        /\ \A k \in DOMAIN requests \ {r} : requests'[k] = requests[k]
    BY <1>3 DEF Continue
  <2>2. Fits(p, serial.user) /\ p.todo = Tail(q.todo) /\ p.user = q.user
    BY <1>3, FitsNext
  <2> HIDE DEF p
  <2>3. RequestsFit'
    <3> SUFFICES ASSUME NEW k \in DOMAIN requests' PROVE Fits(requests'[k], serial'.user)
      BY DEF RequestsFit
    <3>1. Fits(requests'[k], serial.user)
      BY <2>1, <2>2 DEF RequestsFit
    <3> QED
      BY <3>1, FitsLater
  <2>4. /\ q.todo \in Seq(Steps) /\ DOMAIN q.todo = 1..Len(q.todo) /\ Len(q.todo) >= 1
        /\ q.todo[2] # "reset"
    BY <1>1, <1>3 DEF Planned
  <2>5. PICK t \in Seq(Steps) : t = q.todo
    BY <2>4
  <2>6. /\ DOMAIN Tail(t) = 1..Len(t) - 1
        /\ \A n \in 1..Len(t) - 1 : Tail(t)[n] = t[n + 1]
        /\ Len(t) \in Nat /\ Len(t) >= 2
    <3>1. Len(t) \in Nat /\ Len(t) # 1 /\ Len(t) >= 1
      BY <1>3, <2>4, <2>5
    <3>2. t # <<>>
      BY <3>1
    <3>3. Tail(t) \in Seq(Steps) /\ Len(Tail(t)) = Len(t) - 1
      BY <3>2
    <3>4. \A n \in 1..Len(t) - 1 : Tail(t)[n] = t[n + 1]
      BY <3>1, <3>2
    <3> QED
      BY <3>1, <3>3, <3>4
  <2>7. \A k \in DOMAIN requests' :
            requests'[k].todo[1] = "reset" => k \in DOMAIN requests /\ requests'[k] = requests[k]
    <3>1. requests'[r].todo[1] # "reset"
      BY <2>1, <2>2, <2>4, <2>5, <2>6
    <3> QED
      BY <2>1, <3>1
  <2>8. ASSUME NEW i, Ending(i), i # q.user \/ q.todo[1] # "destroy" PROVE Ending(i)'
    <3>1. PICK k \in DOMAIN requests : /\ requests[k].user = i
                                       /\ \E n \in DOMAIN requests[k].todo : requests[k].todo[n] = "destroy"
      BY <2>8 DEF Ending
    <3>2. CASE k # r
      BY <2>1, <3>1, <3>2 DEF Ending
    <3>3. CASE k = r
      <4>1. PICK n \in DOMAIN t : t[n] = "destroy"
        BY <2>5, <3>1, <3>3
      <4>2. n \in 1..Len(t) /\ n # 1
        BY <2>4, <2>5, <2>8, <3>1, <3>3, <4>1
      <4>3. n - 1 \in DOMAIN Tail(t) /\ Tail(t)[n - 1] = "destroy"
        BY <2>6, <4>1, <4>2
      <4>4. requests'[r].user = i /\ requests'[r].todo = Tail(t)
        BY <2>1, <2>2, <2>5, <3>1, <3>3
      <4> QED
        BY <2>1, <4>3, <4>4 DEF Ending
    <3> QED
      BY <3>2, <3>3
  <2> QED
    BY <2>1, <2>3, <2>7, <2>8 DEF Orderly
<1> QED
  BY <1>2, <1>3

\* Its first step ended no session of an account.
LEMMA ContinueEasy ==
    ASSUME DOMAIN requests \subseteq Requests, RequestsFit,
           serial.user \in Nat, serial'.user \in Nat, serial.user <= serial'.user,
           NEW r \in DOMAIN requests, NEW q, Fits(q, serial.user),
           q.todo = requests[r].todo, q.user = requests[r].user, Continue(r, q),
           q.todo[1] # "destroy" \/ q.user \notin DOMAIN users
    PROVE  Easy
  BY ContinueFacts DEF Easy

-----------------------------------------------------------------------------
(* What disturbs no part of the invariant. *)

\* The sequences go on.
SerialsGrow ==
    /\ serial' \in [user : Nat, role : Nat, key : Nat, token : Nat]
    /\ serial.user <= serial'.user /\ serial.role <= serial'.role
    /\ serial.key <= serial'.key /\ serial.token <= serial'.token

\* An account keeps its password, is new, or somebody will end its sessions.
PasswordsStay ==
    \A i \in DOMAIN users' :
        \/ i \in DOMAIN users /\ users'[i].pw = users[i].pw
        \/ i \notin 1..serial.user
        \/ Ending(i)'

\* The accounts and keys in the cache stay.
CacheStays == cache' = [cache EXCEPT !.alone = cache'.alone] /\ cache'.alone \in BOOLEAN

\* Keys go with their accounts.
KeysGo ==
    /\ CacheStays
    /\ DOMAIN tokens' \subseteq DOMAIN tokens
    /\ \A t \in DOMAIN tokens' : tokens'[t] = tokens[t] /\ tokens[t].user \in DOMAIN users'

\* Links go, or are looked up.
LinksStay ==
    /\ mailed' = mailed /\ DOMAIN links' \subseteq DOMAIN links
    /\ \A i \in DOMAIN links' : links'[i].token = links[i].token

LEMMA SpendKeeps ==
    ASSUME LeftFits, NEW kind, kind # "forms", Spend(kind)
    PROVE  LeftFits'
  BY DEF LeftFits, Spend

LEMMA CacheKept ==
    ASSUME CacheFits, CacheStays, serial.user \in Nat, serial'.user \in Nat, serial.user <= serial'.user
    PROVE  CacheFits'
<1>1. Cached' /\ cache'.apis = cache.apis
  BY DEF CacheFits, CacheStays, Cached
<1>2. 1..serial.user \subseteq 1..serial'.user
  OBVIOUS
<1> QED
  BY <1>1, <1>2 DEF CacheFits

LEMMA CacheSame ==
    ASSUME CacheFits, cache' = cache
    PROVE  CacheStays
  BY DEF CacheFits, CacheStays, Cached

LEMMA CacheIdle ==
    ASSUME CacheFits, cache' = cache, serial'.user = serial.user
    PROVE  CacheFits'
  BY DEF CacheFits, Cached

\* The cache of a request that changes an account and renews no cache.
LEMMA UnreadFacts ==
    ASSUME CacheFits, Unread
    PROVE  /\ CacheStays
           /\ cache'.alone => cache.alone /\ ApisOf(Seen)' = ApisOf(Seen)
           /\ ApisOf(Seen)' = ApisOf(Seen) => cache' = cache
<1>1. cache.alone \in BOOLEAN
  BY DEF CacheFits, Cached
<1>2. PICK b \in BOOLEAN : b = (cache.alone /\ ApisOf(Seen)' = ApisOf(Seen))
  OBVIOUS
<1>3. cache' = [cache EXCEPT !.alone = b]
  BY <1>2 DEF Unread
<1>4. cache'.alone = b
  BY <1>3 DEF CacheFits, Cached
<1>5. ApisOf(Seen)' = ApisOf(Seen) => b = cache.alone
  BY <1>1, <1>2
<1>6. b = cache.alone => cache' = cache
  BY <1>3 DEF CacheFits, Cached
<1> QED
  BY <1>2, <1>3, <1>4, <1>5, <1>6 DEF CacheStays

\* The accounts of a cache are among those that were read.
LEMMA ApisUsers ==
    ASSUME NEW seen, NEW a \in ApisOf(seen)
    PROVE  a.user \in DOMAIN seen
<1>1. PICK i \in {j \in DOMAIN seen : seen[j].api /\ seen[j].enabled} : a = [user |-> i, as |-> seen[i]]
  BY DEF ApisOf
<1> QED
  BY <1>1

\* The cache of the start.
LEMMA LoadedFits ==
    ASSUME cache' = Loaded, DOMAIN users \subseteq Users \cap 1..serial.user, serial'.user = serial.user
    PROVE  CacheFits'
<1>1. PICK apis, keys : apis = ApisOf(Seen) /\ keys = KeysOf(Seen, ReadKeys)
  OBVIOUS
<1>2. PICK alone \in BOOLEAN : alone = TRUE
  OBVIOUS
<1>3. cache' = [apis |-> apis, keys |-> keys, legacy |-> left.legacy, alone |-> alone]
  BY <1>1, <1>2 DEF Loaded
<1>4. DOMAIN Seen = DOMAIN users
  BY DEF Seen
<1>5. \A a \in apis : a.user \in Users \cap 1..serial.user
  BY <1>1, <1>4, ApisUsers
<1> QED
  BY <1>3, <1>5 DEF CacheFits, Cached

LEMMA LinksKept ==
    ASSUME LinksFit, LinksStay, Orderly
    PROVE  LinksFit'
<1>1. \A n \in DOMAIN mailed' : mailed'[n] \in [user : Users, sets : Nat]
  BY DEF LinksFit, LinksStay
<1>2. \A i \in DOMAIN links' : mailed'[links'[i].token].user = i /\ mailed'[links'[i].token].sets = 0
  BY DEF LinksFit, LinksStay
<1>3. ASSUME NEW r \in DOMAIN requests', Resets(requests'[r])
      PROVE  /\ requests'[r].link \in DOMAIN mailed' /\ mailed'[requests'[r].link].sets = 0
             /\ \A i \in DOMAIN links' : links'[i].token # requests'[r].link
             /\ \A q \in DOMAIN requests' :
                   Resets(requests'[q]) /\ requests'[q].link = requests'[r].link => q = r
  <2>1. r \in DOMAIN requests /\ requests'[r] = requests[r]
    BY <1>3 DEF Easy, Orderly, Resets
  <2>2. /\ requests[r].link \in DOMAIN mailed /\ mailed[requests[r].link].sets = 0
        /\ \A i \in DOMAIN links : links[i].token # requests[r].link
        /\ \A q \in DOMAIN requests : Resets(requests[q]) /\ requests[q].link = requests[r].link => q = r
    BY <1>3, <2>1 DEF LinksFit
  <2>3. ASSUME NEW q \in DOMAIN requests', Resets(requests'[q]), requests'[q].link = requests'[r].link
        PROVE  q = r
    <3>1. q \in DOMAIN requests /\ requests'[q] = requests[q]
      BY <2>3 DEF Easy, Orderly, Resets
    <3> QED
      BY <2>1, <2>2, <2>3, <3>1
  <2> QED
    BY <2>1, <2>2, <2>3 DEF LinksStay
<1> QED
  BY <1>1, <1>2, <1>3 DEF LinksFit

LEMMA SessionsKept ==
    ASSUME SessionsEnd, SerialsFit, sessions' \subseteq sessions, PasswordsStay,
           \A i \in DOMAIN users : Ending(i) => Ending(i)'
    PROVE  SessionsEnd'
<1> SUFFICES ASSUME NEW s \in sessions', Outdated(s)' PROVE s.kept \/ Ending(s.user)'
  BY DEF SessionsEnd
<1>1. s \in sessions /\ s.user \in 1..serial.user
  BY DEF SerialsFit
<1>2. s.user \in DOMAIN users' /\ s.pw < users'[s.user].pw
  BY DEF Outdated, Exists
<1>3. CASE s.user \in DOMAIN users /\ users'[s.user].pw = users[s.user].pw
  BY <1>1, <1>2, <1>3 DEF SessionsEnd, Outdated, Exists
<1> QED
  BY <1>1, <1>2, <1>3 DEF PasswordsStay

LEMMA EditsKept ==
    ASSUME EditsFit, serial.role \in Nat, serial'.role \in Nat, serial.role <= serial'.role,
           editing' \subseteq editing, DOMAIN roles' \subseteq Roles,
           \A r \in DOMAIN roles' : \/ r \in DOMAIN roles /\ roles'[r].list = roles[r].list
                                    \/ r \notin 1..serial.role
    PROVE  EditsFit'
<1> SUFFICES ASSUME NEW e \in editing'
             PROVE  /\ e \in [form : Form, own : BOOLEAN, others : {e.others}]
                    /\ MayEdit(e.form, e.others) /\ e.form.user \notin e.others
                    /\ e.form.list \in 1..serial'.role \cup {NoRole}
                    /\ e.form.list \in DOMAIN roles' => roles'[e.form.list].list
  BY DEF EditsFit, MayEdit
<1>1. /\ e \in [form : Form, own : BOOLEAN, others : {e.others}]
      /\ MayEdit(e.form, e.others) /\ e.form.user \notin e.others
      /\ e.form.list \in 1..serial.role \cup {NoRole}
      /\ e.form.list \in DOMAIN roles => roles[e.form.list].list
  BY DEF EditsFit
<1>2. 1..serial.role \subseteq 1..serial'.role
  OBVIOUS
<1>3. e.form.list \in DOMAIN roles' => e.form.list \in 1..serial.role
  BY <1>1, AccountsAssumption
<1> QED
  BY <1>1, <1>2, <1>3

\* Steps of the keys leave accounts and sessions alone.
LEMMA KeyFrame ==
    ASSUME AccessInv, UNCHANGED <<accountVars, loginVars>>, Easy, LeftFits', SerialsGrow,
           serial'.user = serial.user, serial'.role = serial.role,
           KeysTypeOK', DOMAIN tokens' \subseteq 1..serial'.key, CacheFits'
    PROVE  AccessInv'
<1> USE DEF AccessInv
<1>1. AccountsTypeOK'
  BY DEF AccountsTypeOK, accountVars, Easy, Orderly
<1>2. LoginsTypeOK'
  BY ZenonT(40) DEF LoginsTypeOK, loginVars
<1>3. SerialsFit'
  <2>1. 1..serial.token \subseteq 1..serial'.token
    BY DEF SerialsGrow, SerialsFit
  <2> QED
    BY <2>1 DEF SerialsFit, SerialsGrow, accountVars, loginVars
<1>4. RolesFit'
  BY DEF RolesFit, accountVars
<1>5. EditsFit'
  BY DEF EditsFit, MayEdit, accountVars
<1>6. LinksFit'
  BY LinksKept DEF LinksStay, loginVars, Easy
<1>7. LinksOnce'
  BY DEF LinksOnce, loginVars
<1>8. SessionsEnd'
  BY SessionsKept DEF PasswordsStay, accountVars, loginVars, Easy, Orderly
<1> QED
  BY <1>1, <1>2, <1>3, <1>4, <1>5, <1>6, <1>7, <1>8 DEF Easy, Orderly

\* Steps of logins leave accounts and keys alone.
LEMMA LoginFrame ==
    ASSUME AccessInv, UNCHANGED <<accountVars, tokens>>, CacheStays, LeftFits', SerialsGrow,
           serial'.user = serial.user, serial'.role = serial.role, serial'.key = serial.key,
           DOMAIN requests' \subseteq Requests, RequestsFit',
           LoginsTypeOK', DOMAIN mailed' \subseteq 1..serial'.token,
           \A s \in sessions' : s.user \in 1..serial.user,
           LinksFit', LinksOnce', SessionsEnd'
    PROVE  AccessInv'
<1> USE DEF AccessInv
<1>1. AccountsTypeOK'
  BY DEF AccountsTypeOK, accountVars
<1>2. KeysTypeOK'
  BY DEF KeysTypeOK, accountVars, keyVars
<1>3. SerialsFit'
  BY DEF SerialsFit, SerialsGrow, accountVars, keyVars
<1>4. RolesFit'
  BY DEF RolesFit, accountVars
<1>5. EditsFit'
  BY DEF EditsFit, MayEdit, accountVars
<1>6. CacheFits'
  BY CacheKept DEF SerialsGrow, SerialsFit
<1> QED
  BY <1>1, <1>2, <1>3, <1>4, <1>5, <1>6

\* Steps of accounts leave sessions alone.
LEMMA AccountFrame ==
    ASSUME AccessInv, UNCHANGED loginVars, KeysGo, Easy, LeftFits', SerialsGrow,
           serial'.key = serial.key, serial'.token = serial.token,
           DOMAIN users' \subseteq 1..serial'.user, DOMAIN roles' \subseteq 1..serial'.role,
           serial'.role >= SuperAdminRoleID => SuperAdminRoleID \in DOMAIN roles',
           AccountsTypeOK', RolesFit', EditsFit', PasswordsStay
    PROVE  AccessInv'
<1> USE DEF AccessInv
<1>1. KeysTypeOK'
  BY DEF KeysTypeOK, KeysGo
<1>2. LoginsTypeOK'
  BY ZenonT(40) DEF LoginsTypeOK, loginVars
<1>3. SerialsFit'
  <2>1. 1..serial.user \subseteq 1..serial'.user
    BY DEF SerialsGrow, SerialsFit
  <2>2. DOMAIN tokens' \subseteq DOMAIN tokens
    BY DEF KeysGo
  <2> QED
    BY <2>1, <2>2 DEF SerialsFit, SerialsGrow, loginVars
<1>4. LinksFit'
  BY LinksKept DEF LinksStay, loginVars, Easy
<1>5. LinksOnce'
  BY DEF LinksOnce, loginVars
<1>6. SessionsEnd'
  BY SessionsKept DEF loginVars, Easy, Orderly
<1>7. CacheFits'
  BY CacheKept DEF KeysGo, SerialsGrow, SerialsFit
<1> QED
  BY <1>1, <1>2, <1>3, <1>4, <1>5, <1>6, <1>7 DEF Easy, Orderly

-----------------------------------------------------------------------------
(* Steps of the keys. *)

\* What every step may use.
LEMMA Usual ==
    ASSUME AccessInv
    PROVE  /\ DOMAIN requests \subseteq Requests /\ RequestsFit
           /\ serial.user \in Nat /\ serial.role \in Nat /\ serial.key \in Nat /\ serial.token \in Nat
           /\ serial = [user |-> serial.user, role |-> serial.role, key |-> serial.key,
                        token |-> serial.token]
           /\ DOMAIN users \subseteq Users \cap 1..serial.user
  BY DEF AccessInv, AccountsTypeOK, SerialsFit

LEMMA SerialStays ==
    ASSUME AccessInv, serial' = serial
    PROVE  SerialsGrow
  BY DEF AccessInv, SerialsFit, SerialsGrow

\* A new key has the next id.
LEMMA InsertKeeps ==
    ASSUME AccessInv, UNCHANGED <<accountVars, loginVars, cache>>, LeftFits', NEW i \in DOMAIN users,
           NEW personal \in BOOLEAN, NEW ws \in Workspaces, Insert(i, personal, ws, FALSE), ThenRefresh
    PROVE  AccessInv'
<1>1. /\ SerialsGrow /\ serial'.user = serial.user /\ serial'.role = serial.role
      /\ serial'.key = serial.key + 1
  BY DEF AccessInv, SerialsFit, SerialsGrow, Insert, NextKey
<1>2. Easy
  BY <1>1, RefreshEasy, Usual
<1>3. KeysTypeOK'
  BY DEF AccessInv, KeysTypeOK, AccountsTypeOK, Insert, With, KeyRow, accountVars
<1>4. DOMAIN tokens' \subseteq 1..serial'.key
  <2>1. 1..serial.key \subseteq 1..serial'.key /\ NextKey \in 1..serial'.key
    BY <1>1 DEF AccessInv, SerialsFit, NextKey
  <2> QED
    BY <2>1 DEF AccessInv, SerialsFit, Insert, With
<1>5. CacheFits'
  BY <1>1, CacheIdle DEF AccessInv
<1> QED
  BY <1>1, <1>2, <1>3, <1>4, <1>5, KeyFrame

LEMMA CreateIntegrationTokenKeeps ==
    ASSUME AccessInv, UNCHANGED loginVars, NEW i \in DOMAIN users, NEW ws \in Workspaces,
           CreateIntegrationToken(i, ws) \/ CreatePersonalIntegrationToken(i, ws)
    PROVE  AccessInv'
<1>1. CASE CreateIntegrationToken(i, ws)
  <2>1. LeftFits'
    BY <1>1, SpendKeeps DEF CreateIntegrationToken, AccessInv
  <2>2. PICK personal \in BOOLEAN : personal = FALSE
    OBVIOUS
  <2> QED
    BY <1>1, <2>1, <2>2, InsertKeeps DEF CreateIntegrationToken
<1>2. CASE CreatePersonalIntegrationToken(i, ws)
  <2>1. LeftFits'
    BY <1>2, SpendKeeps DEF CreatePersonalIntegrationToken, AccessInv
  <2>2. PICK personal \in BOOLEAN : personal = TRUE
    OBVIOUS
  <2> QED
    BY <1>2, <2>1, <2>2, InsertKeeps DEF CreatePersonalIntegrationToken
<1> QED
  BY <1>1, <1>2

\* A key whose scope, end or time changed is a key of the same owner.
LEMMA KeyRowFacts ==
    ASSUME NEW key \in KeyRow
    PROVE  \A k \in {[key EXCEPT !.scope = @ + 1], [key EXCEPT !.revoked = TRUE], [key EXCEPT !.expired = TRUE]} :
              k \in KeyRow /\ k.user = key.user
<1>1. [key EXCEPT !.scope = @ + 1] \in KeyRow /\ [key EXCEPT !.scope = @ + 1].user = key.user
  BY DEF KeyRow
<1>2. [key EXCEPT !.revoked = TRUE] \in KeyRow /\ [key EXCEPT !.revoked = TRUE].user = key.user
  BY DEF KeyRow
<1>3. [key EXCEPT !.expired = TRUE] \in KeyRow /\ [key EXCEPT !.expired = TRUE].user = key.user
  BY DEF KeyRow
<1> QED
  BY <1>1, <1>2, <1>3

\* Columns of a key are written, and the cache is renewed or not.
LEMMA KeyWritten ==
    ASSUME AccessInv, UNCHANGED <<accountVars, loginVars, cache, serial>>, LeftFits',
           NEW t \in DOMAIN tokens, NEW key \in KeyRow, key.user = tokens[t].user,
           tokens' = [tokens EXCEPT ![t] = key], Easy
    PROVE  AccessInv'
<1>1. KeysTypeOK'
  BY DEF AccessInv, KeysTypeOK, accountVars
<1>2. DOMAIN tokens' \subseteq 1..serial'.key
  BY DEF AccessInv, SerialsFit
<1>3. CacheFits'
  BY CacheIdle DEF AccessInv
<1> QED
  BY <1>1, <1>2, <1>3, SerialStays, KeyFrame

LEMMA UpdatePersonalIntegrationTokenKeeps ==
    ASSUME AccessInv, UNCHANGED loginVars, NEW t \in DOMAIN tokens, UpdatePersonalIntegrationToken(t)
    PROVE  AccessInv'
<1>1. LeftFits' /\ Easy
  BY SpendKeeps, RefreshEasy, Usual DEF UpdatePersonalIntegrationToken, AccessInv
<1>2. tokens[t] \in KeyRow
  BY DEF AccessInv, KeysTypeOK
<1>a. [tokens[t] EXCEPT !.scope = @ + 1] \in KeyRow /\ [tokens[t] EXCEPT !.scope = @ + 1].user = tokens[t].user
  BY <1>2, KeyRowFacts
<1>3. PICK key \in KeyRow : key = [tokens[t] EXCEPT !.scope = @ + 1] /\ key.user = tokens[t].user
  BY <1>a
<1>4. tokens' = [tokens EXCEPT ![t] = key]
  BY <1>3 DEF UpdatePersonalIntegrationToken
<1> QED
  BY <1>1, <1>3, <1>4, KeyWritten DEF UpdatePersonalIntegrationToken

LEMMA RevokeKeeps ==
    ASSUME AccessInv, UNCHANGED <<accountVars, loginVars, cache, serial>>, LeftFits', NEW t \in DOMAIN tokens,
           Revoke(t), ThenRefresh
    PROVE  AccessInv'
<1>1. Easy
  BY RefreshEasy, Usual
<1>2. tokens[t] \in KeyRow
  BY DEF AccessInv, KeysTypeOK
<1>a. [tokens[t] EXCEPT !.revoked = TRUE] \in KeyRow /\ [tokens[t] EXCEPT !.revoked = TRUE].user = tokens[t].user
  BY <1>2, KeyRowFacts
<1>3. PICK key \in KeyRow : key = [tokens[t] EXCEPT !.revoked = TRUE] /\ key.user = tokens[t].user
  BY <1>a
<1>4. tokens' = [tokens EXCEPT ![t] = key]
  BY <1>3 DEF Revoke
<1> QED
  BY <1>1, <1>3, <1>4, KeyWritten

LEMMA DeleteIntegrationTokenKeeps ==
    ASSUME AccessInv, UNCHANGED loginVars, NEW t \in DOMAIN tokens,
           DeleteIntegrationToken(t) \/ DeletePersonalIntegrationToken(t)
    PROVE  AccessInv'
<1>1. LeftFits'
  <2>1. Spend("revoke")
    BY DEF DeleteIntegrationToken, DeletePersonalIntegrationToken
  <2> QED
    BY <2>1, SpendKeeps DEF AccessInv
<1> QED
  BY <1>1, RevokeKeeps DEF DeleteIntegrationToken, DeletePersonalIntegrationToken

LEMMA ExpireKeeps ==
    ASSUME AccessInv, UNCHANGED loginVars, NEW t \in DOMAIN tokens, Expire(t)
    PROVE  AccessInv'
<1>1. LeftFits' /\ Easy
  BY SpendKeeps, StayEasy, Usual DEF Expire, AccessInv
<1>2. tokens[t] \in KeyRow
  BY DEF AccessInv, KeysTypeOK
<1>a. [tokens[t] EXCEPT !.expired = TRUE] \in KeyRow /\ [tokens[t] EXCEPT !.expired = TRUE].user = tokens[t].user
  BY <1>2, KeyRowFacts
<1>3. PICK key \in KeyRow : key = [tokens[t] EXCEPT !.expired = TRUE] /\ key.user = tokens[t].user
  BY <1>a
<1>4. tokens' = [tokens EXCEPT ![t] = key]
  BY <1>3 DEF Expire
<1> QED
  BY <1>1, <1>3, <1>4, KeyWritten DEF Expire

\* Requests go on, and nothing else that the invariant speaks of changes.
LEMMA OnlyRequests ==
    ASSUME AccessInv, UNCHANGED <<accountVars, loginVars, tokens, serial>>, LeftFits', Easy, CacheFits'
    PROVE  AccessInv'
<1>1. KeysTypeOK'
  BY DEF AccessInv, KeysTypeOK, accountVars
<1>2. DOMAIN tokens' \subseteq 1..serial'.key
  BY DEF AccessInv, SerialsFit
<1> QED
  BY <1>1, <1>2, SerialStays, KeyFrame

LEMMA OpenRotationKeeps ==
    ASSUME AccessInv, UNCHANGED loginVars, NEW t \in DOMAIN tokens, OpenRotation(t)
    PROVE  AccessInv'
<1>1. LeftFits'
  BY SpendKeeps DEF OpenRotation, AccessInv
<1>2. PICK todo \in Plans : todo = <<"rotate">> \o Refresh /\ todo[1] # "reset"
  <2>1. <<"rotate">> \o Refresh = <<"rotate", "readUsers", "readKeys", "cacheUsers", "cacheKeys">>
    BY BeforeRefresh DEF Steps
  <2>2. <<"rotate", "readUsers", "readKeys", "cacheUsers", "cacheKeys">> \in Plans
    BY DEF Plans, SessionPlans
  <2> QED
    BY <2>1, <2>2
<1>a. tokens[t].user \in Users /\ tokens[t].user \in 1..serial.user
  BY Usual DEF AccessInv, KeysTypeOK
<1>3. PICK i \in Users : i = tokens[t].user /\ i \in Nat /\ i <= serial.user
  BY <1>a, Usual
<1>4. t \in Nat
  BY DEF AccessInv, SerialsFit
<1>5. Begin(todo, i, 0, t)
  BY <1>2, <1>3 DEF OpenRotation
<1>b. serial' = serial /\ serial.user \in Nat /\ DOMAIN requests \subseteq Requests /\ RequestsFit
  BY Usual DEF OpenRotation
<1>c. 0 \in Nat /\ i <= serial'.user /\ serial'.user \in Nat /\ serial.user <= serial'.user
  BY <1>3, <1>b
<1>6. Easy
  BY <1>2, <1>3, <1>4, <1>5, <1>b, <1>c, BeginEasy
<1>7. CacheFits'
  BY <1>b, CacheIdle DEF OpenRotation, keyVars, AccessInv
<1> QED
  BY <1>1, <1>6, <1>7, OnlyRequests DEF OpenRotation, keyVars

\* A step of a refresh, or a key that takes the place of another.
LEMMA RefreshStepEasy ==
    ASSUME AccessInv, serial'.user = serial.user, NEW r, NEW step, At(r, step),
           step \in Renewals \cup {"session", "challenge", "ready", "consume", "rotate"},
           NEW q, Fits(q, serial.user), q.todo = requests[r].todo, q.user = requests[r].user,
           Continue(r, q) \/ End(r)
    PROVE  Easy
<1>1. r \in DOMAIN requests /\ Planned(requests[r].todo) /\ requests[r].todo[1] = step
  BY AtFacts, Usual
<1>2. \A n \in DOMAIN requests[r].todo : requests[r].todo[n] # "destroy"
  BY <1>1 DEF Planned
<1>3. step # "destroy"
  BY DEF Renewals
<1> QED
  BY <1>1, <1>2, <1>3, ContinueEasy, EndEasy, Usual

LEMMA GetUsersKeeps ==
    ASSUME AccessInv, UNCHANGED loginVars, NEW r, GetUsers(r)
    PROVE  AccessInv'
<1>1. At(r, "readUsers") /\ LeftFits'
  BY DEF GetUsers, AccessInv, LeftFits
<1>2. Fits(requests[r], serial.user) /\ r \in DOMAIN requests
  BY <1>1, AtFacts, Usual
<1>3. PICK x : x = Seen /\ DOMAIN x \subseteq Users \cap 1..serial.user
  BY Usual DEF Seen
<1>a. PICK old : old = requests[r] /\ Fits(old, serial.user)
  BY <1>2
<1>b. LET q == [old EXCEPT !.seen = x]
      IN  Fits(q, serial.user) /\ q.todo = old.todo /\ q.user = old.user
  BY <1>3, <1>a DEF Fits
<1>4. PICK q : /\ q = [requests[r] EXCEPT !.seen = x]
               /\ Fits(q, serial.user) /\ q.todo = requests[r].todo /\ q.user = requests[r].user
  BY <1>a, <1>b
<1>5. Continue(r, q)
  BY <1>3, <1>4 DEF GetUsers
<1>6. "readUsers" \in Renewals
  BY DEF Renewals
<1>7. Easy
  BY <1>1, <1>4, <1>5, <1>6, RefreshStepEasy DEF GetUsers
<1>8. CacheFits'
  <2>1. PICK b \in BOOLEAN : b = \A k \in DOMAIN requests : ~Renewing(k)
    OBVIOUS
  <2>2. cache' = [cache EXCEPT !.alone = b] /\ serial' = serial
    BY <2>1 DEF GetUsers
  <2> QED
    BY <2>2 DEF CacheFits, Cached, AccessInv
<1> QED
  BY <1>1, <1>7, <1>8, OnlyRequests DEF GetUsers

LEMMA GetActiveIntegrationTokensKeeps ==
    ASSUME AccessInv, UNCHANGED loginVars, NEW r, GetActiveIntegrationTokens(r)
    PROVE  AccessInv'
<1>1. At(r, "readKeys") /\ LeftFits'
  BY DEF GetActiveIntegrationTokens, AccessInv, LeftFits
<1>2. Fits(requests[r], serial.user) /\ r \in DOMAIN requests
  BY <1>1, AtFacts, Usual
<1>3. PICK x : x = ReadKeys
  OBVIOUS
<1>a. PICK old : old = requests[r] /\ Fits(old, serial.user)
  BY <1>2
<1>b. LET q == [old EXCEPT !.keys = x]
      IN  Fits(q, serial.user) /\ q.todo = old.todo /\ q.user = old.user
  BY <1>a DEF Fits
<1>4. PICK q : /\ q = [requests[r] EXCEPT !.keys = x]
               /\ Fits(q, serial.user) /\ q.todo = requests[r].todo /\ q.user = requests[r].user
  BY <1>a, <1>b
<1>5. Continue(r, q)
  BY <1>3, <1>4 DEF GetActiveIntegrationTokens
<1>6. "readKeys" \in Renewals
  BY DEF Renewals
<1>7. Easy
  BY <1>1, <1>4, <1>5, <1>6, RefreshStepEasy DEF GetActiveIntegrationTokens
<1>8. CacheFits'
  BY CacheIdle DEF GetActiveIntegrationTokens, keyVars, AccessInv
<1> QED
  BY <1>1, <1>7, <1>8, OnlyRequests DEF GetActiveIntegrationTokens, keyVars

\* The cache is stored, or a refresh fails.
LEMMA CacheKeeps ==
    ASSUME AccessInv, UNCHANGED loginVars, NEW r,
           CacheAPIUsers(r) \/ CacheIntegrationTokens(r) \/ FailRefresh(r)
    PROVE  AccessInv'
<1>1. PICK step \in Renewals : At(r, step)
  BY DEF CacheAPIUsers, CacheIntegrationTokens, FailRefresh, Renewals
<1>2. LeftFits'
  BY SpendKeeps DEF AccessInv, LeftFits, CacheAPIUsers, CacheIntegrationTokens, FailRefresh
<1>3. PICK q : q = requests[r] /\ Fits(q, serial.user)
  BY <1>1, AtFacts, Usual
<1>4. Continue(r, q) \/ End(r)
  BY <1>3 DEF CacheAPIUsers, CacheIntegrationTokens, FailRefresh
<1>5. UNCHANGED <<accountVars, tokens, serial>>
  BY DEF CacheAPIUsers, CacheIntegrationTokens, FailRefresh
<1>6. Easy
  BY <1>1, <1>3, <1>4, <1>5, RefreshStepEasy
<1>7. CacheFits'
  <2>1. CASE CacheAPIUsers(r)
    <3>1. PICK apis : apis = ApisOf(q.seen) /\ \A a \in apis : a.user \in Users \cap 1..serial.user
      BY <1>3, ApisUsers DEF Fits
    <3>2. PICK b \in BOOLEAN : b = FALSE
      OBVIOUS
    <3>3. cache' = [cache EXCEPT !.apis = apis, !.legacy = b]
      BY <1>3, <2>1, <3>1, <3>2 DEF CacheAPIUsers
    <3> QED
      BY <1>5, <3>1, <3>3 DEF CacheFits, Cached, AccessInv
  <2>2. CASE CacheIntegrationTokens(r)
    <3>1. PICK keys : keys = KeysOf(q.seen, q.keys)
      OBVIOUS
    <3>2. cache' = [cache EXCEPT !.keys = keys]
      BY <1>3, <2>2, <3>1 DEF CacheIntegrationTokens
    <3> QED
      BY <1>5, <3>2 DEF CacheFits, Cached, AccessInv
  <2>3. CASE FailRefresh(r)
    <3>1. PICK b \in BOOLEAN : b = FALSE
      OBVIOUS
    <3>2. cache' = [cache EXCEPT !.alone = b]
      BY <2>3, <3>1 DEF FailRefresh
    <3> QED
      BY <1>5, <3>2 DEF CacheFits, Cached, AccessInv
  <2> QED
    BY <2>1, <2>2, <2>3
<1> QED
  BY <1>2, <1>5, <1>6, <1>7, OnlyRequests

LEMMA RotatePersonalIntegrationTokenKeeps ==
    ASSUME AccessInv, UNCHANGED loginVars, NEW r, RotatePersonalIntegrationToken(r)
    PROVE  AccessInv'
<1>1. At(r, "rotate") /\ LeftFits'
  BY DEF RotatePersonalIntegrationToken, AccessInv, LeftFits
<1>2. PICK q : q = requests[r] /\ Fits(q, serial.user)
  BY <1>1, AtFacts, Usual
<1>3. PICK t : t = requests[r].link
  OBVIOUS
<1>4. CASE t \in DOMAIN tokens /\ ~tokens[t].revoked /\ Regular(tokens[t].user)
  <2> DEFINE key == [tokens[t] EXCEPT !.expired = FALSE, !.scope = 0, !.late = @ \/ tokens[t].expired]
  <2>1. /\ NextKey \in Keys
        /\ serial' = [serial EXCEPT !.key = NextKey]
        /\ tokens' = With([tokens EXCEPT ![t].revoked = TRUE], NextKey, key)
        /\ Continue(r, q)
    BY <1>2, <1>3, <1>4 DEF RotatePersonalIntegrationToken
  <2>2. tokens[t] \in KeyRow /\ tokens[t].user \in DOMAIN users
    BY <1>4 DEF AccessInv, KeysTypeOK
  <2>3. key \in KeyRow /\ key.user = tokens[t].user
    BY <2>2 DEF KeyRow
  <2>4. [tokens[t] EXCEPT !.revoked = TRUE] \in KeyRow
        /\ [tokens[t] EXCEPT !.revoked = TRUE].user = tokens[t].user
    BY <2>2 DEF KeyRow
  <2> HIDE DEF key
  <2>5. /\ SerialsGrow /\ serial'.user = serial.user /\ serial'.role = serial.role
        /\ serial'.key = serial.key + 1
    BY <2>1 DEF AccessInv, SerialsFit, SerialsGrow, NextKey
  <2>6. KeysTypeOK'
    <3>1. DOMAIN tokens' = DOMAIN tokens \cup {NextKey}
      BY <2>1 DEF With
    <3>2. ASSUME NEW s \in DOMAIN tokens' PROVE tokens'[s] \in KeyRow /\ tokens'[s].user \in DOMAIN users
      BY <2>1, <2>2, <2>3, <2>4, <3>2 DEF AccessInv, KeysTypeOK, With
    <3> QED
      BY <2>1, <3>1, <3>2 DEF AccessInv, KeysTypeOK, RotatePersonalIntegrationToken, accountVars
  <2>7. DOMAIN tokens' \subseteq 1..serial'.key
    <3>1. 1..serial.key \subseteq 1..serial'.key /\ NextKey \in 1..serial'.key
      BY <2>5 DEF AccessInv, SerialsFit, NextKey
    <3> QED
      BY <2>1, <3>1 DEF AccessInv, SerialsFit, With
  <2>8. Easy
    BY <1>1, <1>2, <2>1, <2>5, RefreshStepEasy
  <2>9. CacheFits'
    BY <2>5, CacheIdle DEF RotatePersonalIntegrationToken, AccessInv
  <2> QED
    BY <1>1, <2>5, <2>6, <2>7, <2>8, <2>9, KeyFrame DEF RotatePersonalIntegrationToken
<1>5. CASE ~(t \in DOMAIN tokens /\ ~tokens[t].revoked /\ Regular(tokens[t].user))
  <2>1. End(r) /\ UNCHANGED <<accountVars, tokens, serial>>
    BY <1>3, <1>5 DEF RotatePersonalIntegrationToken
  <2>2. Easy
    BY <1>1, <1>2, <2>1, RefreshStepEasy
  <2>3. CacheFits'
    BY <2>1, CacheIdle DEF RotatePersonalIntegrationToken, AccessInv
  <2> QED
    BY <1>1, <2>1, <2>2, <2>3, OnlyRequests
<1> QED
  BY <1>4, <1>5

\* Steps of the keys keep the invariant.
LEMMA KeyStepKeeps ==
    ASSUME AccessInv, KeyStep
    PROVE  AccessInv'
<1>0. UNCHANGED loginVars
  BY DEF KeyStep
<1>1. CASE \E i \in DOMAIN users, ws \in Workspaces :
              \/ CreateIntegrationToken(i, ws)
              \/ SignedIn(i) /\ CreatePersonalIntegrationToken(i, ws)
  BY <1>0, <1>1, CreateIntegrationTokenKeeps
<1>2. CASE \E t \in DOMAIN tokens :
              \/ DeleteIntegrationToken(t)
              \/ /\ SignedIn(tokens[t].user)
                 /\ \/ DeletePersonalIntegrationToken(t)
                    \/ UpdatePersonalIntegrationToken(t)
                    \/ OpenRotation(t)
              \/ Expire(t)
  BY <1>0, <1>2, DeleteIntegrationTokenKeeps, UpdatePersonalIntegrationTokenKeeps, OpenRotationKeeps,
     ExpireKeeps
<1>3. CASE \E r \in DOMAIN requests :
              \/ RotatePersonalIntegrationToken(r)
              \/ GetUsers(r) \/ GetActiveIntegrationTokens(r)
              \/ CacheAPIUsers(r) \/ CacheIntegrationTokens(r) \/ FailRefresh(r)
  BY <1>0, <1>3, RotatePersonalIntegrationTokenKeeps, GetUsersKeeps, GetActiveIntegrationTokensKeeps,
     CacheKeeps
<1> QED
  BY <1>1, <1>2, <1>3 DEF KeyStep

-----------------------------------------------------------------------------
(* Rows of accounts. *)

\* The roles of a row exist, and the one over lists is one.
RowFits(a, rs) ==
    /\ a \in AccountRow
    /\ a.role \in DOMAIN rs
    /\ a.list = NoRole \/ (a.list \in DOMAIN rs /\ rs[a.list].list)

\* While roles are created or changed, rows fit.
LEMMA RowFitsStill ==
    ASSUME NEW a, NEW rs, NEW qs, RowFits(a, rs), DOMAIN rs \subseteq DOMAIN qs,
           \A r \in DOMAIN rs : qs[r].list = rs[r].list
    PROVE  RowFits(a, qs)
  BY DEF RowFits

LEMMA RowsFit ==
    ASSUME AccessInv
    PROVE  \A i \in DOMAIN users : RowFits(users[i], roles)
  BY DEF AccessInv, AccountsTypeOK, RolesFit, RowFits

LEMMA RowsHold ==
    ASSUME DOMAIN users' \subseteq Users, DOMAIN roles' \subseteq Roles, needsSetup' \in BOOLEAN,
           \A i \in DOMAIN users' : RowFits(users'[i], roles'),
           \A r \in DOMAIN roles' : roles'[r] \in RoleRow,
           DOMAIN requests' \subseteq Requests
    PROVE  AccountsTypeOK' /\ RolesFit'
<1>1. AccountsTypeOK'
  BY DEF AccountsTypeOK, RowFits
<1>2. RolesFit'
  BY DEF RolesFit, RowFits
<1> QED
  BY <1>1, <1>2

\* An account of a form has roles there are.
LEMMA AccountFits ==
    ASSUME AccessInv, NEW f, f.api \in BOOLEAN, f.enabled \in BOOLEAN, f.login \in BOOLEAN, UserRole(f.role)
    PROVE  RowFits(Account(f), roles)
<1>1. f.role \in DOMAIN roles /\ f.role \in Roles
  BY DEF UserRole, AccessInv, AccountsTypeOK
<1>2. ListRole(f.list) = NoRole \/ (ListRole(f.list) \in DOMAIN roles /\ roles[ListRole(f.list)].list)
  BY DEF ListRole
<1>3. ListRole(f.list) \in Roles \cup {NoRole}
  BY <1>2 DEF AccessInv, AccountsTypeOK
<1>4. PICK l : l = ListRole(f.list)
  OBVIOUS
<1>5. Account(f) = [api |-> f.api, enabled |-> f.enabled, role |-> f.role, list |-> l,
                    login |-> f.login /\ ~f.api, has |-> f.api \/ f.login, pw |-> 1, totp |-> FALSE,
                    rooted |-> FALSE]
  BY <1>4 DEF Account
<1>6. Account(f) \in AccountRow
  <2>1. (f.login /\ ~f.api) \in BOOLEAN /\ (f.api \/ f.login) \in BOOLEAN
    OBVIOUS
  <2> QED
    BY <1>1, <1>3, <1>4, <1>5, <2>1 DEF AccountRow
<1>7. Account(f).role = f.role /\ Account(f).list = l
  BY <1>5
<1> QED
  BY <1>1, <1>2, <1>4, <1>6, <1>7 DEF RowFits

\* New accounts.
LEMMA AccountsAdded ==
    ASSUME AccessInv, UNCHANGED <<roles, editing, needsSetup, loginVars>>, KeysGo, Easy,
           LeftFits', SerialsGrow, serial'.role = serial.role, serial'.key = serial.key,
           serial'.token = serial.token,
           \A i \in DOMAIN users : users'[i] = users[i],
           \A i \in DOMAIN users' \ DOMAIN users :
               i \in Users /\ i > serial.user /\ i <= serial'.user /\ RowFits(users'[i], roles)
    PROVE  AccessInv'
<1>1. /\ serial.user \in Nat /\ serial'.user \in Nat /\ serial.user <= serial'.user
      /\ DOMAIN users \subseteq 1..serial.user /\ DOMAIN users \subseteq Users
  BY Usual DEF SerialsGrow
<1>2. DOMAIN users' \subseteq Users /\ DOMAIN users' \subseteq 1..serial'.user
  <2> SUFFICES ASSUME NEW i \in DOMAIN users' PROVE i \in Users /\ i \in 1..serial'.user
    OBVIOUS
  <2>1. CASE i \in DOMAIN users
    <3>1. i \in 1..serial.user
      BY <1>1, <2>1
    <3> QED
      BY <1>1, <2>1, <3>1
  <2>2. CASE i \notin DOMAIN users
    <3>1. i \in Users /\ i > serial.user /\ i <= serial'.user
      BY <2>2
    <3>2. i \in Nat \ {0}
      BY <3>1, AccountsAssumption
    <3> QED
      BY <1>1, <3>1, <3>2
  <2> QED
    BY <2>1, <2>2
<1>3. \A i \in DOMAIN users' : RowFits(users'[i], roles')
  BY RowsFit
<1>4. AccountsTypeOK' /\ RolesFit'
  BY <1>2, <1>3, RowsHold DEF AccessInv, AccountsTypeOK, RolesFit, Easy, Orderly
<1>5. EditsFit'
  BY EditsKept, Usual DEF AccessInv, AccountsTypeOK
<1>6. PasswordsStay
  <2> SUFFICES ASSUME NEW i \in DOMAIN users'
               PROVE  (i \in DOMAIN users /\ users'[i].pw = users[i].pw) \/ i \notin 1..serial.user
    BY DEF PasswordsStay
  <2> QED
    BY <1>1
<1> QED
  BY <1>2, <1>4, <1>5, <1>6, AccountFrame DEF AccessInv, SerialsFit

\* The row of an account is written.
LEMMA AccountWritten ==
    ASSUME AccessInv, UNCHANGED <<roles, serial, loginVars>>, KeysGo, Easy, LeftFits',
           editing' \subseteq editing, needsSetup' \in BOOLEAN,
           NEW i \in DOMAIN users, NEW a, RowFits(a, roles), users' = [users EXCEPT ![i] = a],
           a.pw = users[i].pw \/ Ending(i)'
    PROVE  AccessInv'
<1>1. DOMAIN users' = DOMAIN users /\ \A j \in DOMAIN users' : users'[j] = users[j] \/ (j = i /\ users'[j] = a)
  OBVIOUS
<1>2. \A j \in DOMAIN users' : RowFits(users'[j], roles')
  BY <1>1, RowsFit
<1>3. AccountsTypeOK' /\ RolesFit'
  BY <1>1, <1>2, RowsHold DEF AccessInv, AccountsTypeOK, RolesFit, Easy, Orderly
<1>4. EditsFit'
  BY EditsKept, Usual DEF AccessInv, AccountsTypeOK
<1>5. PasswordsStay
  BY <1>1 DEF PasswordsStay
<1> QED
  BY <1>1, <1>3, <1>4, <1>5, SerialStays, AccountFrame DEF AccessInv, SerialsFit

\* Roles change, and accounts may go with them.
LEMMA AccountsLeft ==
    ASSUME AccessInv, UNCHANGED <<editing, needsSetup, loginVars>>, KeysGo, Easy, LeftFits',
           SerialsGrow, serial'.user = serial.user, serial'.key = serial.key, serial'.token = serial.token,
           DOMAIN users' \subseteq DOMAIN users, \A i \in DOMAIN users' : users'[i] = users[i],
           DOMAIN roles' \subseteq Roles \cap 1..serial'.role, SuperAdminRoleID \in DOMAIN roles => SuperAdminRoleID \in DOMAIN roles',
           serial.role = 0 => serial'.role = 0 \/ SuperAdminRoleID \in DOMAIN roles',
           \A r \in DOMAIN roles' : /\ roles'[r] \in RoleRow
                                    /\ \/ r \in DOMAIN roles /\ roles'[r].list = roles[r].list
                                       \/ r \notin 1..serial.role,
           \A i \in DOMAIN users' : RowFits(users[i], roles')
    PROVE  AccessInv'
<1>1. AccountsTypeOK' /\ RolesFit'
  BY RowsHold DEF AccessInv, AccountsTypeOK, RolesFit, Easy, Orderly
<1>2. EditsFit'
  BY EditsKept, Usual DEF SerialsGrow, AccessInv
<1>3. PasswordsStay
  BY DEF PasswordsStay
<1>4. serial'.role >= SuperAdminRoleID => SuperAdminRoleID \in DOMAIN roles'
  BY Usual DEF AccessInv, SerialsFit, SuperAdminRoleID
<1>5. DOMAIN users' \subseteq 1..serial'.user
  BY Usual
<1> QED
  BY <1>1, <1>2, <1>3, <1>4, <1>5, AccountFrame

\* Accounts and roles stay.
LEMMA AccountsSame ==
    ASSUME AccessInv, UNCHANGED <<users, roles, serial, loginVars>>, KeysGo, Easy,
           LeftFits', needsSetup' \in BOOLEAN, EditsFit'
    PROVE  AccessInv'
<1>1. AccountsTypeOK' /\ RolesFit'
  BY RowsFit, RowsHold DEF AccessInv, AccountsTypeOK, RolesFit, Easy, Orderly
<1>2. PasswordsStay
  BY DEF PasswordsStay
<1> QED
  BY <1>1, <1>2, SerialStays, AccountFrame DEF AccessInv, SerialsFit

-----------------------------------------------------------------------------
(* Steps of accounts and roles. *)

\* What a step of accounts does not touch.
Apart == KeysGo /\ UNCHANGED loginVars

\* Ids are drawn from the sequence of accounts.
LEMMA UsersDrawn ==
    ASSUME AccessInv, NEW n \in Nat, serial.user <= n, serial' = [serial EXCEPT !.user = n]
    PROVE  /\ SerialsGrow /\ serial'.user = n
           /\ serial'.role = serial.role /\ serial'.key = serial.key /\ serial'.token = serial.token
  BY DEF AccessInv, SerialsFit, SerialsGrow

LEMMA CreateUserKeeps ==
    ASSUME AccessInv, Apart, NEW f \in left.forms, CreateUser(f)
    PROVE  AccessInv'
<1>1. LeftFits'
  BY SpendKeeps DEF AccessInv, CreateUser
<1>2. PICK n \in Users : n = NextUser /\ n = serial.user + 1 /\ n \in Nat
  BY Usual DEF CreateUser, NextUser
<1>3. /\ SerialsGrow /\ serial'.user = n
      /\ serial'.role = serial.role /\ serial'.key = serial.key /\ serial'.token = serial.token
  BY <1>2, UsersDrawn, Usual DEF CreateUser
<1>4. Easy
  BY <1>2, <1>3, RefreshEasy, Usual DEF CreateUser
<1>5. f \in Form /\ f.api \in BOOLEAN /\ f.enabled \in BOOLEAN /\ f.login \in BOOLEAN
  BY DEF AccessInv, LeftFits, Form
<1>6. RowFits(Account(f), roles)
  BY <1>5, AccountFits DEF CreateUser
<1>7. /\ \A i \in DOMAIN users : users'[i] = users[i]
      /\ \A i \in DOMAIN users' \ DOMAIN users : i = n /\ users'[i] = Account(f)
  BY <1>2, Usual DEF CreateUser, With
<1>8. \A i \in DOMAIN users' \ DOMAIN users :
          i \in Users /\ i > serial.user /\ i <= serial'.user /\ RowFits(users'[i], roles)
  BY <1>2, <1>3, <1>6, <1>7, Usual
<1> QED
  BY <1>1, <1>3, <1>4, <1>7, <1>8, AccountsAdded DEF CreateUser, Apart

LEMMA CreateUsersKeeps ==
    ASSUME AccessInv, Apart, NEW f \in left.forms, NEW g \in left.forms, CreateUsers(f, g)
    PROVE  AccessInv'
<1>1. LeftFits'
  BY SpendKeeps DEF AccessInv, CreateUsers
<1>2. PICK n \in Users : n = NextUser /\ n = serial.user + 1 /\ n + 1 \in Users /\ n \in Nat
  BY Usual DEF CreateUsers, NextUser
<1>3. /\ SerialsGrow /\ serial'.user = n + 1
      /\ serial'.role = serial.role /\ serial'.key = serial.key /\ serial'.token = serial.token
  BY <1>2, UsersDrawn, Usual DEF CreateUsers
<1>4. Easy
  BY <1>2, <1>3, RefreshEasy, Usual DEF CreateUsers
<1>5. \A h \in {f, g} : h.api \in BOOLEAN /\ h.enabled \in BOOLEAN /\ h.login \in BOOLEAN /\ UserRole(h.role)
  BY DEF AccessInv, LeftFits, Form, CreateUsers, Importable
<1>6. RowFits(Account(f), roles) /\ RowFits(Account(g), roles)
  BY <1>5, AccountFits
<1>7. /\ \A i \in DOMAIN users : users'[i] = users[i]
      /\ \A i \in DOMAIN users' \ DOMAIN users : \/ i = n /\ users'[i] = Account(f)
                                                 \/ i = n + 1 /\ users'[i] = Account(g)
  BY <1>2, Usual DEF CreateUsers, With
<1>8. \A i \in DOMAIN users' \ DOMAIN users :
          i \in Users /\ i > serial.user /\ i <= serial'.user /\ RowFits(users'[i], roles)
  BY <1>2, <1>3, <1>6, <1>7, Usual
<1> QED
  BY <1>1, <1>3, <1>4, <1>7, <1>8, AccountsAdded DEF CreateUsers, Apart

\* The only account there is has the role of administrators.
LEMMA FirstTimeSetupKeeps ==
    ASSUME AccessInv, Apart, FirstTimeSetup
    PROVE  AccessInv'
<1>1. LeftFits'
  BY SpendKeeps DEF AccessInv, FirstTimeSetup
<1>2. CASE \E i \in DOMAIN users : ~users[i].api
  <2>1. UNCHANGED <<users, roles, editing, requests, serial>> /\ needsSetup' \in BOOLEAN
    BY <1>2 DEF FirstTimeSetup
  <2>2. Easy
    BY <2>1, StayEasy, Usual
  <2>3. EditsFit'
    BY <2>1, EditsKept, Usual DEF AccessInv, AccountsTypeOK
  <2> QED
    BY <1>1, <2>1, <2>2, <2>3, AccountsSame DEF Apart
<1>3. CASE ~ \E i \in DOMAIN users : ~users[i].api
  <2>1. /\ NextUser \in Users
        /\ roles' = IF SuperAdminRoleID \in DOMAIN roles THEN roles
                    ELSE With(roles, SuperAdminRoleID, [list |-> FALSE, perms |-> 0])
        /\ users' = With(users, NextUser, FirstAccount)
        /\ serial' = [serial EXCEPT !.user = NextUser, !.role = IF @ = 0 THEN SuperAdminRoleID ELSE @]
        /\ Begin(<<"session", "ready">>, NextUser, 1, 0)
        /\ UNCHANGED <<needsSetup, editing>>
    BY <1>3 DEF FirstTimeSetup
  <2>2. PICK n \in Users : n = NextUser /\ n = serial.user + 1 /\ n \in Nat
    BY <2>1, Usual DEF NextUser
  <2>3. PICK m \in Nat : m = serial.role
    BY Usual
  <2>4. PICK k \in Nat : k = IF m = 0 THEN SuperAdminRoleID ELSE m
    BY DEF SuperAdminRoleID
  <2>5. /\ SerialsGrow /\ serial'.user = n /\ serial'.role = k
        /\ serial'.key = serial.key /\ serial'.token = serial.token
    <3>1. serial' = [serial EXCEPT !.user = n, !.role = k]
      BY <2>1, <2>2, <2>3, <2>4
    <3>2. serial' = [user |-> n, role |-> k, key |-> serial.key, token |-> serial.token]
      BY <3>1, Usual
    <3>3. m <= k /\ serial.user <= n /\ serial.key \in Nat /\ serial.token \in Nat
      BY <2>2, <2>3, <2>4, Usual DEF SuperAdminRoleID
    <3> QED
      BY <2>2, <2>3, <2>4, <3>2, <3>3 DEF SerialsGrow
  <2>6. Easy
    <3>1. PICK todo \in Plans : todo = <<"session", "ready">> /\ todo[1] # "reset"
      <4>1. <<"session", "ready">> \in Plans
        BY DEF Plans, SessionPlans
      <4> QED
        BY <4>1
    <3>2. Begin(todo, n, 1, 0) /\ 0 \in Nat /\ 1 \in Nat
      BY <2>1, <2>2, <3>1
    <3>3. /\ serial'.user \in Nat /\ serial.user \in Nat /\ serial.user <= serial'.user /\ n <= serial'.user
          /\ DOMAIN requests \subseteq Requests /\ RequestsFit
      BY <2>2, <2>5, Usual
    <3> QED
      BY <2>2, <3>1, <3>2, <3>3, BeginEasy
  <2>7. /\ DOMAIN roles' = DOMAIN roles \cup {SuperAdminRoleID}
        /\ \A r \in DOMAIN roles : roles'[r] = roles[r]
        /\ \A r \in DOMAIN roles' \ DOMAIN roles : roles'[r] = [list |-> FALSE, perms |-> 0]
    BY <2>1 DEF With
  <2>8. [list |-> FALSE, perms |-> 0] \in RoleRow
    BY DEF RoleRow
  <2>9. /\ SuperAdminRoleID \in Roles
        /\ SuperAdminRoleID \in DOMAIN roles \/ (m = 0 /\ SuperAdminRoleID \notin 1..m)
    BY <2>3, AccountsAssumption DEF AccessInv, SerialsFit, SuperAdminRoleID
  <2>10. /\ DOMAIN users' = DOMAIN users \cup {n} /\ users'[n] = FirstAccount
         /\ \A i \in DOMAIN users \ {n} : users'[i] = users[i]
         /\ n \notin 1..serial.user /\ n \notin DOMAIN users
    BY <2>1, <2>2, Usual DEF With
  <2>11. RowFits(FirstAccount, roles')
    <3>1. ListRole(NoRole) = NoRole
      BY DEF ListRole
    <3>2. FirstAccount = [api |-> FALSE, enabled |-> TRUE, role |-> SuperAdminRoleID, list |-> NoRole,
                          login |-> TRUE, has |-> TRUE, pw |-> 1, totp |-> FALSE, rooted |-> FALSE]
      BY <3>1 DEF FirstAccount, Account
    <3> QED
      BY <2>7, <2>9, <3>2 DEF RowFits, AccountRow
  <2>12. \A i \in DOMAIN users' : RowFits(users'[i], roles')
    <3>1. ASSUME NEW i \in DOMAIN users PROVE RowFits(users[i], roles')
      BY <2>7, RowsFit, RowFitsStill
    <3> QED
      BY <2>10, <2>11, <3>1
  <2>13. AccountsTypeOK' /\ RolesFit'
    <3>1. DOMAIN users' \subseteq Users /\ DOMAIN roles' \subseteq Roles /\ needsSetup' \in BOOLEAN
      BY <2>1, <2>7, <2>9, <2>10 DEF AccessInv, AccountsTypeOK
    <3>2. \A r \in DOMAIN roles' : roles'[r] \in RoleRow
      BY <2>7, <2>8 DEF AccessInv, RolesFit
    <3> QED
      BY <2>6, <2>12, <3>1, <3>2, RowsHold DEF Easy, Orderly
  <2>14. EditsFit'
    <3>1. \A r \in DOMAIN roles' : \/ r \in DOMAIN roles /\ roles'[r].list = roles[r].list
                                   \/ r \notin 1..serial.role
      BY <2>3, <2>7, <2>9
    <3> QED
      BY <2>1, <2>5, <2>13, <3>1, EditsKept DEF AccessInv, SerialsGrow, SerialsFit, AccountsTypeOK
  <2>15. DOMAIN users' \subseteq 1..serial'.user /\ DOMAIN roles' \subseteq 1..serial'.role
    <3>1. m <= k /\ SuperAdminRoleID \in 1..k
      BY <2>4 DEF SuperAdminRoleID
    <3>2. DOMAIN roles \subseteq 1..k
      <4>1. DOMAIN roles \subseteq 1..m /\ 1..m \subseteq 1..k
        BY <2>3, <3>1 DEF AccessInv, SerialsFit
      <4> QED
        BY <4>1
    <3>3. DOMAIN users \subseteq 1..n /\ n \in 1..n
      BY <2>2, Usual
    <3> QED
      BY <2>5, <2>7, <2>10, <3>1, <3>2, <3>3
  <2>16. PasswordsStay
    BY <2>10 DEF PasswordsStay
  <2> QED
    BY <1>1, <2>5, <2>6, <2>7, <2>13, <2>14, <2>15, <2>16, AccountFrame DEF Apart
<1> QED
  BY <1>2, <1>3

LEMMA SetupDoneKeeps ==
    ASSUME AccessInv, Apart, NEW r, SetupDone(r)
    PROVE  AccessInv'
<1>1. At(r, "ready") /\ LeftFits' /\ UNCHANGED <<users, roles, editing, serial>> /\ needsSetup' \in BOOLEAN
  BY DEF SetupDone, AccessInv, LeftFits
<1>2. PICK q : q = requests[r] /\ Fits(q, serial.user)
  BY <1>1, AtFacts, Usual
<1>3. Easy
  BY <1>1, <1>2, RefreshStepEasy DEF SetupDone
<1>4. EditsFit'
  BY <1>1, EditsKept, Usual DEF AccessInv, AccountsTypeOK
<1> QED
  BY <1>1, <1>3, <1>4, AccountsSame DEF Apart

\* What an edit counted are the administrators there are beside the account.
LEMMA OpenEditKeeps ==
    ASSUME AccessInv, Apart, NEW f \in left.forms, NEW own \in BOOLEAN, OpenEdit(f, own)
    PROVE  AccessInv'
<1>1. LeftFits'
  BY SpendKeeps DEF AccessInv, OpenEdit
<1>2. UNCHANGED <<users, roles, requests, serial, needsSetup>>
  BY DEF OpenEdit
<1>3. Easy
  BY <1>2, StayEasy, Usual
<1>4. PICK l : l = ListRole(f.list)
  OBVIOUS
<1>5. /\ l \in Roles \cup {NoRole} /\ l \in 1..serial.role \cup {NoRole}
      /\ l \in DOMAIN roles => roles[l].list
  BY <1>4, AccountsAssumption DEF ListRole, AccessInv, AccountsTypeOK, SerialsFit
<1>6. PICK form : form = [f EXCEPT !.list = ListRole(@)]
  OBVIOUS
<1>7. f \in Form
  BY DEF AccessInv, LeftFits
<1>8. /\ form \in Form /\ form.list = l /\ form.user = f.user
      /\ form.role = f.role /\ form.enabled = f.enabled
  BY <1>4, <1>5, <1>6, <1>7 DEF Form
<1>9. PICK others : others = Admins \ {f.user}
  OBVIOUS
<1>10. PICK e : e = [form |-> form, own |-> own, others |-> others]
  OBVIOUS
<1>11. editing' = editing \cup {e}
  BY <1>6, <1>9, <1>10 DEF OpenEdit
<1>12. MayEdit(e.form, e.others) /\ e.form.user \notin e.others
  BY <1>8, <1>9, <1>10 DEF OpenEdit, MayEdit
<1>13. e \in [form : Form, own : BOOLEAN, others : {e.others}] /\ e.form.list = l
  BY <1>8, <1>10
<1>14. EditsFit'
  <2> SUFFICES ASSUME NEW d \in editing'
               PROVE  /\ d \in [form : Form, own : BOOLEAN, others : {d.others}]
                      /\ MayEdit(d.form, d.others) /\ d.form.user \notin d.others
                      /\ d.form.list \in 1..serial.role \cup {NoRole}
                      /\ d.form.list \in DOMAIN roles => roles[d.form.list].list
    BY <1>2 DEF EditsFit, MayEdit
  <2>1. CASE d = e
    BY <1>5, <1>12, <1>13, <2>1
  <2>2. CASE d # e
    BY <1>11, <2>2 DEF AccessInv, EditsFit
  <2> QED
    BY <2>1, <2>2
<1> QED
  BY <1>1, <1>2, <1>3, <1>14, AccountsSame DEF Apart, AccessInv, AccountsTypeOK

\* What an edit writes fits, and raises the password only when it is set.
LEMMA EditedFits ==
    ASSUME NEW a, NEW rs, RowFits(a, rs), NEW f \in Form, f.role \in DOMAIN rs,
           f.list = NoRole \/ (f.list \in DOMAIN rs /\ rs[f.list].list)
    PROVE  RowFits(Edited(a, f), rs) /\ (Edited(a, f).pw = a.pw \/ f.set)
<1>1. a \in AccountRow
  BY DEF RowFits
<1>2. PICK has \in BOOLEAN : has = (f.login /\ (f.set \/ a.has))
  BY <1>1 DEF AccountRow, Form
<1>3. PICK pw \in Nat : pw = (IF f.login /\ f.set THEN a.pw + 1 ELSE a.pw)
  BY <1>1 DEF AccountRow, Form
<1>4. Edited(a, f) = [a EXCEPT !.api = f.api, !.enabled = f.enabled, !.role = f.role, !.list = f.list,
                               !.login = f.login, !.has = has, !.pw = pw]
  BY <1>2, <1>3 DEF Edited
<1>5. PICK e : e = Edited(a, f)
  OBVIOUS
<1>6. e \in AccountRow
  BY <1>1, <1>4, <1>5 DEF AccountRow, Form
<1>7. e.role = f.role /\ e.list = f.list /\ e.pw = pw
  BY <1>1, <1>4, <1>5 DEF AccountRow
<1> QED
  BY <1>3, <1>5, <1>6, <1>7 DEF RowFits, Form

\* What a profile or a reset writes fits.
LEMMA ProfileFits ==
    ASSUME NEW a, NEW rs, RowFits(a, rs), NEW login \in BOOLEAN, NEW set \in BOOLEAN
    PROVE  RowFits(Profile(a, login, set), rs) /\ Profile(a, login, set).pw \in Nat
           /\ (Profile(a, login, set).pw = a.pw \/ set)
<1>1. a \in AccountRow
  BY DEF RowFits
<1>2. PICK has \in BOOLEAN : has = (login /\ (set \/ a.has))
  BY <1>1 DEF AccountRow
<1>3. PICK pw \in Nat : pw = (IF login /\ set THEN a.pw + 1 ELSE a.pw)
  BY <1>1 DEF AccountRow
<1>4. Profile(a, login, set) = [a EXCEPT !.has = has, !.pw = pw]
  BY <1>2, <1>3 DEF Profile
<1>5. PICK e : e = Profile(a, login, set)
  OBVIOUS
<1>6. e \in AccountRow /\ e.role = a.role /\ e.list = a.list /\ e.pw = pw
  BY <1>1, <1>4, <1>5 DEF AccountRow
<1> QED
  BY <1>3, <1>5, <1>6 DEF RowFits

\* An edit writes its row, and whoever set a password goes on to end the sessions.
LEMMA WriteEditKeeps ==
    ASSUME AccessInv, Apart, NEW e \in editing, WriteEdit(e)
    PROVE  AccessInv'
<1>1. LeftFits' /\ UNCHANGED <<roles, serial, needsSetup>> /\ editing' \subseteq editing
  BY DEF WriteEdit, AccessInv, LeftFits
<1>2. PICK f \in Form, own \in BOOLEAN : f = e.form /\ own = e.own
  BY DEF AccessInv, EditsFit
<1>3. CASE f.user \in DOMAIN users /\ f.role \in DOMAIN roles /\ f.list \in DOMAIN roles \cup {NoRole}
  <2>1. PICK i \in DOMAIN users : i = f.user
    BY <1>3
  <2>2. PICK a : a = Edited(users[i], f)
    OBVIOUS
  <2>3. f.list = NoRole \/ (f.list \in DOMAIN roles /\ roles[f.list].list)
    BY <1>2, <1>3 DEF AccessInv, EditsFit
  <2>4. PICK row : row = users[i] /\ RowFits(row, roles)
    BY RowsFit
  <2>5. RowFits(a, roles) /\ (a.pw = users[i].pw \/ f.set)
    BY <1>3, <2>2, <2>3, <2>4, EditedFits
  <2>6. /\ users' = [users EXCEPT ![i] = a]
        /\ Begin(AfterEdit(f, own), i, users'[i].pw, 0)
    BY <1>2, <1>3, <2>1, <2>2 DEF WriteEdit
  <2>7. PICK todo \in Plans : /\ todo = AfterEdit(f, own) /\ todo[1] # "reset"
                              /\ f.set => todo[1] = "destroy"
    BY AfterEditFacts
  <2>8. PICK pw \in Nat : pw = users'[i].pw
    <3>1. users'[i] = a /\ a.pw \in Nat
      BY <2>5, <2>6 DEF RowFits, AccountRow
    <3> QED
      BY <3>1
  <2>9. Begin(todo, i, pw, 0)
    BY <2>6, <2>7, <2>8
  <2>10. Easy /\ (todo[1] = "destroy" => Ending(i)')
    <3>1. i \in Users /\ i \in 1..serial.user /\ i \in Nat /\ i <= serial.user /\ serial.user \in Nat
      BY Usual
    <3>2. serial' = serial /\ DOMAIN requests \subseteq Requests /\ RequestsFit /\ 0 \in Nat
      BY <1>1, Usual
    <3> QED
      BY <2>7, <2>8, <2>9, <3>1, <3>2, BeginEasy
  <2> QED
    BY <1>1, <2>5, <2>6, <2>7, <2>10, AccountWritten DEF Apart, AccessInv, AccountsTypeOK
<1>4. CASE ~(f.user \in DOMAIN users /\ f.role \in DOMAIN roles /\ f.list \in DOMAIN roles \cup {NoRole})
  <2>1. UNCHANGED <<users, requests>>
    BY <1>2, <1>4 DEF WriteEdit
  <2>2. Easy
    BY <1>1, <2>1, StayEasy, Usual
  <2>3. EditsFit'
    BY <1>1, EditsKept, Usual DEF AccessInv, AccountsTypeOK
  <2> QED
    BY <1>1, <2>1, <2>2, <2>3, AccountsSame DEF Apart, AccessInv, AccountsTypeOK
<1> QED
  BY <1>3, <1>4

LEMMA DeleteUsersKeeps ==
    ASSUME AccessInv, Apart, NEW ids, DeleteUsers(ids)
    PROVE  AccessInv'
<1>1. LeftFits'
  BY SpendKeeps DEF AccessInv, DeleteUsers
<1>2. UNCHANGED <<roles, editing, needsSetup, serial>>
  BY DEF DeleteUsers
<1>3. Easy
  BY <1>2, RefreshEasy, Usual DEF DeleteUsers
<1>4. DOMAIN users' \subseteq DOMAIN users /\ \A i \in DOMAIN users' : users'[i] = users[i]
  BY DEF DeleteUsers
<1>5. \A i \in DOMAIN users' : RowFits(users[i], roles')
  BY <1>2, <1>4, RowsFit
<1>6. /\ DOMAIN roles' \subseteq Roles \cap 1..serial'.role
      /\ \A r \in DOMAIN roles' : roles'[r] \in RoleRow
  BY <1>2 DEF AccessInv, AccountsTypeOK, SerialsFit, RolesFit
<1> QED
  BY <1>1, <1>2, <1>3, <1>4, <1>5, <1>6, SerialStays, AccountsLeft DEF Apart

LEMMA OpenProfileKeeps ==
    ASSUME AccessInv, UNCHANGED <<keyVars, loginVars>>, NEW i \in Users \cap 1..serial.user,
           NEW login \in BOOLEAN, NEW session \in BOOLEAN, NEW set \in BOOLEAN, OpenProfile(i, login, session, set)
    PROVE  AccessInv'
<1>1. LeftFits' /\ UNCHANGED <<users, roles, editing, needsSetup, serial>>
  BY SpendKeeps DEF AccessInv, OpenProfile, accountVars
<1>2. PICK todo \in Plans : /\ todo = IF ~set THEN <<"profile">>
                                      ELSE IF session THEN <<"profile", "destroy", "session">>
                                           ELSE <<"profile", "destroy">>
                            /\ todo[1] # "reset"
  <2>1. /\ <<"profile", "destroy", "session">> \in Plans /\ <<"profile">> \in Plans
        /\ <<"profile", "destroy">> \in Plans
    BY DEF Plans, SessionPlans, EndingPlans
  <2> QED
    BY <2>1
<1>3. PICK b \in BOOLEAN : b = login
  OBVIOUS
<1>4. FreeRequest \in Requests \ DOMAIN requests
  BY Usual DEF FreeRequest, OpenProfile
<1>5. PICK r \in Requests \ DOMAIN requests : r = FreeRequest
  BY <1>4
<1>6. PICK p : p = [todo |-> todo, user |-> i, pw |-> 0, link |-> 0, login |-> FALSE,
                    seen |-> <<>>, keys |-> {}]
  OBVIOUS
<1>7. PICK q : q = [p EXCEPT !.login = b]
  OBVIOUS
<1>8. requests' = With(requests, r, q)
  <2>1. Begun(todo, i, 0, 0) = With(requests, r, p)
    BY <1>5, <1>6 DEF Begun
  <2>2. requests' = [With(requests, r, p) EXCEPT ![r].login = b]
    BY <1>2, <1>3, <1>5, <2>1 DEF OpenProfile
  <2>3. r \in DOMAIN With(requests, r, p) /\ With(requests, r, p)[r] = p
    BY DEF With
  <2>4. requests' = [With(requests, r, p) EXCEPT ![r] = q]
    BY <1>7, <2>2, <2>3
  <2> QED
    BY <2>4 DEF With
<1>9. Fits(q, serial.user) /\ q.todo = todo
  <2>1. i \in Users /\ i \in 0..serial.user
    OBVIOUS
  <2>2. Fits(p, serial.user) /\ p.todo = todo
    BY <1>6, <2>1 DEF Fits
  <2> QED
    BY <1>7, <2>2 DEF Fits
<1>10. Easy
  BY <1>1, <1>2, <1>8, <1>9, AddedEasy, Usual
<1>11. EditsFit'
  BY <1>1, EditsKept, Usual DEF AccessInv, AccountsTypeOK
<1>12. KeysGo
  BY <1>1, CacheSame DEF KeysGo, keyVars, AccessInv, KeysTypeOK
<1> QED
  BY <1>1, <1>10, <1>11, <1>12, AccountsSame DEF AccessInv, AccountsTypeOK

\* Whoever sets a password ends the sessions next.
LEMMA EndsNext ==
    ASSUME NEW r \in DOMAIN requests, NEW top \in Nat, NEW q, Fits(q, top), Continue(r, q),
           Len(q.todo) # 1, q.todo[2] = "destroy"
    PROVE  Ending(q.user)'
<1>1. Planned(q.todo)
  BY FitsFacts
<1>2. PICK t \in Seq(Steps) : t = q.todo /\ Len(t) >= 1 /\ Len(t) # 1
  BY <1>1 DEF Planned
<1>a. Len(t) \in Nat
  OBVIOUS
<1>b. PICK n \in Nat : n = Len(t) /\ n >= 1 /\ n # 1
  BY <1>2, <1>a
<1>3. Len(t) \in Nat /\ Len(t) >= 2
  BY <1>b
<1>4. t # <<>>
  BY <1>3
<1>5. 1 \in DOMAIN Tail(t) /\ Tail(t)[1] = t[2]
  BY <1>3, <1>4
<1>6. r \in DOMAIN requests' /\ requests'[r] = [q EXCEPT !.todo = Tail(@)]
  BY DEF Continue
<1>7. requests'[r].todo = Tail(t) /\ requests'[r].user = q.user
  BY <1>2, <1>6, FitsNext
<1> QED
  BY <1>2, <1>5, <1>6, <1>7 DEF Ending

LEMMA UpdateUserProfileKeeps ==
    ASSUME AccessInv, CacheStays, UNCHANGED <<tokens, loginVars>>, NEW r, UpdateUserProfile(r)
    PROVE  AccessInv'
<1>0. Apart
  <2>1. DOMAIN users' = DOMAIN users
    BY DEF UpdateUserProfile
  <2> QED
    BY <2>1 DEF Apart, KeysGo, AccessInv, KeysTypeOK
<1>1. At(r, "profile") /\ LeftFits' /\ UNCHANGED <<roles, editing, needsSetup, serial>>
  BY DEF UpdateUserProfile, AccessInv, LeftFits
<1>2. PICK q : q = requests[r] /\ Fits(q, serial.user) /\ Planned(q.todo) /\ q.todo[1] = "profile"
  BY <1>1, AtFacts, Usual
<1>3. r \in DOMAIN requests
  BY <1>1 DEF At
<1>4. CASE q.user \in DOMAIN users
  <2>1. PICK i \in DOMAIN users : i = q.user
    BY <1>4
  <2>2. PICK row : row = users[i] /\ RowFits(row, roles)
    BY RowsFit
  <2>3. PICK login \in BOOLEAN, set \in BOOLEAN : login = q.login /\ set = (Len(q.todo) > 1)
    <3>1. q.login \in BOOLEAN /\ (Len(q.todo) > 1) \in BOOLEAN
      BY <1>2, FitsFacts, Usual
    <3> QED
      BY <3>1
  <2>4. PICK a : a = Profile(row, login, set)
    OBVIOUS
  <2>5. RowFits(a, roles) /\ a.pw \in Nat /\ (a.pw = row.pw \/ set)
    BY <2>2, <2>4, ProfileFits
  <2>6. users' = [users EXCEPT ![i] = a] /\ users'[i].pw = a.pw
    BY <1>2, <2>1, <2>2, <2>3, <2>4, <1>4 DEF UpdateUserProfile
  <2>7. PICK p : p = [q EXCEPT !.pw = a.pw]
    OBVIOUS
  <2>8. Fits(p, serial.user) /\ p.todo = q.todo /\ p.user = q.user
    BY <1>2, <2>5, <2>7, FitsWith, Usual
  <2>9. Continue(r, p)
    BY <1>2, <1>4, <2>1, <2>6, <2>7 DEF UpdateUserProfile
  <2>10. Easy
    BY <1>1, <1>2, <1>3, <2>8, <2>9, ContinueEasy, Usual
  <2>11. a.pw = users[i].pw \/ Ending(i)'
    <3>1. ASSUME set PROVE Ending(i)'
      <4>a. Len(q.todo) > 1
        BY <2>3, <3>1
      <4>b. Len(q.todo) # 1
        <5>1. PICK t \in Seq(Steps) : t = q.todo
          BY <1>2 DEF Planned
        <5>2. PICK n \in Nat : n = Len(t)
          OBVIOUS
        <5>3. n > 1
          BY <4>a, <5>1, <5>2
        <5>4. n # 1
          BY <5>3
        <5> QED
          BY <5>1, <5>2, <5>4
      <4>1. Len(p.todo) # 1 /\ p.todo[2] = "destroy"
        BY <1>2, <2>8, <4>b DEF Planned
      <4> QED
        BY <1>3, <2>1, <2>8, <2>9, <4>1, EndsNext, Usual
    <3> QED
      BY <2>2, <2>5, <3>1
  <2> QED
    BY <1>1, <2>5, <2>6, <2>10, <2>11, AccountWritten, <1>0 DEF Apart, AccessInv, AccountsTypeOK
<1>5. CASE q.user \notin DOMAIN users
  <2>1. End(r) /\ UNCHANGED users
    BY <1>2, <1>5 DEF UpdateUserProfile
  <2>2. Easy
    BY <1>1, <1>2, <1>3, <1>5, <2>1, EndEasy, Usual
  <2>3. EditsFit'
    BY <1>1, EditsKept, Usual DEF AccessInv, AccountsTypeOK
  <2> QED
    BY <1>1, <2>1, <2>2, <2>3, AccountsSame, <1>0 DEF Apart, AccessInv, AccountsTypeOK
<1> QED
  BY <1>4, <1>5

LEMMA EnableTOTPKeeps ==
    ASSUME AccessInv, Apart, NEW i \in DOMAIN users, EnableTOTP(i) \/ DisableTOTP(i)
    PROVE  AccessInv'
<1>1. LeftFits'
  <2>1. Spend("totp")
    BY DEF EnableTOTP, DisableTOTP
  <2> QED
    BY <2>1, SpendKeeps DEF AccessInv
<1>2. PICK b \in BOOLEAN : users' = [users EXCEPT ![i].totp = b]
  BY DEF EnableTOTP, DisableTOTP
<1>3. UNCHANGED <<roles, editing, needsSetup, requests, serial>>
  BY DEF EnableTOTP, DisableTOTP
<1>4. PICK row : row = users[i] /\ RowFits(row, roles)
  BY RowsFit
<1>5. PICK a : a = [row EXCEPT !.totp = b]
  OBVIOUS
<1>6. RowFits(a, roles) /\ a.pw = row.pw
  BY <1>4, <1>5 DEF RowFits, AccountRow
<1>7. users' = [users EXCEPT ![i] = a]
  BY <1>2, <1>4, <1>5
<1>8. Easy
  BY <1>3, StayEasy, Usual
<1> QED
  BY <1>1, <1>3, <1>4, <1>6, <1>7, <1>8, AccountWritten DEF Apart, AccessInv, AccountsTypeOK

LEMMA CreateRoleKeeps ==
    ASSUME AccessInv, Apart, NEW list \in BOOLEAN, CreateRole(list)
    PROVE  AccessInv'
<1>1. LeftFits' /\ UNCHANGED <<users, editing, needsSetup, requests>>
  BY SpendKeeps DEF AccessInv, CreateRole
<1>2. PICK n \in Nat : n = serial.role
  BY Usual
<1>3. /\ n + 1 \in Roles
      /\ roles' = With(roles, n + 1, NewRole(list))
      /\ serial' = [serial EXCEPT !.role = n + 1]
  BY <1>2 DEF CreateRole
<1>4. /\ SerialsGrow /\ serial'.role = n + 1
      /\ serial'.user = serial.user /\ serial'.key = serial.key /\ serial'.token = serial.token
  BY <1>2, <1>3 DEF AccessInv, SerialsFit, SerialsGrow
<1>5. Easy
  BY <1>1, <1>4, StayEasy, Usual
<1>6. /\ DOMAIN roles' = DOMAIN roles \cup {n + 1} /\ roles'[n + 1] = NewRole(list)
      /\ \A r \in DOMAIN roles \ {n + 1} : roles'[r] = roles[r]
      /\ DOMAIN roles \subseteq 1..n
  BY <1>2, <1>3 DEF With, AccessInv, SerialsFit
<1>7. NewRole(list) \in RoleRow
  BY DEF NewRole, RoleRow
<1>8. n + 1 \notin DOMAIN roles /\ n + 1 \notin 1..n
  BY <1>6
<1>9. DOMAIN roles' \subseteq Roles \cap 1..serial'.role
  <2>1. 1..n \subseteq 1..(n + 1) /\ n + 1 \in 1..(n + 1)
    OBVIOUS
  <2> QED
    BY <1>3, <1>4, <1>6, <2>1 DEF AccessInv, AccountsTypeOK
<1>10. \A r \in DOMAIN roles' : /\ roles'[r] \in RoleRow
                                /\ \/ r \in DOMAIN roles /\ roles'[r].list = roles[r].list
                                   \/ r \notin 1..serial.role
  BY <1>2, <1>6, <1>7, <1>8 DEF AccessInv, RolesFit
<1>11. ASSUME NEW i \in DOMAIN users' PROVE RowFits(users[i], roles')
  BY <1>1, <1>6, <1>8, RowsFit, RowFitsStill
<1>12. /\ SuperAdminRoleID \in DOMAIN roles => SuperAdminRoleID \in DOMAIN roles'
       /\ serial.role = 0 => serial'.role = 0 \/ SuperAdminRoleID \in DOMAIN roles'
  BY <1>2, <1>6 DEF SuperAdminRoleID
<1> QED
  BY <1>1, <1>4, <1>5, <1>9, <1>10, <1>11, <1>12, AccountsLeft DEF Apart

LEMMA UpdateRoleKeeps ==
    ASSUME AccessInv, Apart, NEW r \in DOMAIN roles, UpdateRole(r)
    PROVE  AccessInv'
<1>1. LeftFits' /\ UNCHANGED <<users, editing, needsSetup, serial>>
  BY SpendKeeps DEF AccessInv, UpdateRole
<1>2. Easy
  BY <1>1, RefreshEasy, Usual DEF UpdateRole
<1>3. roles[r] \in RoleRow
  BY DEF AccessInv, RolesFit
<1>4. Permitting(roles[r]) \in RoleRow /\ Permitting(roles[r]).list = roles[r].list
  BY <1>3 DEF Permitting, RoleRow
<1>5. roles' = [roles EXCEPT ![r] = Permitting(roles[r])]
  BY DEF UpdateRole
<1>6. /\ DOMAIN roles' = DOMAIN roles
      /\ \A q \in DOMAIN roles' : roles'[q] \in RoleRow /\ roles'[q].list = roles[q].list
  BY <1>4, <1>5 DEF AccessInv, RolesFit
<1>7. ASSUME NEW i \in DOMAIN users' PROVE RowFits(users[i], roles')
  BY <1>1, <1>6, RowsFit, RowFitsStill
<1>8. DOMAIN roles' \subseteq Roles \cap 1..serial'.role
  BY <1>1, <1>6 DEF AccessInv, AccountsTypeOK, SerialsFit
<1> QED
  BY <1>1, <1>2, <1>6, <1>7, <1>8, SerialStays, AccountsLeft DEF Apart

\* A role over lists goes with the accounts that have it, another one that no account has.
LEMMA DeleteRoleKeeps ==
    ASSUME AccessInv, Apart, NEW r \in DOMAIN roles, DeleteRole(r)
    PROVE  AccessInv'
<1>1. LeftFits' /\ UNCHANGED <<editing, needsSetup, serial>>
  BY SpendKeeps DEF AccessInv, DeleteRole
<1>2. Easy
  BY <1>1, RefreshEasy, Usual DEF DeleteRole
<1>3. /\ DOMAIN roles' = DOMAIN roles \ {r} /\ r # SuperAdminRoleID
      /\ \A q \in DOMAIN roles' : roles'[q] = roles[q]
  BY DEF DeleteRole
<1>4. /\ DOMAIN users' \subseteq DOMAIN users
      /\ \A i \in DOMAIN users' : users'[i] = users[i] /\ users[i].list # r /\ users[i].role # r
  BY DEF DeleteRole, Droppable
<1>5. \A i \in DOMAIN users' : RowFits(users[i], roles')
  BY <1>3, <1>4, RowsFit DEF RowFits
<1>6. /\ DOMAIN roles' \subseteq Roles \cap 1..serial'.role
      /\ \A q \in DOMAIN roles' : roles'[q] \in RoleRow
  BY <1>1, <1>3 DEF AccessInv, AccountsTypeOK, SerialsFit, RolesFit
<1> QED
  BY <1>1, <1>2, <1>3, <1>4, <1>5, <1>6, SerialStays, AccountsLeft DEF Apart

\* Steps of accounts and roles keep the invariant.
LEMMA AccountStepKeeps ==
    ASSUME AccessInv, AccountStep
    PROVE  AccessInv'
<1>0. Apart
  <2>1. cache' = cache /\ UNCHANGED loginVars /\ tokens' = KeysOfRemaining
    BY DEF AccountStep
  <2>2. CacheStays
    BY <2>1, CacheSame DEF AccessInv
  <2> QED
    BY <2>1, <2>2 DEF Apart, KeysGo, KeysOfRemaining
<1>1. CASE \E f \in left.forms : CreateUser(f)
  BY <1>0, <1>1, CreateUserKeeps
<1>2. CASE \E f, g \in left.forms : CreateUsers(f, g)
  BY <1>0, <1>2, CreateUsersKeeps
<1>3. CASE FirstTimeSetup
  BY <1>0, <1>3, FirstTimeSetupKeeps
<1>4. CASE \E r \in DOMAIN requests : SetupDone(r)
  BY <1>0, <1>4, SetupDoneKeeps
<1>5. CASE \E f \in left.forms, own \in BOOLEAN : OpenEdit(f, own) /\ (own => SignedIn(f.user))
  BY <1>0, <1>5, OpenEditKeeps
<1>6. CASE \E e \in editing : WriteEdit(e)
  BY <1>0, <1>6, WriteEditKeeps
<1>7. CASE \E ids \in Deletions : DeleteUsers(ids)
  BY <1>0, <1>7, DeleteUsersKeeps
<1>9. CASE \E i \in DOMAIN users : SignedIn(i) /\ (EnableTOTP(i) \/ DisableTOTP(i))
  BY <1>0, <1>9, EnableTOTPKeeps
<1>10. CASE \E list \in BOOLEAN : CreateRole(list)
  BY <1>0, <1>10, CreateRoleKeeps
<1>11. CASE \E r \in DOMAIN roles : UpdateRole(r) \/ DeleteRole(r)
  BY <1>0, <1>11, UpdateRoleKeeps, DeleteRoleKeeps
<1> QED
  BY <1>1, <1>2, <1>3, <1>4, <1>5, <1>6, <1>7, <1>9, <1>10, <1>11 DEF AccountStep

\* So do the steps of profiles.
LEMMA ProfileStepKeeps ==
    ASSUME AccessInv, ProfileStep
    PROVE  AccessInv'
<1>1. UNCHANGED <<tokens, loginVars>>
  BY DEF ProfileStep
<1>2. CASE \E i \in DOMAIN users, set \in BOOLEAN :
              SignedIn(i) /\ OpenProfile(i, users[i].login \/ users[i].has, TRUE, set) /\ UNCHANGED cache
  <2>1. PICK i \in DOMAIN users, set \in BOOLEAN :
                OpenProfile(i, users[i].login \/ users[i].has, TRUE, set) /\ UNCHANGED cache
    BY <1>2
  <2>2. PICK login \in BOOLEAN, session \in BOOLEAN : login = (users[i].login \/ users[i].has) /\ session = TRUE
    OBVIOUS
  <2>3. i \in Users \cap 1..serial.user /\ OpenProfile(i, login, session, set)
    BY <2>1, <2>2, Usual
  <2> QED
    BY <1>1, <2>1, <2>3, OpenProfileKeeps DEF keyVars
<1>3. CASE \E a \in cache.apis, set \in BOOLEAN : OpenProfile(a.user, TRUE, FALSE, set) /\ UNCHANGED cache
  <2>1. PICK a \in cache.apis, set \in BOOLEAN : OpenProfile(a.user, TRUE, FALSE, set) /\ UNCHANGED cache
    BY <1>3
  <2>2. PICK login \in BOOLEAN, session \in BOOLEAN : login = TRUE /\ session = FALSE
    OBVIOUS
  <2>3. PICK i \in Users \cap 1..serial.user : i = a.user
    BY DEF AccessInv, CacheFits
  <2>4. OpenProfile(i, login, session, set)
    BY <2>1, <2>2, <2>3
  <2> QED
    BY <1>1, <2>1, <2>4, OpenProfileKeeps DEF keyVars
<1>4. CASE (\E r \in DOMAIN requests : UpdateUserProfile(r)) /\ Unread
  <2>1. CacheStays
    BY <1>4, UnreadFacts DEF AccessInv
  <2>2. PICK r : UpdateUserProfile(r)
    BY <1>4
  <2> QED
    BY <1>1, <2>1, <2>2, UpdateUserProfileKeeps
<1> QED
  BY <1>2, <1>3, <1>4 DEF ProfileStep

-----------------------------------------------------------------------------
(* Steps of logins. *)

Challenge == [user : Users, pw : Nat, tries : 0..MaxTries]
Throttles == {"login", "twofa"} \X Users
Counter == [failures : 0..MaxFailures - 1, locked : BOOLEAN]

\* The part of the types that speaks of the links, and that of the others.
LEMMA LoginTypes ==
    LoginsTypeOK <=>
        /\ \A s \in sessions : s \in [user : Users, pw : Nat, kept : BOOLEAN]
        /\ \A n \in DOMAIN challenges : challenges[n] \in Challenge
        /\ \A i \in DOMAIN links : links[i] \in [token : DOMAIN mailed, tries : 0..MaxTries]
        /\ throttle \in [Throttles -> Counter]
  BY DEF LoginsTypeOK, Challenge, Throttles, Counter

\* What is counted stays below the limit.
LEMMA CounterFacts ==
    ASSUME throttle \in [Throttles -> Counter], NEW k \in Throttles
    PROVE  Success \in Counter /\ Failure(k) \in Counter
<1>1. MaxFailures \in Nat \ {0}
  BY LoginsAssumption
<1>2. Success \in Counter
  BY <1>1 DEF Success, Counter
<1>3. PICK c \in Counter : c = throttle[k]
  OBVIOUS
<1>4. c.failures \in 0..MaxFailures - 1 /\ c.failures \in Nat
  BY <1>1 DEF Counter
<1>5. CASE c.failures + 1 >= MaxFailures
  <2>1. Failure(k) = [failures |-> 0, locked |-> TRUE]
    BY <1>3, <1>5 DEF Failure
  <2> QED
    BY <1>1, <1>2, <2>1 DEF Counter
<1>6. CASE ~(c.failures + 1 >= MaxFailures)
  <2>1. Failure(k) = [c EXCEPT !.failures = @ + 1]
    BY <1>3, <1>6 DEF Failure
  <2>2. c.failures + 1 \in 0..MaxFailures - 1
    BY <1>1, <1>4, <1>6
  <2> QED
    BY <1>2, <2>1, <2>2 DEF Counter
<1> QED
  BY <1>5, <1>6

\* A token that is looked up is counted, or gone.
LEMMA CheckedFacts ==
    ASSUME NEW f, NEW n \in DOMAIN f, f[n].tries \in 0..MaxTries
    PROVE  /\ DOMAIN Checked(f, n) \subseteq DOMAIN f
           /\ \A m \in DOMAIN Checked(f, n) :
                 \/ Checked(f, n)[m] = f[m]
                 \/ /\ m = n /\ Checked(f, n)[m] = [f[m] EXCEPT !.tries = @ + 1]
                    /\ f[m].tries + 1 \in 0..MaxTries
<1>1. f[n].tries \in Nat /\ MaxTries \in Nat
  BY LoginsAssumption
<1> QED
  BY <1>1 DEF Checked

\* Tokens, sessions and counters change, and requests go on.
LEMMA LoginEasy ==
    ASSUME AccessInv, UNCHANGED <<accountVars, keyVars>>, LeftFits', SerialsGrow,
           serial'.user = serial.user, serial'.role = serial.role, serial'.key = serial.key,
           Easy, LinksStay, sessions' \subseteq sessions,
           \A n \in DOMAIN challenges' : challenges'[n] \in Challenge,
           \A i \in DOMAIN links' : links'[i].tries \in 0..MaxTries /\ links'[i] \in [token : DOMAIN mailed, tries : Nat],
           throttle' \in [Throttles -> Counter]
    PROVE  AccessInv'
<1>1. \A s \in sessions' : s \in [user : Users, pw : Nat, kept : BOOLEAN] /\ s.user \in 1..serial.user
  BY LoginTypes DEF AccessInv, SerialsFit
<1>2. \A i \in DOMAIN links' : links'[i] \in [token : DOMAIN mailed', tries : 0..MaxTries]
  BY DEF LinksStay
<1>3. LoginsTypeOK'
  BY <1>1, <1>2 DEF LoginsTypeOK, Challenge, Throttles, Counter
<1>4. DOMAIN mailed' \subseteq 1..serial'.token
  <2>1. 1..serial.token \subseteq 1..serial'.token
    BY Usual DEF SerialsGrow
  <2> QED
    BY <2>1 DEF LinksStay, AccessInv, SerialsFit
<1>5. LinksFit'
  BY LinksKept DEF AccessInv, Easy
<1>6. LinksOnce'
  BY DEF LinksStay, LinksOnce, AccessInv
<1>7. SessionsEnd'
  BY SessionsKept DEF AccessInv, PasswordsStay, accountVars, Easy
<1> QED
  <2>1. UNCHANGED <<accountVars, tokens>> /\ CacheStays
    BY CacheSame DEF AccessInv, keyVars
  <2> QED
    BY <1>1, <1>3, <1>4, <1>5, <1>6, <1>7, <2>1, LoginFrame DEF Easy, Orderly

\* What is not touched fits.
LEMMA TokensFit ==
    ASSUME AccessInv
    PROVE  /\ \A n \in DOMAIN challenges : challenges[n] \in Challenge
           /\ \A i \in DOMAIN links : /\ links[i].tries \in 0..MaxTries
                                      /\ links[i] \in [token : DOMAIN mailed, tries : Nat]
           /\ throttle \in [Throttles -> Counter]
<1>1. LoginsTypeOK
  BY DEF AccessInv
<1>2. \A i \in DOMAIN links : links[i] \in [token : DOMAIN mailed, tries : 0..MaxTries]
  BY <1>1, LoginTypes
<1>3. 0..MaxTries \subseteq Nat
  BY LoginsAssumption
<1> QED
  BY <1>1, <1>2, <1>3, LoginTypes

\* A request begins with a session, or a link that is opened.
LEMMA LoginBegins ==
    ASSUME AccessInv, serial'.user = serial.user, NEW step \in {"session", "consume"}, NEW i \in DOMAIN users,
           NEW pw \in Nat, NEW link, Begin(<<step>>, i, pw, link)
    PROVE  Easy
<1>1. PICK todo \in Plans : todo = <<step>> /\ todo[1] # "reset"
  <2>1. <<"session">> \in Plans /\ <<"consume">> \in Plans
    BY DEF Plans, SessionPlans
  <2> QED
    BY <2>1
<1>2. i \in Users /\ i \in Nat /\ i <= serial.user
  BY Usual
<1>3. Begin(todo, i, pw, link)
  BY <1>1
<1> QED
  BY <1>1, <1>2, <1>3, BeginEasy, Usual

LEMMA ChallengedFits ==
    ASSUME AccessInv, NEW i \in Users, NEW pw \in Nat
    PROVE  \A n \in DOMAIN Challenged(i, pw) : Challenged(i, pw)[n] \in Challenge
<1>1. [user |-> i, pw |-> pw, tries |-> 0] \in Challenge
  BY LoginsAssumption DEF Challenge
<1> QED
  BY <1>1, TokensFit DEF Challenged, With

\* The sequence of tokens goes on.
LEMMA TokenDrawn ==
    ASSUME AccessInv, serial' = [serial EXCEPT !.token = NextToken]
    PROVE  /\ SerialsGrow /\ serial'.user = serial.user /\ serial'.role = serial.role
           /\ serial'.key = serial.key /\ serial'.token = serial.token + 1
  BY DEF AccessInv, SerialsFit, SerialsGrow, NextToken

LEMMA LoginKeeps ==
    ASSUME AccessInv, NEW i \in DOMAIN users, Login(i)
    PROVE  AccessInv'
<1>1. LeftFits' /\ UNCHANGED <<accountVars, keyVars, sessions, links, mailed>>
  BY SpendKeeps DEF AccessInv, Login, keyVars
<1>2. i \in Users /\ users[i] \in AccountRow
  BY Usual DEF AccessInv, AccountsTypeOK
<1>3. PICK pw \in Nat : pw = users[i].pw
  BY <1>2 DEF AccountRow
<1>4. throttle' \in [Throttles -> Counter]
  <2>1. <<"login", i>> \in Throttles
    BY <1>2 DEF Throttles
  <2> QED
    BY <2>1, CounterFacts, TokensFit DEF Login
<1>5. CASE users[i].totp
  <2>1. challenges' = Challenged(i, pw) /\ serial' = [serial EXCEPT !.token = NextToken] /\ UNCHANGED requests
    BY <1>3, <1>5 DEF Login
  <2>2. \A n \in DOMAIN challenges' : challenges'[n] \in Challenge
    BY <1>2, <2>1, ChallengedFits
  <2>3. /\ SerialsGrow /\ serial'.user = serial.user /\ serial'.role = serial.role /\ serial'.key = serial.key
    BY <2>1, TokenDrawn
  <2>4. Easy
    BY <2>1, <2>3, StayEasy, Usual
  <2> QED
    BY <1>1, <1>4, <2>2, <2>3, <2>4, TokensFit, LoginEasy DEF LinksStay
<1>6. CASE ~users[i].totp
  <2>1. Begin(<<"session">>, i, pw, 0) /\ UNCHANGED <<challenges, serial>> /\ 0 \in Nat
    BY <1>3, <1>6 DEF Login
  <2>2. PICK step \in {"session", "consume"} : step = "session"
    OBVIOUS
  <2>3. Easy
    BY <2>1, <2>2, LoginBegins
  <2> QED
    BY <1>1, <1>4, <2>1, <2>3, TokensFit, SerialStays, LoginEasy DEF LinksStay
<1> QED
  BY <1>5, <1>6

LEMMA WrongPasswordKeeps ==
    ASSUME AccessInv, NEW i \in DOMAIN users, WrongPassword(i)
    PROVE  AccessInv'
<1>1. LeftFits' /\ UNCHANGED <<accountVars, keyVars, requests, serial, sessions, challenges, links, mailed>>
  BY SpendKeeps DEF AccessInv, WrongPassword, keyVars
<1>2. throttle' \in [Throttles -> Counter]
  <2>1. <<"login", i>> \in Throttles
    BY Usual DEF Throttles
  <2> QED
    BY <2>1, CounterFacts, TokensFit DEF WrongPassword
<1>3. Easy
  BY <1>1, StayEasy, Usual
<1> QED
  BY <1>1, <1>2, <1>3, TokensFit, SerialStays, LoginEasy DEF LinksStay

LEMMA OIDCFinishKeeps ==
    ASSUME AccessInv, NEW i \in DOMAIN users, OIDCFinish(i)
    PROVE  AccessInv'
<1>1. LeftFits' /\ UNCHANGED <<accountVars, keyVars, serial, sessions, challenges, links, mailed, throttle>>
  BY SpendKeeps DEF AccessInv, OIDCFinish, keyVars, loginVars
<1>2. users[i] \in AccountRow
  BY DEF AccessInv, AccountsTypeOK
<1>3. PICK pw \in Nat : pw = users[i].pw
  BY <1>2 DEF AccountRow
<1>4. PICK step \in {"session", "consume"} : step = "session"
  OBVIOUS
<1>5. Begin(<<step>>, i, pw, 0) /\ 0 \in Nat
  BY <1>3, <1>4 DEF OIDCFinish
<1>6. Easy
  BY <1>1, <1>5, LoginBegins
<1> QED
  BY <1>1, <1>6, TokensFit, SerialStays, LoginEasy DEF LinksStay

LEMMA LogoutKeeps ==
    ASSUME AccessInv, NEW s \in sessions, Logout(s)
    PROVE  AccessInv'
<1>1. /\ LeftFits' /\ UNCHANGED <<accountVars, keyVars, requests, serial, challenges, links, mailed, throttle>>
      /\ sessions' \subseteq sessions
  BY SpendKeeps DEF AccessInv, Logout, keyVars
<1>2. Easy
  BY <1>1, StayEasy, Usual
<1> QED
  BY <1>1, <1>2, TokensFit, SerialStays, LoginEasy DEF LinksStay

LEMMA ThrottleEndsKeeps ==
    ASSUME AccessInv, NEW k \in DOMAIN throttle, ThrottleEnds(k)
    PROVE  AccessInv'
<1>1. LeftFits' /\ UNCHANGED <<accountVars, keyVars, requests, serial, sessions, challenges, links, mailed>>
  BY SpendKeeps DEF AccessInv, ThrottleEnds, keyVars
<1>2. throttle' \in [Throttles -> Counter]
  BY CounterFacts, TokensFit DEF ThrottleEnds
<1>3. Easy
  BY <1>1, StayEasy, Usual
<1> QED
  BY <1>1, <1>2, <1>3, TokensFit, SerialStays, LoginEasy DEF LinksStay

\* An account that the provider vouched for is a new one.
LEMMA CreateOIDCUserKeeps ==
    ASSUME AccessInv, NEW role \in DOMAIN roles, NEW list, CreateOIDCUser(role, list)
    PROVE  AccessInv'
<1>1. LeftFits' /\ UNCHANGED <<roles, editing, needsSetup, keyVars, loginVars>>
  BY SpendKeeps DEF AccessInv, CreateOIDCUser
<1>2. PICK n \in Users : n = NextUser /\ n = serial.user + 1 /\ n \in Nat
  BY Usual DEF CreateOIDCUser, NextUser
<1>3. /\ SerialsGrow /\ serial'.user = n
      /\ serial'.role = serial.role /\ serial'.key = serial.key /\ serial'.token = serial.token
  BY <1>2, UsersDrawn, Usual DEF CreateOIDCUser
<1>4. PICK todo \in Plans : todo = <<"session">> /\ todo[1] # "reset"
  <2>1. <<"session">> \in Plans
    BY DEF Plans, SessionPlans
  <2> QED
    BY <2>1
<1>5. Begin(todo, n, 1, 0) /\ 1 \in Nat /\ 0 \in Nat
  BY <1>2, <1>4 DEF CreateOIDCUser
<1>a. n \in Nat /\ n <= serial'.user /\ serial'.user \in Nat /\ serial.user <= serial'.user
  BY <1>2, <1>3, Usual
<1>6. Easy
  BY <1>2, <1>4, <1>5, <1>a, BeginEasy, Usual
<1>7. PICK f : f = [api |-> FALSE, enabled |-> TRUE, role |-> role, list |-> list, login |-> FALSE]
  OBVIOUS
<1>8. f.api \in BOOLEAN /\ f.enabled \in BOOLEAN /\ f.login \in BOOLEAN /\ f.role = role
  BY <1>7
<1>9. RowFits(Account(f), roles)
  BY <1>8, AccountFits DEF CreateOIDCUser
<1>10. /\ \A i \in DOMAIN users : users'[i] = users[i]
       /\ \A i \in DOMAIN users' \ DOMAIN users : i = n /\ users'[i] = Account(f)
       /\ DOMAIN users \subseteq DOMAIN users'
  BY <1>2, <1>7, Usual DEF CreateOIDCUser, With
<1>11. \A i \in DOMAIN users' \ DOMAIN users :
          i \in Users /\ i > serial.user /\ i <= serial'.user /\ RowFits(users'[i], roles)
  BY <1>2, <1>3, <1>9, <1>10, Usual
<1>12. KeysGo
  BY <1>1, <1>10, CacheSame DEF KeysGo, AccessInv, KeysTypeOK, keyVars
<1> QED
  BY <1>1, <1>3, <1>6, <1>10, <1>11, <1>12, AccountsAdded

\* A challenge that is looked up is one still.
LEMMA ChallengeChecked ==
    ASSUME AccessInv, NEW n \in DOMAIN challenges, challenges' = Checked(challenges, n)
    PROVE  \A m \in DOMAIN challenges' : challenges'[m] \in Challenge
<1>1. challenges[n].tries \in 0..MaxTries
  BY TokensFit DEF Challenge
<1> SUFFICES ASSUME NEW m \in DOMAIN challenges' PROVE challenges'[m] \in Challenge
  OBVIOUS
<1>2. m \in DOMAIN challenges
  BY <1>1, CheckedFacts
<1>3. PICK c \in Challenge : c = challenges[m]
  BY <1>2, TokensFit
<1>4. CASE challenges'[m] = c
  BY <1>4
<1>5. CASE challenges'[m] = [c EXCEPT !.tries = @ + 1] /\ c.tries + 1 \in 0..MaxTries
  BY <1>3, <1>5 DEF Challenge
<1> QED
  BY <1>1, <1>3, <1>4, <1>5, CheckedFacts

LEMMA VerifyCodeKeeps ==
    ASSUME AccessInv, NEW n \in DOMAIN challenges, VerifyCode(n)
    PROVE  AccessInv'
<1>1. LeftFits' /\ UNCHANGED <<accountVars, keyVars, serial, sessions, links, mailed>>
  BY SpendKeeps DEF AccessInv, VerifyCode, keyVars
<1>2. \A m \in DOMAIN challenges' : challenges'[m] \in Challenge
  BY ChallengeChecked DEF VerifyCode
<1>3. PICK c \in Challenge : c = challenges[n] /\ c.user \in Users /\ c.pw \in Nat
  BY TokensFit DEF Challenge
<1>4. CASE UNCHANGED <<throttle, requests>>
  <2>1. Easy
    BY <1>1, <1>4, StayEasy, Usual
  <2> QED
    BY <1>1, <1>2, <1>4, <2>1, TokensFit, SerialStays, LoginEasy DEF LinksStay
<1>5. CASE /\ Exists(c.user)
           /\ throttle' = [throttle EXCEPT ![<<"twofa", c.user>>] = Success]
           /\ Begin(<<"session">>, c.user, c.pw, n)
  <2>1. PICK i \in DOMAIN users, pw \in Nat : i = c.user /\ pw = c.pw
    BY <1>3, <1>5 DEF Exists
  <2>2. PICK step \in {"session", "consume"} : step = "session"
    OBVIOUS
  <2>3. Begin(<<step>>, i, pw, n)
    BY <1>5, <2>1, <2>2
  <2>4. Easy
    BY <1>1, <2>3, LoginBegins
  <2>5. throttle' \in [Throttles -> Counter]
    <3>1. <<"twofa", c.user>> \in Throttles
      BY <1>3 DEF Throttles
    <3> QED
      BY <1>5, <3>1, CounterFacts, TokensFit
  <2> QED
    BY <1>1, <1>2, <2>4, <2>5, TokensFit, SerialStays, LoginEasy DEF LinksStay
<1> QED
  BY <1>3, <1>4, <1>5 DEF VerifyCode

LEMMA WrongCodeKeeps ==
    ASSUME AccessInv, NEW n \in DOMAIN challenges, WrongCode(n)
    PROVE  AccessInv'
<1>1. LeftFits' /\ UNCHANGED <<accountVars, keyVars, requests, serial, sessions, links, mailed>>
  BY SpendKeeps DEF AccessInv, WrongCode, keyVars
<1>2. \A m \in DOMAIN challenges' : challenges'[m] \in Challenge
  BY ChallengeChecked DEF WrongCode
<1>3. PICK k \in Throttles : k = <<"twofa", challenges[n].user>>
  <2>1. challenges[n].user \in Users
    BY TokensFit DEF Challenge
  <2> QED
    BY <2>1 DEF Throttles
<1>4. throttle' = [throttle EXCEPT ![k] = Failure(k)] \/ throttle' = throttle
  BY <1>3 DEF WrongCode
<1>5. throttle' \in [Throttles -> Counter]
  BY <1>4, CounterFacts, TokensFit
<1>6. Easy
  BY <1>1, StayEasy, Usual
<1> QED
  BY <1>1, <1>2, <1>5, <1>6, TokensFit, SerialStays, LoginEasy DEF LinksStay

\* A link that is looked up is the same.
LEMMA LinkChecked ==
    ASSUME AccessInv, NEW i \in DOMAIN links, links' = Checked(links, i), UNCHANGED mailed
    PROVE  /\ LinksStay
           /\ \A j \in DOMAIN links' : /\ links'[j].tries \in 0..MaxTries
                                       /\ links'[j] \in [token : DOMAIN mailed, tries : Nat]
<1>1. links[i].tries \in 0..MaxTries
  BY TokensFit
<1>2. DOMAIN links' \subseteq DOMAIN links
  BY <1>1, CheckedFacts
<1>3. ASSUME NEW j \in DOMAIN links'
      PROVE  /\ links'[j].token = links[j].token
             /\ links'[j].tries \in 0..MaxTries /\ links'[j] \in [token : DOMAIN mailed, tries : Nat]
  <2>1. PICK k : /\ k = links[j] /\ k.tries \in 0..MaxTries /\ k \in [token : DOMAIN mailed, tries : Nat]
    BY <1>2, TokensFit
  <2>2. CASE links'[j] = k
    BY <2>1, <2>2
  <2>3. CASE links'[j] = [k EXCEPT !.tries = @ + 1] /\ k.tries + 1 \in 0..MaxTries
    BY <2>1, <2>3
  <2> QED
    BY <1>1, <2>1, <2>2, <2>3, CheckedFacts
<1> QED
  BY <1>2, <1>3 DEF LinksStay

LEMMA OpenLinkKeeps ==
    ASSUME AccessInv, NEW n \in DOMAIN mailed, NEW set \in BOOLEAN, OpenLink(n, set)
    PROVE  AccessInv'
<1>1. LeftFits' /\ UNCHANGED <<accountVars, keyVars, serial, sessions, challenges, mailed, throttle>>
  BY SpendKeeps DEF AccessInv, OpenLink, keyVars
<1>2. PICK i \in DOMAIN links : i = mailed[n].user /\ links' = Checked(links, i)
  BY DEF OpenLink
<1>3. /\ LinksStay
      /\ \A j \in DOMAIN links' : /\ links'[j].tries \in 0..MaxTries
                                  /\ links'[j] \in [token : DOMAIN mailed, tries : Nat]
  BY <1>1, <1>2, LinkChecked
<1>4. CASE UNCHANGED requests
  <2>1. Easy
    BY <1>1, <1>4, StayEasy, Usual
  <2> QED
    BY <1>1, <1>3, <2>1, TokensFit, SerialStays, LoginEasy
<1>5. CASE i \in DOMAIN users /\ Begin(<<"consume">>, i, 0, n)
  <2>1. PICK step \in {"session", "consume"} : step = "consume"
    OBVIOUS
  <2>2. Begin(<<step>>, i, 0, n) /\ 0 \in Nat
    BY <1>5, <2>1
  <2>3. Easy
    BY <1>1, <1>5, <2>2, LoginBegins
  <2> QED
    BY <1>1, <1>3, <2>3, TokensFit, SerialStays, LoginEasy
<1> QED
  BY <1>2, <1>4, <1>5 DEF OpenLink, Exists

LEMMA TokenExpiresKeeps ==
    ASSUME AccessInv, TokenExpires
    PROVE  AccessInv'
<1>1. LeftFits' /\ UNCHANGED <<accountVars, keyVars, requests, serial, sessions, mailed, throttle>>
  BY SpendKeeps DEF AccessInv, TokenExpires, keyVars
<1>2. Easy
  BY <1>1, StayEasy, Usual
<1>3. CASE \E n \in DOMAIN challenges : challenges' = [m \in DOMAIN challenges \ {n} |-> challenges[m]]
                                        /\ UNCHANGED links
  <2>1. \A m \in DOMAIN challenges' : challenges'[m] \in Challenge
    BY <1>3, TokensFit
  <2> QED
    BY <1>1, <1>2, <1>3, <2>1, TokensFit, SerialStays, LoginEasy DEF LinksStay
<1>4. CASE \E i \in DOMAIN links : links' = WithoutLink(i) /\ UNCHANGED challenges
  <2>1. /\ DOMAIN links' \subseteq DOMAIN links
        /\ \A j \in DOMAIN links' : links'[j] = links[j]
    BY <1>4 DEF WithoutLink
  <2>2. LinksStay
    BY <1>1, <2>1 DEF LinksStay
  <2> QED
    BY <1>1, <1>2, <1>4, <2>1, <2>2, TokensFit, SerialStays, LoginEasy
<1> QED
  BY <1>3, <1>4 DEF TokenExpires

\* A code is asked for after the password was set.
LEMMA IssueChallengeKeeps ==
    ASSUME AccessInv, NEW r, IssueChallenge(r)
    PROVE  AccessInv'
<1>1. /\ UNCHANGED <<accountVars, keyVars, sessions, links, mailed, throttle>> /\ LeftFits'
      /\ At(r, "challenge") /\ Continue(r, requests[r])
  BY DEF AccessInv, IssueChallenge, keyVars, LeftFits
<1>2. PICK q : q = requests[r] /\ Fits(q, serial.user) /\ Planned(q.todo) /\ q.todo[1] = "challenge"
  BY <1>1, AtFacts, Usual
<1>3. q.user \in Users /\ q.pw \in Nat
  BY <1>2, FitsFacts, Usual DEF Renewals
<1>4. \A n \in DOMAIN challenges' : challenges'[n] \in Challenge
  BY <1>2, <1>3, ChallengedFits DEF IssueChallenge
<1>5. SerialsGrow /\ serial'.user = serial.user /\ serial'.role = serial.role /\ serial'.key = serial.key
  BY TokenDrawn DEF IssueChallenge
<1>6. PICK step : step = "challenge"
  OBVIOUS
<1>7. Easy
  BY <1>1, <1>2, <1>5, <1>6, RefreshStepEasy
<1> QED
  BY <1>1, <1>4, <1>5, <1>7, TokensFit, LoginEasy DEF LinksStay

\* A link is sent; the one before it no longer sets a password.
LEMMA ForgotPasswordKeeps ==
    ASSUME AccessInv, NEW i \in DOMAIN users, ForgotPassword(i)
    PROVE  AccessInv'
<1>1. LeftFits' /\ UNCHANGED <<accountVars, keyVars, requests, sessions, challenges, throttle>>
  BY SpendKeeps DEF AccessInv, ForgotPassword, keyVars
<1>2. PICK n \in Nat : n = NextToken /\ n = serial.token + 1
  BY Usual DEF NextToken
<1>3. /\ links' = With(links, i, [token |-> n, tries |-> 0])
      /\ mailed' = With(mailed, n, [user |-> i, sets |-> 0])
      /\ serial' = [serial EXCEPT !.token = NextToken]
  BY <1>2 DEF ForgotPassword
<1>4. /\ SerialsGrow /\ serial'.user = serial.user /\ serial'.role = serial.role
      /\ serial'.key = serial.key /\ serial'.token = n
  BY <1>2, <1>3, TokenDrawn
<1>5. DOMAIN mailed \subseteq 1..serial.token /\ n \notin DOMAIN mailed
  BY <1>2, Usual DEF AccessInv, SerialsFit
<1>6. /\ DOMAIN mailed' = DOMAIN mailed \cup {n} /\ mailed'[n] = [user |-> i, sets |-> 0]
      /\ \A m \in DOMAIN mailed : mailed'[m] = mailed[m]
  BY <1>3, <1>5 DEF With
<1>7. /\ DOMAIN links' = DOMAIN links \cup {i} /\ links'[i] = [token |-> n, tries |-> 0]
      /\ \A j \in DOMAIN links \ {i} : links'[j] = links[j]
  BY <1>3 DEF With
<1>8. Easy
  BY <1>1, <1>4, StayEasy, Usual
<1>9. LoginsTypeOK'
  <2>1. ASSUME NEW j \in DOMAIN links' PROVE links'[j] \in [token : DOMAIN mailed', tries : 0..MaxTries]
    <3>1. CASE j = i
      BY <1>6, <1>7, <3>1, LoginsAssumption
    <3>2. CASE j # i
      <4>1. links'[j] = links[j] /\ links[j] \in [token : DOMAIN mailed, tries : 0..MaxTries]
        BY <1>7, <3>2, LoginTypes DEF AccessInv
      <4> QED
        BY <1>6, <4>1
    <3> QED
      BY <3>1, <3>2
  <2>2. /\ \A s \in sessions : s \in [user : Users, pw : Nat, kept : BOOLEAN]
        /\ \A m \in DOMAIN challenges : challenges[m] \in Challenge
        /\ throttle \in [Throttles -> Counter]
    BY LoginTypes DEF AccessInv
  <2> QED
    BY <1>1, <2>1, <2>2 DEF LoginsTypeOK, Challenge, Throttles, Counter
<1>10. DOMAIN mailed' \subseteq 1..serial'.token
  <2>1. 1..serial.token \subseteq 1..n /\ n \in 1..n
    BY <1>2, Usual
  <2> QED
    BY <1>4, <1>5, <1>6, <2>1
<1>11. LinksFit'
  <2>1. \A m \in DOMAIN mailed' : mailed'[m] \in [user : Users, sets : Nat]
    BY <1>6, Usual DEF AccessInv, LinksFit
  <2>2. ASSUME NEW j \in DOMAIN links'
        PROVE  mailed'[links'[j].token].user = j /\ mailed'[links'[j].token].sets = 0
    <3>1. CASE j = i
      BY <1>6, <1>7, <3>1
    <3>2. CASE j # i
      BY <1>6, <1>7, <3>2, TokensFit DEF AccessInv, LinksFit
    <3> QED
      BY <3>1, <3>2
  <2>3. ASSUME NEW r \in DOMAIN requests', Resets(requests'[r])
        PROVE  /\ requests'[r].link \in DOMAIN mailed' /\ mailed'[requests'[r].link].sets = 0
               /\ \A j \in DOMAIN links' : links'[j].token # requests'[r].link
               /\ \A q \in DOMAIN requests' :
                     Resets(requests'[q]) /\ requests'[q].link = requests'[r].link => q = r
    <3>1. /\ requests[r].link \in DOMAIN mailed /\ mailed[requests[r].link].sets = 0
          /\ \A j \in DOMAIN links : links[j].token # requests[r].link
          /\ \A q \in DOMAIN requests : Resets(requests[q]) /\ requests[q].link = requests[r].link => q = r
      BY <1>1, <2>3 DEF AccessInv, LinksFit
    <3>2. requests[r].link # n
      BY <1>5, <3>1
    <3> QED
      BY <1>1, <1>6, <1>7, <3>1, <3>2
  <2> QED
    BY <2>1, <2>2, <2>3 DEF LinksFit
<1>12. LinksOnce'
  BY <1>6 DEF AccessInv, LinksOnce
<1>13. SessionsEnd'
  BY <1>1, <1>8, SessionsKept DEF AccessInv, PasswordsStay, accountVars, Easy
<1>14. UNCHANGED <<accountVars, tokens>> /\ CacheStays
  BY <1>1, CacheSame DEF AccessInv, keyVars
<1> QED
  BY <1>1, <1>4, <1>8, <1>9, <1>10, <1>11, <1>12, <1>13, <1>14, LoginFrame
     DEF Easy, Orderly, AccessInv, SerialsFit

-----------------------------------------------------------------------------
(* Sessions. *)

\* The sessions that outlive their password are marked.
LEMMA KeepFacts ==
    ASSUME NEW S, \A s \in S : s \in [user : Users, pw : Nat, kept : BOOLEAN]
    PROVE  \A t \in Keep(S) :
              /\ t \in [user : Users, pw : Nat, kept : BOOLEAN]
              /\ Outdated(t) => t.kept
              /\ \E s \in S : s.user = t.user
<1> SUFFICES ASSUME NEW s \in S
             PROVE  LET t == [s EXCEPT !.kept = @ \/ Outdated(s)]
                    IN  /\ t \in [user : Users, pw : Nat, kept : BOOLEAN]
                        /\ Outdated(t) => t.kept
                        /\ s.user = t.user
  BY DEF Keep
<1>1. PICK b \in BOOLEAN : b = (s.kept \/ Outdated(s))
  <2>1. (s.kept \/ Outdated(s)) \in BOOLEAN
    OBVIOUS
  <2> QED
    BY <2>1
<1>2. PICK t : t = [s EXCEPT !.kept = b]
  OBVIOUS
<1>3. t \in [user : Users, pw : Nat, kept : BOOLEAN] /\ t.user = s.user /\ t.pw = s.pw /\ t.kept = b
  BY <1>2
<1>4. Outdated(t) <=> Outdated(s)
  BY <1>3 DEF Outdated, Exists
<1>5. t = [s EXCEPT !.kept = @ \/ Outdated(s)]
  BY <1>1, <1>2
<1> QED
  BY <1>1, <1>3, <1>4, <1>5

\* Requests that start no reset go on, with sessions that are ended, stored or kept.
LEMMA SessionsFrame ==
    ASSUME AccessInv, UNCHANGED <<accountVars, tokens, serial, links, mailed, throttle>>, CacheStays,
           LeftFits', Orderly,
           \A n \in DOMAIN challenges' : challenges'[n] \in Challenge,
           \A s \in sessions' : /\ s \in [user : Users, pw : Nat, kept : BOOLEAN]
                                /\ s.user \in 1..serial.user
                                /\ Outdated(s) => s.kept \/ Ending(s.user)'
    PROVE  AccessInv'
<1>1. SerialsGrow
  BY SerialStays
<1>2. LoginsTypeOK'
  <2>1. /\ \A i \in DOMAIN links' : links'[i] \in [token : DOMAIN mailed', tries : 0..MaxTries]
        /\ throttle' \in [Throttles -> Counter]
    BY LoginTypes DEF AccessInv
  <2> QED
    BY <2>1 DEF LoginsTypeOK, Challenge, Throttles, Counter
<1>3. LinksFit'
  BY LinksKept DEF AccessInv, LinksStay
<1>4. LinksOnce'
  BY DEF AccessInv, LinksOnce
<1>5. SessionsEnd'
  BY DEF SessionsEnd, Outdated, Exists, accountVars
<1>6. DOMAIN mailed' \subseteq 1..serial'.token
  BY DEF AccessInv, SerialsFit
<1> QED
  BY <1>1, <1>2, <1>3, <1>4, <1>5, <1>6, LoginFrame DEF Orderly

\* A request that gives up leaves the others alone, and the cache but for its mark.
LEMMA GiveUpFacts ==
    ASSUME AccessInv, NEW r \in DOMAIN requests, GiveUp(r), serial' = serial
    PROVE  /\ Orderly /\ CacheStays
           /\ \A i : Ending(i) /\ (i # requests[r].user \/ \A n \in DOMAIN requests[r].todo :
                                                          requests[r].todo[n] # "destroy") => Ending(i)'
<1>1. /\ DOMAIN requests' = DOMAIN requests \ {r}
      /\ \A q \in DOMAIN requests' : requests'[q] = requests[q]
  BY DEF GiveUp, End
<1>2. Orderly
  BY <1>1, FitsLater, Usual DEF RequestsFit, Orderly
<1>3. CacheStays
  <2>1. PICK b \in BOOLEAN :
            b = (cache.alone /\ \A n \in DOMAIN requests[r].todo : requests[r].todo[n] # "cacheKeys")
    BY DEF AccessInv, CacheFits, Cached
  <2>2. cache' = [cache EXCEPT !.alone = b]
    BY <2>1 DEF GiveUp
  <2> QED
    BY <2>2 DEF CacheStays, AccessInv, CacheFits, Cached
<1>4. ASSUME NEW i, Ending(i), \/ i # requests[r].user
                               \/ \A n \in DOMAIN requests[r].todo : requests[r].todo[n] # "destroy"
      PROVE  Ending(i)'
  BY <1>1, <1>4 DEF Ending
<1> QED
  BY <1>2, <1>3, <1>4

\* Sessions are ended, or the attempt failed or was not reached and leaves those of an earlier
\* password marked.
LEMMA DestroyUserSessionsKeeps ==
    ASSUME AccessInv, NEW r, DestroyUserSessions(r) \/ FailToDestroy(r) \/ FailReread(r)
    PROVE  AccessInv'
<1>1. /\ UNCHANGED <<accountVars, tokens, serial, challenges, links, mailed, throttle>>
      /\ At(r, "destroy")
      /\ (cache' = cache /\ Continue(r, requests[r])) \/ GiveUp(r)
  BY DEF DestroyUserSessions, FailToDestroy, FailReread, keyVars
<1>2. LeftFits'
  BY SpendKeeps DEF AccessInv, DestroyUserSessions, FailToDestroy, FailReread, LeftFits
<1>3. PICK q : q = requests[r] /\ Fits(q, serial.user)
  BY <1>1, AtFacts, Usual
<1>4. r \in DOMAIN requests
  BY <1>1 DEF At
<1>5. /\ Orderly /\ CacheStays
      /\ \A i : Ending(i) /\ i # q.user => Ending(i)'
  <2>1. CASE cache' = cache /\ Continue(r, requests[r])
    BY <1>1, <1>3, <1>4, <2>1, ContinueFacts, CacheSame, Usual DEF AccessInv
  <2>2. CASE GiveUp(r)
    BY <1>1, <1>3, <1>4, <2>2, GiveUpFacts
  <2> QED
    BY <1>1, <2>1, <2>2
<1>6. \A s \in sessions : /\ s \in [user : Users, pw : Nat, kept : BOOLEAN]
                          /\ s.user \in 1..serial.user
                          /\ Outdated(s) => s.kept \/ Ending(s.user)
  BY LoginTypes DEF AccessInv, SerialsFit, SessionsEnd
<1>7. PICK S : S = {s \in sessions : s.user = q.user}
  OBVIOUS
<1>8. \A t \in Keep(S) :
          /\ t \in [user : Users, pw : Nat, kept : BOOLEAN] /\ t.user \in 1..serial.user
          /\ Outdated(t) => t.kept
  BY <1>6, <1>7, KeepFacts
<1>9. \A s \in sessions' : s \in Keep(S) \/ (s \in sessions /\ s.user # q.user)
  <2>1. CASE DestroyUserSessions(r)
    BY <1>3, <2>1 DEF DestroyUserSessions
  <2>2. CASE FailToDestroy(r) \/ FailReread(r)
    BY <1>3, <1>7, <2>2 DEF FailToDestroy, FailReread, Outlive
  <2> QED
    BY <2>1, <2>2
<1>10. \A s \in sessions' : /\ s \in [user : Users, pw : Nat, kept : BOOLEAN]
                            /\ s.user \in 1..serial.user
                            /\ Outdated(s) => s.kept \/ Ending(s.user)'
  BY <1>5, <1>6, <1>8, <1>9
<1> QED
  BY <1>1, <1>2, <1>5, <1>10, TokensFit, SessionsFrame

\* A login that was checked before is stored: the sessions are ended later, or it is marked. Or it
\* is not stored.
LEMMA SaveSessionKeeps ==
    ASSUME AccessInv, NEW r, SaveSession(r) \/ FailToSave(r)
    PROVE  AccessInv'
<1>1. /\ UNCHANGED <<accountVars, tokens, serial, links, mailed, throttle>>
      /\ At(r, "session")
      /\ (cache' = cache /\ Continue(r, requests[r])) \/ GiveUp(r)
  BY DEF SaveSession, FailToSave, keyVars
<1>2. LeftFits'
  BY SpendKeeps DEF AccessInv, LeftFits, SaveSession, FailToSave
<1>3. PICK q : q = requests[r] /\ Fits(q, serial.user) /\ Planned(q.todo) /\ q.todo[1] = "session"
  BY <1>1, AtFacts, Usual
<1>4. r \in DOMAIN requests
  BY <1>1 DEF At
<1>5. /\ Orderly /\ CacheStays
      /\ \A i : Ending(i) => Ending(i)'
  <2>1. CASE cache' = cache /\ Continue(r, requests[r])
    BY <1>1, <1>3, <1>4, <2>1, ContinueFacts, CacheSame, Usual DEF AccessInv
  <2>2. CASE GiveUp(r)
    <3>1. \A n \in DOMAIN requests[r].todo : requests[r].todo[n] # "destroy"
      BY <1>3 DEF Planned
    <3> QED
      BY <1>1, <1>4, <2>2, <3>1, GiveUpFacts
  <2> QED
    BY <1>1, <2>1, <2>2
<1>6. q.user \in Users /\ q.pw \in Nat /\ q.user \in 0..serial.user
  BY <1>3, FitsFacts, Usual DEF Renewals
<1>a. q.user \in 1..serial.user
  BY <1>6, AccountsAssumption, Usual
<1>7. PICK s : s = [user |-> q.user, pw |-> q.pw, kept |-> FALSE]
  OBVIOUS
<1>8. s \in [user : Users, pw : Nat, kept : BOOLEAN] /\ s.user = q.user
  BY <1>6, <1>7
<1>9. \A t \in Keep({s}) : /\ t \in [user : Users, pw : Nat, kept : BOOLEAN]
                           /\ Outdated(t) => t.kept
                           /\ t.user = q.user
  BY <1>8, KeepFacts
<1>10. \A t \in sessions' : t \in sessions \/ (t = s /\ Ending(q.user)) \/ t \in Keep({s})
  BY <1>3, <1>7 DEF SaveSession, FailToSave
<1>11. \A t \in sessions : /\ t \in [user : Users, pw : Nat, kept : BOOLEAN]
                           /\ t.user \in 1..serial.user
                           /\ Outdated(t) => t.kept \/ Ending(t.user)
  BY LoginTypes DEF AccessInv, SerialsFit, SessionsEnd
<1>12. \A t \in sessions' : /\ t \in [user : Users, pw : Nat, kept : BOOLEAN]
                            /\ t.user \in 1..serial.user
                            /\ Outdated(t) => t.kept \/ Ending(t.user)'
  BY <1>5, <1>a, <1>8, <1>9, <1>10, <1>11
<1>13. \A n \in DOMAIN challenges' : challenges'[n] \in Challenge
  BY TokensFit DEF SaveSession, FailToSave
<1> QED
  BY <1>1, <1>2, <1>5, <1>12, <1>13, SessionsFrame

-----------------------------------------------------------------------------
(* Reset links. *)

\* One request takes the link from the store, and carries it until the password is set.
LEMMA ConsumeLinkKeeps ==
    ASSUME AccessInv, NEW r, ConsumeLink(r)
    PROVE  AccessInv'
<1>1. /\ UNCHANGED <<accountVars, keyVars, serial, left, sessions, challenges, mailed, throttle>>
      /\ At(r, "consume")
  BY DEF ConsumeLink, keyVars
<1>2. LeftFits'
  BY <1>1 DEF AccessInv, LeftFits
<1>3. PICK q : q = requests[r] /\ Fits(q, serial.user) /\ Planned(q.todo) /\ q.todo[1] = "consume"
  BY <1>1, AtFacts, Usual
<1>4. r \in DOMAIN requests
  BY <1>1 DEF At
<1>5. PICK i \in Users : i = q.user
  BY <1>3, FitsFacts, Usual DEF Renewals
<1>6. /\ links' = WithoutLink(i)
      /\ \/ /\ i \in DOMAIN links /\ links[i].token = q.link
            /\ Continue(r, [q EXCEPT !.login = TRUE, !.todo =
                   <<"consume", "reset", "destroy", IF users[i].totp THEN "challenge" ELSE "session">>])
         \/ End(r)
  BY <1>3, <1>5 DEF ConsumeLink
<1>7. /\ DOMAIN links' = DOMAIN links \ {i}
      /\ \A j \in DOMAIN links' : links'[j] = links[j]
  BY <1>6 DEF WithoutLink
<1>8. LinksStay
  BY <1>1, <1>7 DEF LinksStay
<1>9. CASE End(r)
  <2>1. \A n \in DOMAIN q.todo : q.todo[n] # "destroy"
    BY <1>3 DEF Planned
  <2>2. Easy
    BY <1>1, <1>3, <1>4, <1>9, <2>1, EndEasy, Usual
  <2> QED
    BY <1>1, <1>2, <1>7, <1>8, <2>2, TokensFit, SerialStays, LoginEasy
<1>10. CASE /\ i \in DOMAIN links /\ links[i].token = q.link
            /\ Continue(r, [q EXCEPT !.login = TRUE, !.todo =
                   <<"consume", "reset", "destroy", IF users[i].totp THEN "challenge" ELSE "session">>])
  <2>1. PICK x \in {"challenge", "session"} : x = IF users[i].totp THEN "challenge" ELSE "session"
    OBVIOUS
  <2>2. PICK t : t = <<"consume", "reset", "destroy", x>>
    OBVIOUS
  <2>3. Len(t) # 1 /\ Tail(t) = <<"reset", "destroy", x>>
    BY <2>2
  <2>4. PICK u \in Plans : u = <<"reset", "destroy", x>> /\ u[1] = "reset"
    <3>1. <<"reset", "destroy", "session">> \in Plans /\ <<"reset", "destroy", "challenge">> \in Plans
      BY DEF Plans, EndingPlans
    <3> QED
      BY <2>1, <3>1
  <2>5. PICK on \in BOOLEAN : on = TRUE
    OBVIOUS
  <2>6. PICK p : p = [q EXCEPT !.login = on, !.todo = t]
    OBVIOUS
  <2>7. Continue(r, p)
    BY <1>10, <2>1, <2>2, <2>5, <2>6
  <2>8. PICK n : n = [p EXCEPT !.todo = u]
    OBVIOUS
  <2>9. Fits(n, serial.user) /\ n.todo = u /\ n.user = i /\ n.link = q.link
    BY <1>3, <1>5, <2>4, <2>6, <2>8 DEF Fits
  <2>10. p.todo = t
    BY <1>3, <2>6 DEF Fits
  <2>11. requests' = [requests EXCEPT ![r] = n]
    BY <2>3, <2>4, <2>7, <2>8, <2>10 DEF Continue
  <2>12. /\ DOMAIN requests' = DOMAIN requests /\ requests'[r] = n
         /\ \A k \in DOMAIN requests \ {r} : requests'[k] = requests[k]
    BY <1>4, <2>11
  <2>13. RequestsFit'
    BY <1>1, <2>9, <2>12 DEF AccessInv, RequestsFit
  <2>14. LinksFit'
    <3>1. \A m \in DOMAIN mailed' : mailed'[m] \in [user : Users, sets : Nat]
      BY <1>1 DEF AccessInv, LinksFit
    <3>2. \A j \in DOMAIN links' : mailed'[links'[j].token].user = j /\ mailed'[links'[j].token].sets = 0
      BY <1>1, <1>7 DEF AccessInv, LinksFit
    <3>3. /\ q.link \in DOMAIN mailed /\ mailed[q.link].user = i /\ mailed[q.link].sets = 0
      BY <1>10, TokensFit DEF AccessInv, LinksFit
    <3>4. \A j \in DOMAIN links' : links'[j].token # q.link
      BY <1>7, <3>3 DEF AccessInv, LinksFit
    <3>5. ASSUME NEW k \in DOMAIN requests \ {r}, Resets(requests[k])
          PROVE  /\ requests[k].link \in DOMAIN mailed /\ mailed[requests[k].link].sets = 0
                 /\ \A j \in DOMAIN links : links[j].token # requests[k].link
                 /\ requests[k].link # q.link
                 /\ \A m \in DOMAIN requests : Resets(requests[m]) /\ requests[m].link = requests[k].link => m = k
      BY <1>10, <3>5 DEF AccessInv, LinksFit
    <3>6. ASSUME NEW k \in DOMAIN requests', Resets(requests'[k])
          PROVE  /\ requests'[k].link \in DOMAIN mailed' /\ mailed'[requests'[k].link].sets = 0
                 /\ \A j \in DOMAIN links' : links'[j].token # requests'[k].link
                 /\ \A m \in DOMAIN requests' :
                       Resets(requests'[m]) /\ requests'[m].link = requests'[k].link => m = k
      <4>1. CASE k = r
        BY <1>1, <2>9, <2>12, <3>3, <3>4, <3>5, <4>1
      <4>2. CASE k # r
        <5>1. requests'[k] = requests[k] /\ k \in DOMAIN requests \ {r}
          BY <2>12, <4>2
        <5> QED
          BY <1>1, <1>7, <2>9, <2>12, <3>5, <3>6, <5>1
      <4> QED
        BY <4>1, <4>2
    <3> QED
      BY <3>1, <3>2, <3>6 DEF LinksFit
  <2>15. LinksOnce'
    BY <1>1 DEF AccessInv, LinksOnce
  <2>16. ASSUME NEW j, Ending(j) PROVE Ending(j)'
    <3>1. PICK k \in DOMAIN requests : /\ requests[k].user = j
                                       /\ \E m \in DOMAIN requests[k].todo : requests[k].todo[m] = "destroy"
      BY <2>16 DEF Ending
    <3>2. k # r
      BY <1>3, <3>1 DEF Planned
    <3> QED
      BY <2>12, <3>1, <3>2 DEF Ending
  <2>17. SessionsEnd'
    BY <1>1, <2>16, SessionsKept DEF AccessInv, PasswordsStay, accountVars
  <2>18. LoginsTypeOK'
    <3>1. /\ \A j \in DOMAIN links' : links'[j] \in [token : DOMAIN mailed', tries : 0..MaxTries]
          /\ \A s \in sessions' : s \in [user : Users, pw : Nat, kept : BOOLEAN]
          /\ \A m \in DOMAIN challenges' : challenges'[m] \in Challenge
          /\ throttle' \in [Throttles -> Counter]
      BY <1>1, <1>7, LoginTypes DEF AccessInv
    <3> QED
      BY <3>1 DEF LoginsTypeOK, Challenge, Throttles, Counter
  <2> QED
    <3>1. UNCHANGED <<accountVars, tokens>> /\ CacheStays
      BY <1>1, CacheSame DEF AccessInv, keyVars
    <3> QED
      BY <1>1, <1>2, <2>12, <2>13, <2>14, <2>15, <2>17, <2>18, <3>1, SerialStays, LoginFrame, Usual
       DEF AccessInv, SerialsFit
<1> QED
  BY <1>6, <1>9, <1>10

\* The password is set by the one request that carries the link, and sessions are ended next.
LEMMA ResetPasswordKeeps ==
    ASSUME AccessInv, NEW r, ResetPassword(r)
    PROVE  AccessInv'
<1>1. /\ UNCHANGED <<roles, editing, needsSetup, tokens, serial, left, sessions, challenges, links, throttle>>
      /\ At(r, "reset")
  BY DEF ResetPassword, keyVars
<1>2. LeftFits'
  BY <1>1 DEF AccessInv, LeftFits
<1>3. PICK q : q = requests[r] /\ Fits(q, serial.user) /\ Planned(q.todo) /\ q.todo[1] = "reset"
  BY <1>1, AtFacts, Usual
<1>4. r \in DOMAIN requests
  BY <1>1 DEF At
<1>5. CASE ~Exists(q.user)
  <2>1. End(r) /\ UNCHANGED <<users, mailed, keyVars>>
    <3>1. End(r) /\ UNCHANGED <<users, mailed>>
      BY <1>3, <1>5 DEF ResetPassword
    <3>2. ApisOf(Seen)' = ApisOf(Seen)
      BY <1>1, <3>1 DEF ApisOf, Seen
    <3>3. UNCHANGED cache
      BY <3>2, UnreadFacts DEF ResetPassword, AccessInv
    <3> QED
      BY <1>1, <3>1, <3>3 DEF keyVars
  <2>2. Easy
    BY <1>1, <1>3, <1>4, <1>5, <2>1, EndEasy, Usual DEF Exists
  <2> QED
    BY <1>1, <1>2, <2>1, <2>2, TokensFit, SerialStays, LoginEasy DEF LinksStay, accountVars
<1>6. CASE Exists(q.user)
  <2>1. PICK i \in DOMAIN users : i = q.user
    BY <1>6 DEF Exists
  <2>2. PICK row : row = users[i] /\ RowFits(row, roles)
    BY RowsFit
  <2>3. PICK login \in BOOLEAN, set \in BOOLEAN : login = q.login /\ set = TRUE
    BY <1>3, FitsFacts, Usual
  <2>4. PICK a : a = Profile(row, login, set)
    OBVIOUS
  <2>5. RowFits(a, roles) /\ a.pw \in Nat
    BY <2>2, <2>4, ProfileFits
  <2>6. users' = [users EXCEPT ![i] = a] /\ users'[i].pw = a.pw
    BY <1>3, <1>6, <2>1, <2>2, <2>3, <2>4 DEF ResetPassword
  <2>7. PICK n \in DOMAIN mailed : /\ n = q.link /\ mailed[n] \in [user : Users, sets : Nat]
                                   /\ mailed[n].sets = 0
                                   /\ \A j \in DOMAIN links : links[j].token # n
                                   /\ \A k \in DOMAIN requests :
                                         Resets(requests[k]) /\ requests[k].link = n => k = r
    BY <1>3, <1>4 DEF AccessInv, LinksFit, Resets
  <2>8. PICK m : m = [mailed[n] EXCEPT !.sets = @ + 1]
    OBVIOUS
  <2>9. m \in [user : Users, sets : Nat] /\ m.sets = 1
    BY <2>7, <2>8
  <2>10. mailed' = [mailed EXCEPT ![n] = m]
    BY <1>3, <1>6, <2>7, <2>8 DEF ResetPassword
  <2>11. PICK p : p = [q EXCEPT !.pw = a.pw]
    OBVIOUS
  <2>12. Fits(p, serial.user) /\ p.todo = q.todo /\ p.user = q.user
    BY <1>3, <2>5, <2>11, FitsWith, Usual
  <2>13. Continue(r, p)
    BY <1>3, <1>6, <2>1, <2>6, <2>11 DEF ResetPassword
  <2>14. /\ Orderly
         /\ \A j : Ending(j) => Ending(j)'
    BY <1>1, <1>3, <1>4, <2>12, <2>13, ContinueFacts, Usual
  <2>15. Len(p.todo) # 1 /\ p.todo[2] = "destroy"
    <3>1. p.todo[2] = "destroy" /\ Len(p.todo) = 3
      BY <1>3, <2>12 DEF Planned
    <3> QED
      BY <3>1
  <2>16. Ending(i)'
    BY <1>4, <2>1, <2>12, <2>13, <2>15, EndsNext, Usual
  <2>17. ASSUME NEW k \in DOMAIN requests', Resets(requests'[k])
         PROVE  k \in DOMAIN requests /\ requests'[k] = requests[k] /\ k # r
    <3>1. k \in DOMAIN requests /\ requests'[k] = requests[k]
      BY <2>14, <2>17 DEF Orderly, Resets
    <3>2. requests' = [requests EXCEPT ![r] = [p EXCEPT !.todo = Tail(@)]]
      BY <2>13, <2>15 DEF Continue
    <3>3. k # r
      <4> SUFFICES ASSUME k = r PROVE FALSE
        OBVIOUS
      <4>1. requests'[r].todo = Tail(p.todo)
        BY <1>4, <2>12, <2>15, <3>2, FitsNext, Usual
      <4>2. PICK t \in Seq(Steps) : t = p.todo /\ Len(t) = 3
        BY <1>3, <2>12 DEF Planned
      <4>3. t # <<>> /\ Tail(t)[1] = t[2]
        BY <4>2
      <4> QED
        BY <2>15, <2>17, <4>1, <4>2, <4>3 DEF Resets
    <3> QED
      BY <3>1, <3>3
  <2>18. DOMAIN users' = DOMAIN users /\ \A j \in DOMAIN users' : users'[j] = users[j] \/ (j = i /\ users'[j] = a)
    BY <2>6
  <2>19. AccountsTypeOK' /\ RolesFit'
    <3>1. \A j \in DOMAIN users' : RowFits(users'[j], roles')
      BY <1>1, <2>5, <2>18, RowsFit
    <3> QED
      BY <1>1, <2>14, <2>18, <3>1, RowsHold DEF AccessInv, AccountsTypeOK, RolesFit, Orderly
  <2>20. EditsFit'
    BY <1>1, EditsKept, Usual DEF AccessInv, AccountsTypeOK
  <2>21. KeysTypeOK'
    BY <1>1, <2>18 DEF AccessInv, KeysTypeOK
  <2>22. DOMAIN mailed' = DOMAIN mailed /\ mailed'[n] = m /\ \A k \in DOMAIN mailed \ {n} : mailed'[k] = mailed[k]
    BY <2>10
  <2>23. LoginsTypeOK'
    <3>1. /\ \A j \in DOMAIN links' : links'[j] \in [token : DOMAIN mailed', tries : 0..MaxTries]
          /\ \A s \in sessions' : s \in [user : Users, pw : Nat, kept : BOOLEAN]
          /\ \A k \in DOMAIN challenges' : challenges'[k] \in Challenge
          /\ throttle' \in [Throttles -> Counter]
      BY <1>1, <2>22, LoginTypes DEF AccessInv
    <3> QED
      BY <3>1 DEF LoginsTypeOK, Challenge, Throttles, Counter
  <2>24. SerialsFit'
    BY <1>1, <2>18, <2>22 DEF AccessInv, SerialsFit
  <2>25. LinksFit'
    <3>1. \A k \in DOMAIN mailed' : mailed'[k] \in [user : Users, sets : Nat]
      BY <2>9, <2>22 DEF AccessInv, LinksFit
    <3>2. \A j \in DOMAIN links' : mailed'[links'[j].token].user = j /\ mailed'[links'[j].token].sets = 0
      BY <1>1, <2>7, <2>22, TokensFit DEF AccessInv, LinksFit
    <3>3. ASSUME NEW k \in DOMAIN requests', Resets(requests'[k])
          PROVE  /\ requests'[k].link \in DOMAIN mailed' /\ mailed'[requests'[k].link].sets = 0
                 /\ \A j \in DOMAIN links' : links'[j].token # requests'[k].link
                 /\ \A j \in DOMAIN requests' :
                       Resets(requests'[j]) /\ requests'[j].link = requests'[k].link => j = k
      <4>1. k \in DOMAIN requests /\ requests'[k] = requests[k] /\ k # r /\ Resets(requests[k])
        BY <2>17, <3>3
      <4>2. /\ requests[k].link \in DOMAIN mailed /\ mailed[requests[k].link].sets = 0
            /\ \A j \in DOMAIN links : links[j].token # requests[k].link
            /\ \A j \in DOMAIN requests : Resets(requests[j]) /\ requests[j].link = requests[k].link => j = k
            /\ requests[k].link # n
        BY <2>7, <4>1 DEF AccessInv, LinksFit
      <4>3. ASSUME NEW j \in DOMAIN requests', Resets(requests'[j]), requests'[j].link = requests'[k].link
            PROVE  j = k
        BY <2>17, <4>1, <4>2, <4>3
      <4> QED
        BY <1>1, <2>22, <4>1, <4>2, <4>3
    <3> QED
      BY <3>1, <3>2, <3>3 DEF LinksFit
  <2>26. LinksOnce'
    BY <2>9, <2>22 DEF AccessInv, LinksOnce
  <2>27. SessionsEnd'
    <3>1. PasswordsStay
      BY <2>16, <2>18 DEF PasswordsStay
    <3> QED
      BY <1>1, <2>14, <3>1, SessionsKept DEF AccessInv
  <2>28. CacheFits'
    BY <1>1, UnreadFacts, CacheKept, Usual DEF ResetPassword, AccessInv
  <2> QED
    BY <1>2, <2>28, <2>14, <2>19, <2>20, <2>21, <2>23, <2>24, <2>25, <2>26, <2>27 DEF AccessInv, Orderly
<1> QED
  BY <1>5, <1>6

-----------------------------------------------------------------------------
(* Everything together. *)

LEMMA LoginStepKeeps ==
    ASSUME AccessInv, LoginStep
    PROVE  AccessInv'
<1>1. CASE \E i \in DOMAIN users : Login(i) \/ WrongPassword(i) \/ OIDCFinish(i) \/ ForgotPassword(i)
  BY <1>1, LoginKeeps, WrongPasswordKeeps, OIDCFinishKeeps, ForgotPasswordKeeps
<1>2. CASE \E role \in DOMAIN roles, list \in DOMAIN roles \cup {NoRole} : CreateOIDCUser(role, list)
  BY <1>2, CreateOIDCUserKeeps
<1>3. CASE \E n \in DOMAIN challenges : VerifyCode(n) \/ WrongCode(n)
  BY <1>3, VerifyCodeKeeps, WrongCodeKeeps
<1>4. CASE \E n \in DOMAIN mailed, set \in BOOLEAN : OpenLink(n, set)
  BY <1>4, OpenLinkKeeps
<1>5. CASE \E r \in DOMAIN requests :
              \/ ConsumeLink(r) \/ ResetPassword(r) \/ IssueChallenge(r)
              \/ DestroyUserSessions(r) \/ FailToDestroy(r) \/ FailReread(r)
              \/ SaveSession(r) \/ FailToSave(r)
  BY <1>5, ConsumeLinkKeeps, ResetPasswordKeeps, IssueChallengeKeeps, DestroyUserSessionsKeeps, SaveSessionKeeps
<1>6. CASE \E s \in sessions : Logout(s)
  BY <1>6, LogoutKeeps
<1>7. CASE \E k \in DOMAIN throttle : ThrottleEnds(k)
  BY <1>7, ThrottleEndsKeeps
<1>8. CASE TokenExpires
  BY <1>8, TokenExpiresKeeps
<1> QED
  BY <1>1, <1>2, <1>3, <1>4, <1>5, <1>6, <1>7, <1>8 DEF LoginStep

\* A restart keeps the rows.
LEMMA RestartKeeps ==
    ASSUME AccessInv, Restart
    PROVE  AccessInv'
<1>1. /\ LeftFits' /\ UNCHANGED <<users, roles, serial, tokens, mailed>>
      /\ editing' = {} /\ DOMAIN requests' = {} /\ DOMAIN challenges' = {} /\ DOMAIN links' = {}
      /\ sessions' = Keep(sessions)
  BY SpendKeeps DEF AccessInv, Restart
<1>2. needsSetup' \in BOOLEAN
  BY DEF Restart
<1>3. RequestsFit'
  BY <1>1 DEF RequestsFit
<1>4. AccountsTypeOK' /\ RolesFit'
  BY <1>1, <1>2, RowsFit, RowsHold DEF AccessInv, AccountsTypeOK, RolesFit
<1>5. EditsFit'
  BY <1>1 DEF EditsFit
<1>6. KeysTypeOK'
  BY <1>1 DEF AccessInv, KeysTypeOK
<1>7. \A s \in sessions : s \in [user : Users, pw : Nat, kept : BOOLEAN] /\ s.user \in 1..serial.user
  BY LoginTypes DEF AccessInv, SerialsFit
<1>8. \A t \in sessions' : /\ t \in [user : Users, pw : Nat, kept : BOOLEAN]
                           /\ Outdated(t) => t.kept
                           /\ t.user \in 1..serial.user
  BY <1>1, <1>7, KeepFacts
<1>9. throttle' \in [Throttles -> Counter]
  <2>1. DOMAIN throttle = Throttles
    BY TokensFit
  <2>2. \A k \in Throttles : Success \in Counter
    BY CounterFacts, TokensFit
  <2> QED
    BY <2>1, <2>2 DEF Restart
<1>10. LoginsTypeOK'
  BY <1>1, <1>8, <1>9 DEF LoginsTypeOK, Throttles, Counter
<1>11. SerialsFit'
  BY <1>1, <1>8 DEF AccessInv, SerialsFit
<1>12. LinksFit'
  BY <1>1 DEF AccessInv, LinksFit
<1>13. LinksOnce'
  BY <1>1 DEF AccessInv, LinksOnce
<1>14. SessionsEnd'
  BY <1>1, <1>8 DEF SessionsEnd, Outdated, Exists
<1>15. CacheFits'
  BY <1>1, LoadedFits, Usual DEF Restart
<1> QED
  BY <1>1, <1>15, <1>3, <1>4, <1>5, <1>6, <1>10, <1>11, <1>12, <1>13, <1>14 DEF AccessInv

\* Every step keeps the invariant.
LEMMA NextKeeps ==
    ASSUME AccessInv, [Next]_accessVars
    PROVE  AccessInv'
<1>1. CASE AccountStep
  BY <1>1, AccountStepKeeps
<1>2. CASE KeyStep
  BY <1>2, KeyStepKeeps
<1>3. CASE LoginStep
  BY <1>3, LoginStepKeeps
<1>4. CASE Restart
  BY <1>4, RestartKeeps
<1>6. CASE ProfileStep
  BY <1>6, ProfileStepKeeps
<1>5. CASE UNCHANGED accessVars
  <2>1. UNCHANGED <<accountVars, loginVars, keyVars, tokens, cache, serial, left, requests>>
    BY <1>5 DEF accessVars, accountVars, loginVars, keyVars
  <2>2. LeftFits'
    BY <2>1 DEF AccessInv, LeftFits
  <2>3. Easy
    BY <2>1, StayEasy, Usual
  <2>4. CacheFits'
    BY <2>1, CacheIdle DEF AccessInv
  <2> QED
    BY <2>1, <2>2, <2>3, <2>4, OnlyRequests
<1> QED
  BY <1>1, <1>2, <1>3, <1>4, <1>5, <1>6 DEF Next

-----------------------------------------------------------------------------
(* The rows at the start. *)

LEMMA SeqCount ==
    ASSUME NEW S, NEW t \in Seq(S)
    PROVE  DOMAIN t = 1..Len(t) /\ Len(t) \in Nat /\ Cardinality(DOMAIN t) = Len(t)
<1>1. DOMAIN t = 1..Len(t) /\ Len(t) \in Nat
  OBVIOUS
<1>2. PICK n \in Nat : n = Len(t)
  BY <1>1
<1>3. Cardinality(1..n) = IF 1 > n THEN 0 ELSE n - 1 + 1
  BY FS_Interval
<1>4. Cardinality(1..n) = n
  BY <1>3
<1> QED
  BY <1>1, <1>2, <1>4

LEMMA InitHolds ==
    ASSUME Init
    PROVE  AccessInv
<1>1. PICK b \in Bounds : b = left
  BY DEF Init
<1>2. /\ users = b.users /\ roles = b.roles /\ tokens = b.tokens
      /\ sessions = {[user |-> i, pw |-> users[i].pw, kept |-> FALSE] : i \in b.signedIn}
      /\ editing = {} /\ DOMAIN requests = {} /\ DOMAIN challenges = {} /\ DOMAIN links = {} /\ DOMAIN mailed = {}
      /\ needsSetup \in BOOLEAN
      /\ serial = [user |-> Cardinality(DOMAIN users), role |-> Cardinality(DOMAIN roles),
                   key |-> Cardinality(DOMAIN tokens), token |-> 0]
      /\ throttle = [k \in Throttles |-> Success]
  BY <1>1 DEF Init, Throttles
<1>3. /\ users \in Seq(AccountRow) /\ DOMAIN users \subseteq Users
      /\ roles \in Seq(RoleRow) /\ DOMAIN roles \subseteq Roles
      /\ \A i \in DOMAIN users :
            /\ users[i].role \in DOMAIN roles
            /\ \/ users[i].list = NoRole
               \/ users[i].list \in DOMAIN roles /\ roles[users[i].list].list
  BY <1>2, AccountsAssumption
<1>4. /\ tokens \in Seq(KeyRow) /\ DOMAIN tokens \subseteq Keys
      /\ \A t \in DOMAIN tokens : tokens[t].user \in DOMAIN users
  BY <1>2, KeysAssumption
<1>5. b.signedIn \subseteq DOMAIN users
  BY <1>2, LoginsAssumption
<1>6. \A i \in DOMAIN users : users[i] \in AccountRow
  BY <1>3
<1>7. \A r \in DOMAIN roles : roles[r] \in RoleRow
  BY <1>3
<1>8. \A t \in DOMAIN tokens : tokens[t] \in KeyRow
  BY <1>4
<1>9. AccountsTypeOK
  BY <1>2, <1>3, <1>6 DEF AccountsTypeOK
<1>10. KeysTypeOK
  BY <1>4, <1>8 DEF KeysTypeOK
<1>11. \A s \in sessions : /\ s \in [user : Users, pw : Nat, kept : BOOLEAN]
                           /\ s.user \in DOMAIN users /\ s.pw = users[s.user].pw /\ s.pw \in Nat
  <2> SUFFICES ASSUME NEW i \in DOMAIN users, NEW s, s = [user |-> i, pw |-> users[i].pw, kept |-> FALSE]
               PROVE  /\ s \in [user : Users, pw : Nat, kept : BOOLEAN]
                      /\ s.user \in DOMAIN users /\ s.pw = users[s.user].pw /\ s.pw \in Nat
    BY <1>2, <1>5
  <2>1. users[i].pw \in Nat /\ i \in Users
    BY <1>3, <1>6 DEF AccountRow
  <2> QED
    BY <2>1
<1>12. LoginsTypeOK
  <2>1. Success \in Counter
    BY LoginsAssumption DEF Success, Counter
  <2> QED
    BY <1>2, <1>11, <2>1 DEF LoginsTypeOK, Throttles, Counter
<1>13. SerialsFit
  <2>1. /\ DOMAIN users = 1..Len(users) /\ Len(users) \in Nat /\ Cardinality(DOMAIN users) = Len(users)
        /\ DOMAIN roles = 1..Len(roles) /\ Len(roles) \in Nat /\ Cardinality(DOMAIN roles) = Len(roles)
        /\ DOMAIN tokens = 1..Len(tokens) /\ Len(tokens) \in Nat /\ Cardinality(DOMAIN tokens) = Len(tokens)
    BY <1>3, <1>4, SeqCount
  <2>2. /\ serial \in [user : Nat, role : Nat, key : Nat, token : Nat]
        /\ DOMAIN users = 1..serial.user /\ DOMAIN roles = 1..serial.role /\ DOMAIN tokens = 1..serial.key
    BY <1>2, <2>1
  <2>3. serial.role >= 1 => 1 \in 1..serial.role
    BY <2>2
  <2> QED
    BY <1>2, <1>11, <2>2, <2>3 DEF SerialsFit, SuperAdminRoleID
<1>14. LeftFits
  BY <1>1, AccountsAssumption DEF LeftFits
<1>15. RequestsFit /\ EditsFit /\ LinksFit /\ LinksOnce
  BY <1>2 DEF RequestsFit, EditsFit, LinksFit, LinksOnce
<1>16. RolesFit
  BY <1>3, <1>7 DEF RolesFit
<1>17. SessionsEnd
  <2> SUFFICES ASSUME NEW s \in sessions PROVE ~Outdated(s)
    BY DEF SessionsEnd
  <2>1. ~(s.pw < s.pw)
    BY <1>11
  <2> QED
    BY <1>11, <2>1 DEF Outdated
<1>18. CacheFits
  <2>1. PICK apis, keys : apis = ApisOf(Seen) /\ keys = KeysOf(Seen, ReadKeys)
    OBVIOUS
  <2>2. PICK alone \in BOOLEAN : alone = TRUE
    OBVIOUS
  <2>3. cache = [apis |-> apis, keys |-> keys, legacy |-> left.legacy, alone |-> alone]
    BY <2>1, <2>2 DEF Init, Loaded
  <2>4. DOMAIN Seen = DOMAIN users /\ DOMAIN users \subseteq Users \cap 1..serial.user
    BY <1>3, <1>13 DEF Seen, SerialsFit
  <2>5. \A a \in apis : a.user \in Users \cap 1..serial.user
    BY <2>1, <2>4, ApisUsers
  <2> QED
    BY <2>3, <2>5 DEF CacheFits, Cached
<1> QED
  BY <1>9, <1>10, <1>12, <1>13, <1>14, <1>15, <1>16, <1>17, <1>18 DEF AccessInv

-----------------------------------------------------------------------------
(* Administrators. *)

\* Accounts that stay what they are.
LEMMA AdminsAlike ==
    ASSUME \A i \in DOMAIN users : /\ i \in DOMAIN users'
                                   /\ users'[i].api = users[i].api /\ users'[i].enabled = users[i].enabled
                                   /\ users'[i].role = users[i].role
    PROVE  AdminsGo
  BY DEF AdminsGo, Admins

\* The row of one account is written, with the same role and kind.
LEMMA AdminsWritten ==
    ASSUME AccessInv, NEW i \in DOMAIN users, NEW a, users' = [users EXCEPT ![i] = a],
           a.api = users[i].api, a.enabled = users[i].enabled, a.role = users[i].role
    PROVE  AdminsGo
  BY AdminsAlike

\* A profile is no role.
LEMMA ProfileAdmins ==
    ASSUME AccessInv, NEW i \in DOMAIN users, NEW login \in BOOLEAN, NEW set \in BOOLEAN,
           users' = [users EXCEPT ![i] = Profile(@, login, set)]
    PROVE  AdminsGo
<1>1. PICK row \in AccountRow : row = users[i]
  BY DEF AccessInv, AccountsTypeOK
<1>2. PICK has, pw : has = (login /\ (set \/ row.has)) /\ pw = (IF login /\ set THEN row.pw + 1 ELSE row.pw)
  OBVIOUS
<1>3. PICK a : a = Profile(row, login, set)
  OBVIOUS
<1>4. a = [row EXCEPT !.has = has, !.pw = pw]
  BY <1>2, <1>3 DEF Profile
<1>5. a.api = row.api /\ a.enabled = row.enabled /\ a.role = row.role
  BY <1>4 DEF AccountRow
<1> QED
  BY <1>1, <1>3, <1>5, AdminsWritten

\* An edit that counted an administrator who still is one, or that leaves one.
LEMMA WriteEditAdmins ==
    ASSUME AccessInv, NEW e \in editing, WriteEdit(e)
    PROVE  AdminsGo
<1>1. PICK f \in Form : /\ f = e.form /\ f.user \notin e.others
                        /\ MayEdit(f, e.others)
  BY DEF AccessInv, EditsFit
<1>2. e \in editing \ editing'
  BY DEF WriteEdit
<1>3. CASE ~(f.user \in DOMAIN users /\ f.role \in DOMAIN roles /\ f.list \in DOMAIN roles \cup {NoRole})
  <2>1. UNCHANGED users
    BY <1>1, <1>3 DEF WriteEdit
  <2> QED
    BY <2>1, AdminsAlike
<1>4. CASE f.user \in DOMAIN users /\ f.role \in DOMAIN roles /\ f.list \in DOMAIN roles \cup {NoRole}
  <2>1. PICK i \in DOMAIN users : i = f.user
    BY <1>4
  <2>2. PICK row \in AccountRow : row = users[i]
    BY DEF AccessInv, AccountsTypeOK
  <2>3. PICK a : a = Edited(row, f)
    OBVIOUS
  <2>4. users' = [users EXCEPT ![i] = a]
    BY <1>1, <1>4, <2>1, <2>2, <2>3 DEF WriteEdit
  <2>5. a.api = f.api /\ a.enabled = f.enabled /\ a.role = f.role
    <3>1. PICK has, pw : has = (f.login /\ (f.set \/ row.has))
                         /\ pw = (IF f.login /\ f.set THEN row.pw + 1 ELSE row.pw)
      OBVIOUS
    <3>2. a = [row EXCEPT !.api = f.api, !.enabled = f.enabled, !.role = f.role, !.list = f.list,
                          !.login = f.login, !.has = has, !.pw = pw]
      BY <2>3, <3>1 DEF Edited
    <3> QED
      BY <3>2 DEF AccountRow
  <2>6. CASE \E k \in e.others : k \in Admins
    <3>1. PICK k \in e.others : k \in Admins
      BY <2>6
    <3>2. k # i /\ k \in DOMAIN users' /\ users'[k] = users[k]
      BY <1>1, <2>1, <2>4, <3>1 DEF Admins
    <3>3. k \in Admins'
      BY <3>1, <3>2 DEF Admins
    <3> QED
      BY <3>3 DEF AdminsGo
  <2>7. CASE e.others # {} /\ e.others \cap Admins = {}
    BY <1>2, <2>7 DEF AdminsGo
  <2>8. CASE f.api
    BY <1>1, <1>2, <2>8 DEF AdminsGo
  <2>9. CASE e.others = {} /\ ~f.api
    <3>1. f.role = SuperAdminRoleID /\ f.enabled
      BY <1>1, <2>9 DEF MayEdit
    <3>2. i \in Admins'
      BY <2>4, <2>5, <2>9, <3>1 DEF Admins
    <3> QED
      BY <3>2 DEF AdminsGo
  <2> QED
    BY <2>6, <2>7, <2>8, <2>9
<1> QED
  BY <1>3, <1>4

\* The administrator who remains is not the row that goes.
LEMMA DeleteUsersAdmins ==
    ASSUME NEW ids \in Deletions, DeleteUsers(ids)
    PROVE  AdminsGo
<1>1. PICK k \in Admins : k \notin ids
  BY DEF DeleteUsers, Remaining
<1>2. k \in DOMAIN users
  BY DEF Admins
<1>3. PICK j \in ids : j # k
  BY <1>1, <1>2 DEF Deletions
<1>4. k \notin Gone(ids)
  BY <1>3 DEF Gone
<1>5. k \in DOMAIN users' /\ users'[k] = users[k]
  BY <1>2, <1>4 DEF DeleteUsers
<1>6. k \in Admins'
  BY <1>5 DEF Admins
<1> QED
  BY <1>6 DEF AdminsGo

\* A role of accounts takes nobody along.
LEMMA DeleteRoleAdmins ==
    ASSUME AccessInv, NEW r \in DOMAIN roles, DeleteRole(r)
    PROVE  AdminsGo
<1>1. CASE roles[r].list
  <2>1. r \in DOMAIN roles \ DOMAIN roles'
    BY DEF DeleteRole
  <2> QED
    BY <1>1, <2>1 DEF AdminsGo
<1>2. CASE ~roles[r].list
  <2>1. r # NoRole
    BY AccountsAssumption DEF AccessInv, AccountsTypeOK
  <2>2. \A i \in DOMAIN users : users[i].list # r
    BY <1>2, <2>1 DEF AccessInv, RolesFit
  <2>3. \A i \in DOMAIN users : i \in DOMAIN users' /\ users'[i] = users[i]
    BY <2>2 DEF DeleteRole
  <2> QED
    BY <2>3, AdminsAlike
<1> QED
  BY <1>1, <1>2

\* A new account takes the place of none.
LEMMA AddedAdmins ==
    ASSUME AccessInv, NEW a, NextUser \in Users, users' = With(users, NextUser, a)
    PROVE  AdminsGo
<1>1. NextUser \notin DOMAIN users
  BY Usual DEF NextUser
<1> QED
  BY <1>1, AdminsAlike DEF With

LEMMA AccountStepAdmins ==
    ASSUME AccessInv, AccountStep
    PROVE  AdminsGo
<1>1. CASE \E f \in left.forms : CreateUser(f)
  BY <1>1, AddedAdmins DEF CreateUser
<1>2. CASE \E f, g \in left.forms : CreateUsers(f, g)
  <2>1. NextUser \notin DOMAIN users /\ NextUser + 1 \notin DOMAIN users
    BY Usual DEF NextUser
  <2> QED
    BY <1>2, <2>1, AdminsAlike DEF CreateUsers, With
<1>3. CASE FirstTimeSetup
  <2>1. CASE UNCHANGED users
    BY <2>1, AdminsAlike
  <2>2. CASE NextUser \in Users /\ users' = With(users, NextUser, FirstAccount)
    BY <2>2, AddedAdmins
  <2> QED
    BY <1>3, <2>1, <2>2 DEF FirstTimeSetup
<1>5. ASSUME NEW e \in editing, WriteEdit(e) PROVE AdminsGo
  BY <1>5, WriteEditAdmins
<1>6. ASSUME NEW ids \in Deletions, DeleteUsers(ids) PROVE AdminsGo
  BY <1>6, DeleteUsersAdmins
<1>7. ASSUME NEW i \in DOMAIN users, EnableTOTP(i) \/ DisableTOTP(i) PROVE AdminsGo
  <2>1. PICK b \in BOOLEAN : users' = [users EXCEPT ![i].totp = b]
    BY <1>7 DEF EnableTOTP, DisableTOTP
  <2>2. PICK row \in AccountRow : row = users[i]
    BY DEF AccessInv, AccountsTypeOK
  <2>3. PICK a : a = [row EXCEPT !.totp = b]
    OBVIOUS
  <2>4. a.api = row.api /\ a.enabled = row.enabled /\ a.role = row.role
    BY <2>3 DEF AccountRow
  <2>5. users' = [users EXCEPT ![i] = a]
    BY <2>1, <2>2, <2>3
  <2> QED
    BY <2>2, <2>4, <2>5, AdminsWritten
<1>8. ASSUME NEW r \in DOMAIN roles, DeleteRole(r) PROVE AdminsGo
  BY <1>8, DeleteRoleAdmins
<1>9. CASE UNCHANGED users
  BY <1>9, AdminsAlike
<1>10. ASSUME NEW f, NEW own, OpenEdit(f, own) PROVE UNCHANGED users
  BY <1>10 DEF OpenEdit
<1>12. ASSUME NEW r, SetupDone(r) \/ CreateRole(r) \/ UpdateRole(r) PROVE UNCHANGED users
  BY <1>12 DEF SetupDone, CreateRole, UpdateRole
<1> QED
  BY <1>1, <1>2, <1>3, <1>5, <1>6, <1>7, <1>8, <1>9, <1>10, <1>12 DEF AccountStep

LEMMA ProfileStepAdmins ==
    ASSUME AccessInv, ProfileStep
    PROVE  AdminsGo
<1>1. ASSUME NEW r \in DOMAIN requests, UpdateUserProfile(r) PROVE AdminsGo
  <2>1. CASE UNCHANGED users
    BY <2>1, AdminsAlike
  <2>2. CASE /\ requests[r].user \in DOMAIN users
             /\ users' = [users EXCEPT ![requests[r].user] =
                            Profile(@, requests[r].login, Len(requests[r].todo) > 1)]
    <3>1. PICK i \in DOMAIN users, login \in BOOLEAN, set \in BOOLEAN :
              i = requests[r].user /\ login = requests[r].login /\ set = (Len(requests[r].todo) > 1)
      <4>1. requests[r].login \in BOOLEAN /\ (Len(requests[r].todo) > 1) \in BOOLEAN
        BY Usual, FitsFacts DEF RequestsFit
      <4> QED
        BY <2>2, <4>1
    <3> QED
      BY <2>2, <3>1, ProfileAdmins
  <2> QED
    BY <1>1, <2>1, <2>2 DEF UpdateUserProfile
<1>2. ASSUME NEW i, NEW login, NEW session, NEW set, OpenProfile(i, login, session, set) PROVE UNCHANGED users
  BY <1>2 DEF OpenProfile, accountVars
<1>3. CASE UNCHANGED users
  BY <1>3, AdminsAlike
<1> QED
  BY <1>1, <1>2, <1>3 DEF ProfileStep

LEMMA LoginStepAdmins ==
    ASSUME AccessInv, LoginStep
    PROVE  AdminsGo
<1>1. ASSUME NEW r, ResetPassword(r) PROVE AdminsGo
  <2>1. CASE UNCHANGED users
    BY <2>1, AdminsAlike
  <2>2. CASE /\ Exists(requests[r].user)
             /\ users' = [users EXCEPT ![requests[r].user] = Profile(@, requests[r].login, TRUE)]
    <3>1. r \in DOMAIN requests
      BY <1>1 DEF ResetPassword, At
    <3>2. PICK i \in DOMAIN users, login \in BOOLEAN, set \in BOOLEAN :
              i = requests[r].user /\ login = requests[r].login /\ set = TRUE
      BY <2>2, <3>1, Usual, FitsFacts DEF RequestsFit, Exists
    <3> QED
      BY <2>2, <3>2, ProfileAdmins
  <2> QED
    BY <1>1, <2>1, <2>2 DEF ResetPassword
<1>2. ASSUME NEW role, NEW list, CreateOIDCUser(role, list) PROVE AdminsGo
  BY <1>2, AddedAdmins DEF CreateOIDCUser
<1>3. ASSUME NEW i, Login(i) \/ WrongPassword(i) \/ OIDCFinish(i) \/ ForgotPassword(i) \/ VerifyCode(i) \/ WrongCode(i)
      PROVE  UNCHANGED users
  BY <1>3 DEF Login, WrongPassword, OIDCFinish, ForgotPassword, VerifyCode, WrongCode, accountVars
<1>4. ASSUME NEW n, NEW set, OpenLink(n, set) PROVE UNCHANGED users
  BY <1>4 DEF OpenLink, accountVars
<1>5. ASSUME NEW r, \/ ConsumeLink(r) \/ IssueChallenge(r) \/ DestroyUserSessions(r) \/ FailToDestroy(r)
                    \/ FailReread(r) \/ SaveSession(r) \/ FailToSave(r)
      PROVE  UNCHANGED users
  BY <1>5 DEF ConsumeLink, IssueChallenge, DestroyUserSessions, FailToDestroy, FailReread, SaveSession,
              FailToSave, accountVars
<1>6. ASSUME NEW s, Logout(s) \/ ThrottleEnds(s) PROVE UNCHANGED users
  BY <1>6 DEF Logout, ThrottleEnds, accountVars
<1>7. ASSUME TokenExpires PROVE UNCHANGED users
  BY <1>7 DEF TokenExpires, accountVars
<1>8. CASE UNCHANGED users
  BY <1>8, AdminsAlike
<1> QED
  BY <1>1, <1>2, <1>3, <1>4, <1>5, <1>6, <1>7, <1>8 DEF LoginStep

\* Steps of the keys write no account.
LEMMA KeyStepAdmins ==
    ASSUME KeyStep
    PROVE  AdminsGo
<1>1. ASSUME NEW i, NEW ws, CreateIntegrationToken(i, ws) \/ CreatePersonalIntegrationToken(i, ws)
      PROVE  UNCHANGED users
  BY <1>1 DEF CreateIntegrationToken, CreatePersonalIntegrationToken, accountVars
<1>2. ASSUME NEW t, \/ DeleteIntegrationToken(t) \/ DeletePersonalIntegrationToken(t)
                    \/ UpdatePersonalIntegrationToken(t) \/ OpenRotation(t) \/ Expire(t)
      PROVE  UNCHANGED users
  BY <1>2 DEF DeleteIntegrationToken, DeletePersonalIntegrationToken, UpdatePersonalIntegrationToken,
              OpenRotation, Expire, accountVars
<1>3. ASSUME NEW r, \/ RotatePersonalIntegrationToken(r) \/ GetUsers(r) \/ GetActiveIntegrationTokens(r)
                    \/ CacheAPIUsers(r) \/ CacheIntegrationTokens(r) \/ FailRefresh(r)
      PROVE  UNCHANGED users
  BY <1>3 DEF RotatePersonalIntegrationToken, GetUsers, GetActiveIntegrationTokens, CacheAPIUsers,
              CacheIntegrationTokens, FailRefresh, accountVars
<1>4. UNCHANGED users
  BY <1>1, <1>2, <1>3 DEF KeyStep
<1> QED
  BY <1>4, AdminsAlike

LEMMA NextAdmins ==
    ASSUME AccessInv, Next
    PROVE  AdminsGo
<1>1. CASE AccountStep
  BY <1>1, AccountStepAdmins
<1>2. CASE KeyStep
  BY <1>2, KeyStepAdmins
<1>3. CASE LoginStep
  BY <1>3, LoginStepAdmins
<1>4. CASE Restart
  BY <1>4, AdminsAlike DEF Restart
<1>5. CASE ProfileStep
  BY <1>5, ProfileStepAdmins
<1> QED
  BY <1>1, <1>2, <1>3, <1>4, <1>5 DEF Next

-----------------------------------------------------------------------------
(* The cache of the keys. *)

\* What is left of a request that changed something and has not read the accounts again.
OwingPlans ==
    {<<"readUsers", "readKeys", "cacheUsers", "cacheKeys">>,
     <<"session", "readUsers", "readKeys", "cacheUsers", "cacheKeys">>,
     <<"destroy", "readUsers", "readKeys", "cacheUsers", "cacheKeys">>,
     <<"destroy", "session", "readUsers", "readKeys", "cacheUsers", "cacheKeys">>}
Stages == {"readKeys", "cacheUsers", "cacheKeys"}

Owes(q) == q.todo \in OwingPlans
Renews(q) == q.todo[1] \in Stages

Owing == \E r \in DOMAIN requests : Owes(requests[r])

\* What the roles of an account permit, as a refresh reads it.
Grants(i) == <<users[i].role, roles[users[i].role].perms>>
Lists(i) == IF users[i].list = NoRole THEN <<>> ELSE <<users[i].list, roles[users[i].list].perms>>

\* What was seen of an account is still so, but for its token.
Read(s, i) ==
    /\ i \in DOMAIN s
    /\ s[i].enabled = users[i].enabled /\ s[i].api = users[i].api
    /\ s[i].grants = Grants(i) /\ s[i].lists = Lists(i)

\* What was seen of the accounts is what the cache should hold.
Agrees(s) ==
    /\ ApisOf(s) = ApisOf(Seen)
    /\ \A t \in DOMAIN tokens : Active(t) => Read(s, tokens[t].user)

\* Keys that were read are active, or their time is over.
ExpiredKeys == {t \in DOMAIN tokens : tokens[t].expired}
Listed(K) == ReadKeys \subseteq K /\ \A k \in K \ ReadKeys : k.key \in ExpiredKeys

Staged(q) ==
    /\ Agrees(q.seen)
    /\ q.todo[1] # "readKeys" => Listed(q.keys)
    /\ q.todo[1] = "cacheKeys" => cache.apis = ApisOf(Seen)

Current == cache.apis = ApisOf(Seen) /\ Accepted = KeysOf(Seen, ReadKeys)

\* At most one request renews the cache, and when none has still to read, what it stores will be
\* current, or what is stored is.
CacheInv ==
    cache.alone =>
        /\ \A q, r \in DOMAIN requests : Renews(requests[q]) /\ Renews(requests[r]) => q = r
        /\ ~Owing =>
              /\ \A r \in DOMAIN requests : Renews(requests[r]) => Staged(requests[r])
              /\ (\A r \in DOMAIN requests : ~Renews(requests[r])) => Current

-----------------------------------------------------------------------------
(* What is left to do, and the refresh in it. *)

\* A refresh goes on to its end, and whoever owes one comes to it.
Onward(t) ==
    /\ t[1] \in Stages \cup {"profile", "consume", "rotate", "reset"} => t \notin OwingPlans
    /\ t[1] \notin Renewals /\ Len(t) # 1 => t[2] \notin Stages
    /\ t \in OwingPlans /\ t[1] \notin Renewals => Len(t) # 1 /\ Tail(t) \in OwingPlans
    /\ Len(t) # 1 => Tail(t)[1] = t[2]
    /\ t[1] = "rotate" => Len(t) # 1 /\ Tail(t) \in OwingPlans
    /\ t[1] = "readUsers" => Len(t) # 1 /\ t[2] = "readKeys" /\ t \in OwingPlans
    /\ t[1] = "readKeys" => Len(t) # 1 /\ t[2] = "cacheUsers"
    /\ t[1] = "cacheUsers" => Len(t) # 1 /\ t[2] = "cacheKeys"
    /\ t[1] = "cacheKeys" => Len(t) = 1

LEMMA OnwardFacts == \A t \in Plans : Onward(t)
<1>1. Onward(<<"readUsers", "readKeys", "cacheUsers", "cacheKeys">>)
  BY DEF Onward, Renewals, Stages, OwingPlans
<1>2. Onward(<<"readKeys", "cacheUsers", "cacheKeys">>)
  BY DEF Onward, Renewals, Stages, OwingPlans
<1>3. Onward(<<"cacheUsers", "cacheKeys">>)
  BY DEF Onward, Renewals, Stages, OwingPlans
<1>4. Onward(<<"cacheKeys">>)
  BY DEF Onward, Renewals, Stages, OwingPlans
<1>5. Onward(<<"session">>)
  BY DEF Onward, Renewals, Stages, OwingPlans
<1>6. Onward(<<"challenge">>)
  BY DEF Onward, Renewals, Stages, OwingPlans
<1>7. Onward(<<"ready">>)
  BY DEF Onward, Renewals, Stages, OwingPlans
<1>8. Onward(<<"session", "ready">>)
  BY DEF Onward, Renewals, Stages, OwingPlans
<1>9. Onward(<<"consume">>)
  BY DEF Onward, Renewals, Stages, OwingPlans
<1>10. Onward(<<"profile">>)
  BY DEF Onward, Renewals, Stages, OwingPlans
<1>11. Onward(<<"session", "readUsers", "readKeys", "cacheUsers", "cacheKeys">>)
  BY DEF Onward, Renewals, Stages, OwingPlans
<1>12. Onward(<<"rotate", "readUsers", "readKeys", "cacheUsers", "cacheKeys">>)
  BY DEF Onward, Renewals, Stages, OwingPlans
<1>13. Onward(<<"destroy", "readUsers", "readKeys", "cacheUsers", "cacheKeys">>)
  BY DEF Onward, Renewals, Stages, OwingPlans
<1>14. Onward(<<"destroy", "session", "readUsers", "readKeys", "cacheUsers", "cacheKeys">>)
  BY DEF Onward, Renewals, Stages, OwingPlans
<1>15. Onward(<<"destroy", "session">>)
  BY DEF Onward, Renewals, Stages, OwingPlans
<1>16. Onward(<<"destroy", "challenge">>)
  BY DEF Onward, Renewals, Stages, OwingPlans
<1>17. Onward(<<"profile", "destroy", "session">>)
  BY DEF Onward, Renewals, Stages, OwingPlans
<1>18. Onward(<<"profile", "destroy">>)
  BY DEF Onward, Renewals, Stages, OwingPlans
<1>19. Onward(<<"destroy">>)
  BY DEF Onward, Renewals, Stages, OwingPlans
<1>20. Onward(<<"reset", "destroy", "session">>)
  BY DEF Onward, Renewals, Stages, OwingPlans
<1>21. Onward(<<"reset", "destroy", "challenge">>)
  BY DEF Onward, Renewals, Stages, OwingPlans
<1> QED
  BY <1>1, <1>2, <1>3, <1>4, <1>5, <1>6, <1>7, <1>8, <1>9, <1>10, <1>11,
     <1>12, <1>13, <1>14, <1>15, <1>16, <1>17, <1>18, <1>19, <1>20, <1>21
     DEF Plans, RefreshPlans, SessionPlans, EndingPlans

-----------------------------------------------------------------------------
(* Requests that leave refreshes alone. *)

\* Nobody starts or stops to renew the cache, and whoever owes it still does.
RequestsCalm ==
    /\ \A r \in DOMAIN requests' : Renews(requests'[r]) => r \in DOMAIN requests /\ requests'[r] = requests[r]
    /\ \A r \in DOMAIN requests :
          /\ Renews(requests[r]) => r \in DOMAIN requests' /\ requests'[r] = requests[r]
          /\ Owes(requests[r]) => r \in DOMAIN requests' /\ Owes(requests'[r])

LEMMA CalmSame ==
    ASSUME UNCHANGED requests
    PROVE  RequestsCalm
  BY DEF RequestsCalm

LEMMA CalmAdded ==
    ASSUME NEW r, r \notin DOMAIN requests, NEW q, ~Renews(q), requests' = With(requests, r, q)
    PROVE  RequestsCalm /\ (Owes(q) => Owing')
<1>1. /\ DOMAIN requests' = DOMAIN requests \cup {r}
      /\ \A k \in DOMAIN requests : requests'[k] = requests[k]
      /\ requests'[r] = q
  BY DEF With
<1>2. RequestsCalm
  BY <1>1 DEF RequestsCalm
<1>3. Owes(q) => Owing'
  BY <1>1 DEF Owing, Owes
<1> QED
  BY <1>2, <1>3

LEMMA CalmBegin ==
    ASSUME DOMAIN requests \subseteq Requests, NEW todo, todo[1] \notin Stages, NEW i, NEW pw, NEW link,
           Begin(todo, i, pw, link)
    PROVE  RequestsCalm /\ (todo \in OwingPlans => Owing')
<1>1. FreeRequest \in Requests \ DOMAIN requests
  BY DEF FreeRequest, Begin
<1>2. PICK r : r = FreeRequest /\ r \notin DOMAIN requests
  BY <1>1
<1>3. PICK q : q = [todo |-> todo, user |-> i, pw |-> pw, link |-> link, login |-> FALSE,
                    seen |-> <<>>, keys |-> {}]
  OBVIOUS
<1>4. requests' = With(requests, r, q)
  BY <1>2, <1>3 DEF Begin, Begun
<1>5. q.todo = todo
  BY <1>3
<1> QED
  BY <1>2, <1>4, <1>5, CalmAdded DEF Renews, Owes

LEMMA CalmRefresh ==
    ASSUME DOMAIN requests \subseteq Requests, ThenRefresh
    PROVE  RequestsCalm /\ Owing'
<1>1. PICK todo : todo = Refresh
  OBVIOUS
<1>2. todo[1] \notin Stages /\ todo \in OwingPlans
  BY <1>1 DEF Refresh, Stages, OwingPlans
<1> QED
  BY <1>1, <1>2, CalmBegin DEF ThenRefresh

LEMMA CalmReplaced ==
    ASSUME NEW r \in DOMAIN requests, ~Renews(requests[r]), NEW p, ~Renews(p),
           Owes(requests[r]) => Owes(p), requests' = [requests EXCEPT ![r] = p]
    PROVE  RequestsCalm /\ (Owes(p) => Owing')
<1>1. /\ DOMAIN requests' = DOMAIN requests /\ requests'[r] = p
      /\ \A k \in DOMAIN requests \ {r} : requests'[k] = requests[k]
  OBVIOUS
<1>2. RequestsCalm
  BY <1>1 DEF RequestsCalm
<1>3. Owes(p) => Owing'
  BY <1>1 DEF Owing, Owes
<1> QED
  BY <1>2, <1>3

LEMMA CalmEnd ==
    ASSUME NEW r \in DOMAIN requests, ~Renews(requests[r]), ~Owes(requests[r]), End(r)
    PROVE  RequestsCalm
<1>1. /\ DOMAIN requests' = DOMAIN requests \ {r}
      /\ \A k \in DOMAIN requests' : requests'[k] = requests[k]
  BY DEF End
<1> QED
  BY <1>1 DEF RequestsCalm

\* A request of which something is left does its next step.
LEMMA CalmContinue ==
    ASSUME RequestsFit, serial.user \in Nat, NEW r \in DOMAIN requests, NEW q, Fits(q, serial.user),
           q.todo = requests[r].todo, q.todo[1] \notin Renewals, Continue(r, q)
    PROVE  RequestsCalm /\ (q.todo[1] = "rotate" => Owing')
<1>1. Onward(q.todo) /\ Planned(q.todo)
  BY OnwardFacts, FitsFacts
<1>2. ~Renews(requests[r])
  BY DEF Renews, Stages, Renewals
<1>3. CASE Len(q.todo) = 1
  <2>1. ~Owes(requests[r]) /\ q.todo[1] # "rotate"
    BY <1>1, <1>3 DEF Onward, Owes
  <2> QED
    BY <1>2, <1>3, <2>1, CalmEnd DEF Continue
<1>4. CASE Len(q.todo) # 1
  <2>1. PICK p : p = [q EXCEPT !.todo = Tail(@)] /\ p.todo = Tail(q.todo)
    BY <1>4, FitsNext
  <2>2. requests' = [requests EXCEPT ![r] = p]
    BY <1>4, <2>1 DEF Continue
  <2>3. ~Renews(p)
    BY <1>1, <1>4, <2>1 DEF Onward, Renews
  <2>4. Owes(requests[r]) => Owes(p)
    BY <1>1, <2>1 DEF Onward, Owes
  <2>5. q.todo[1] = "rotate" => Owes(p)
    BY <1>1, <2>1 DEF Onward, Owes
  <2> QED
    BY <1>2, <2>2, <2>3, <2>4, <2>5, CalmReplaced
<1> QED
  BY <1>3, <1>4

\* A request that ends before its refresh is owed.
LEMMA CalmGivenUp ==
    ASSUME AccessInv, NEW r, NEW step \in {"profile", "consume", "rotate", "reset"}, At(r, step), End(r)
    PROVE  RequestsCalm
<1>1. r \in DOMAIN requests /\ Fits(requests[r], serial.user) /\ requests[r].todo[1] = step
  BY AtFacts, Usual
<1>2. Onward(requests[r].todo)
  BY <1>1, OnwardFacts, FitsFacts, Usual
<1>3. ~Renews(requests[r]) /\ ~Owes(requests[r])
  BY <1>1, <1>2 DEF Onward, Renews, Owes, Stages
<1> QED
  BY <1>1, <1>3, CalmEnd

\* One that goes on as it was, but for what it remembers.
LEMMA CalmStep ==
    ASSUME AccessInv, NEW r, NEW step \in Steps \ Renewals, At(r, step), NEW q, Fits(q, serial.user),
           q.todo = requests[r].todo, Continue(r, q)
    PROVE  RequestsCalm /\ (step = "rotate" => Owing')
<1>1. r \in DOMAIN requests /\ requests[r].todo[1] = step
  BY AtFacts, Usual
<1> QED
  BY <1>1, CalmContinue, Usual

-----------------------------------------------------------------------------
(* Rows that stay what they are for the cache. *)

AccountAlike(i) ==
    /\ i \in DOMAIN users'
    /\ users'[i].api = users[i].api /\ users'[i].enabled = users[i].enabled
    /\ users'[i].role = users[i].role /\ users'[i].list = users[i].list
    /\ Grants(i)' = Grants(i) /\ Lists(i)' = Lists(i)

TokenAlike(i) == users'[i].has = users[i].has /\ users'[i].pw = users[i].pw

\* Keys stay but for the time of some, which is over.
KeysAlike ==
    /\ DOMAIN tokens' = DOMAIN tokens
    /\ \A t \in DOMAIN tokens :
          /\ tokens'[t].user = tokens[t].user /\ tokens'[t].personal = tokens[t].personal
          /\ tokens'[t].scope = tokens[t].scope /\ tokens'[t].revoked = tokens[t].revoked
          /\ tokens[t].expired => tokens'[t].expired

RowsAlike ==
    /\ ApisOf(Seen)' = ApisOf(Seen)
    /\ \A i \in DOMAIN users : AccountAlike(i)
    /\ KeysAlike

LEMMA AlikeSame ==
    ASSUME UNCHANGED <<users, roles>>
    PROVE  ApisOf(Seen)' = ApisOf(Seen) /\ \A i \in DOMAIN users : AccountAlike(i)
<1>1. ApisOf(Seen)' = ApisOf(Seen)
  BY DEF ApisOf, Seen
<1>2. \A i \in DOMAIN users : AccountAlike(i)
  BY DEF AccountAlike, Grants, Lists
<1> QED
  BY <1>1, <1>2

LEMMA SeenFacts ==
    /\ DOMAIN Seen = DOMAIN users
    /\ \A i \in DOMAIN users :
          Seen[i] = [api |-> users[i].api, enabled |-> users[i].enabled, token |-> <<users[i].has, users[i].pw>>,
                     grants |-> Grants(i), lists |-> Lists(i)]
  BY DEF Seen, Grants, Lists

\* Of an account that was just read everything is so.
LEMMA SeenRead == \A i \in DOMAIN users : Read(Seen, i)
  BY SeenFacts DEF Read

LEMMA ReadStill ==
    ASSUME NEW i \in DOMAIN users, AccountAlike(i), NEW s, Read(s, i)
    PROVE  Read(s, i)'
  BY DEF AccountAlike, Read

\* New accounts are no service accounts.
LEMMA ApisAlike ==
    ASSUME \A i \in DOMAIN users : AccountAlike(i) /\ TokenAlike(i),
           \A i \in DOMAIN users' \ DOMAIN users : ~users'[i].api
    PROVE  ApisOf(Seen)' = ApisOf(Seen)
<1>1. PICK s : s = Seen /\ DOMAIN s = DOMAIN users
  BY SeenFacts
<1>2. PICK p : p = Seen' /\ DOMAIN p = DOMAIN users'
  BY SeenFacts DEF Seen
<1>3. ASSUME NEW i \in DOMAIN users PROVE i \in DOMAIN p /\ p[i] = s[i]
  <2>1. s[i] = [api |-> users[i].api, enabled |-> users[i].enabled, token |-> <<users[i].has, users[i].pw>>,
                grants |-> Grants(i), lists |-> Lists(i)]
    BY <1>1, SeenFacts
  <2>2. p[i] = [api |-> users'[i].api, enabled |-> users'[i].enabled,
                token |-> <<users'[i].has, users'[i].pw>>, grants |-> Grants(i)', lists |-> Lists(i)']
    BY <1>2 DEF Seen, Grants, Lists, AccountAlike
  <2> QED
    BY <1>2, <2>1, <2>2 DEF AccountAlike, TokenAlike
<1>4. \A i \in DOMAIN users' \ DOMAIN users : ~p[i].api
  BY <1>2 DEF Seen
<1>5. {i \in DOMAIN p : p[i].api /\ p[i].enabled} = {i \in DOMAIN s : s[i].api /\ s[i].enabled}
  BY <1>1, <1>2, <1>3, <1>4
<1>6. ApisOf(p) = ApisOf(s)
  BY <1>1, <1>3, <1>5 DEF ApisOf
<1>7. ApisOf(Seen)' = ApisOf(p)
  BY <1>2 DEF ApisOf
<1> QED
  BY <1>1, <1>6, <1>7

LEMMA KeysSame ==
    ASSUME UNCHANGED tokens
    PROVE  KeysAlike
  BY DEF KeysAlike

LEMMA KeysRemain ==
    ASSUME KeysTypeOK, DOMAIN users \subseteq DOMAIN users', tokens' = KeysOfRemaining
    PROVE  KeysAlike
<1>1. DOMAIN tokens' = DOMAIN tokens /\ \A t \in DOMAIN tokens : tokens'[t] = tokens[t]
  BY DEF KeysTypeOK, KeysOfRemaining
<1> QED
  BY <1>1 DEF KeysAlike

\* What was read of the accounts agrees with the rows as before.
LEMMA AgreesStill ==
    ASSUME KeysTypeOK, RowsAlike, NEW s, Agrees(s)
    PROVE  Agrees(s)'
<1>1. ApisOf(s)' = ApisOf(s) /\ ApisOf(s) = ApisOf(Seen)'
  BY DEF Agrees, RowsAlike, ApisOf
<1>2. ASSUME NEW t \in DOMAIN tokens', Active(t)' PROVE Read(s, tokens[t].user)'
  <2>1. t \in DOMAIN tokens /\ Active(t) /\ tokens'[t].user = tokens[t].user
    BY <1>2 DEF RowsAlike, KeysAlike, Active
  <2>2. PICK i \in DOMAIN users : i = tokens[t].user
    BY <2>1 DEF KeysTypeOK
  <2>3. Read(s, i)
    BY <2>1, <2>2 DEF Agrees
  <2>4. Read(s, i)'
    BY <2>3, ReadStill DEF RowsAlike
  <2> QED
    BY <2>1, <2>2, <2>4
<1> QED
  BY <1>1, <1>2 DEF Agrees

LEMMA KeyRead ==
    ASSUME NEW q \in ReadKeys
    PROVE  /\ q.key \in DOMAIN tokens /\ Active(q.key) /\ q.user = tokens[q.key].user
           /\ q = [key |-> q.key, user |-> tokens[q.key].user, personal |-> tokens[q.key].personal,
                   scope |-> tokens[q.key].scope]
  BY DEF ReadKeys

\* The keys that can be read are those of before, but for the time of some.
LEMMA ListedStill ==
    ASSUME KeysAlike, NEW K, Listed(K)
    PROVE  Listed(K)'
<1>1. ASSUME NEW q \in ReadKeys' PROVE q \in ReadKeys
  <2>1. PICK t \in DOMAIN tokens' : /\ Active(t)'
                                    /\ q = [key |-> t, user |-> tokens'[t].user,
                                            personal |-> tokens'[t].personal, scope |-> tokens'[t].scope]
    BY <1>1 DEF ReadKeys
  <2>2. t \in DOMAIN tokens /\ Active(t)
    BY <2>1 DEF KeysAlike, Active
  <2> QED
    BY <2>1, <2>2 DEF KeysAlike, ReadKeys
<1>2. ExpiredKeys \subseteq ExpiredKeys'
  BY DEF KeysAlike, ExpiredKeys
<1>3. ASSUME NEW q \in ReadKeys, q \notin ReadKeys' PROVE q.key \in ExpiredKeys'
  <2>1. PICK t \in DOMAIN tokens : /\ Active(t)
                                   /\ q = [key |-> t, user |-> tokens[t].user,
                                           personal |-> tokens[t].personal, scope |-> tokens[t].scope]
    BY DEF ReadKeys
  <2>2. ~Active(t)'
    BY <1>3, <2>1 DEF KeysAlike, ReadKeys
  <2> QED
    BY <2>1, <2>2 DEF KeysAlike, Active, ExpiredKeys
<1> QED
  BY <1>1, <1>2, <1>3 DEF Listed

\* The accepted keys of the accounts s and the keys K that were read, and when
\* they are those of S and R: nothing but expired keys is missing in R, and the
\* owner of each key of R looks the same in s and in S.
AcceptedOf(s, K, X) == {k \in KeysOf(s, K) : k.key \notin X}

SameOwner(s, S, X, k) ==
    /\ k.key \notin X /\ k.user \in DOMAIN s /\ k.user \in DOMAIN S
    /\ s[k.user].enabled = S[k.user].enabled /\ s[k.user].api = S[k.user].api
    /\ s[k.user].grants = S[k.user].grants /\ s[k.user].lists = S[k.user].lists

SameRead(s, K, S, R, X) ==
    /\ R \subseteq K /\ \A k \in K \ R : k.key \in X
    /\ \A k \in R : SameOwner(s, S, X, k)

\* The keys that are accepted, from accounts and keys that were read.
LEMMA SameKeys ==
    ASSUME NEW s, NEW S, NEW K, NEW R, NEW X, SameRead(s, K, S, R, X)
    PROVE  AcceptedOf(s, K, X) = KeysOf(S, R)
<1>1. ASSUME NEW a \in KeysOf(s, K), a.key \notin X PROVE a \in KeysOf(S, R)
  <2>1. PICK k \in K : /\ k.user \in DOMAIN s /\ s[k.user].enabled /\ s[k.user].api = ~k.personal
                       /\ a = [key |-> k.key, scope |-> k.scope, grants |-> s[k.user].grants,
                               lists |-> s[k.user].lists]
    BY <1>1 DEF KeysOf
  <2>2. k \in R /\ SameOwner(s, S, X, k)
    BY <1>1, <2>1 DEF SameRead
  <2> QED
    BY <2>1, <2>2 DEF KeysOf, SameOwner
<1>2. ASSUME NEW a \in KeysOf(S, R) PROVE a \in KeysOf(s, K) /\ a.key \notin X
  <2>1. PICK k \in R : /\ k.user \in DOMAIN S /\ S[k.user].enabled /\ S[k.user].api = ~k.personal
                       /\ a = [key |-> k.key, scope |-> k.scope, grants |-> S[k.user].grants,
                               lists |-> S[k.user].lists]
    BY <1>2 DEF KeysOf
  <2>2. k \in K /\ SameOwner(s, S, X, k)
    BY <2>1 DEF SameRead
  <2> QED
    BY <2>1, <2>2 DEF KeysOf, SameOwner
<1> QED
  BY <1>1, <1>2 DEF AcceptedOf

\* So they are those of the rows.
LEMMA KeysCurrent ==
    ASSUME KeysTypeOK, NEW s, NEW K, Agrees(s), Listed(K)
    PROVE  {k \in KeysOf(s, K) : k.key \notin ExpiredKeys} = KeysOf(Seen, ReadKeys)
<1>1. PICK S, R, X : S = Seen /\ R = ReadKeys /\ X = ExpiredKeys
  OBVIOUS
<1>2. R \subseteq K /\ \A k \in K \ R : k.key \in X
  BY <1>1 DEF Listed
<1>3. ASSUME NEW k \in R
      PROVE  /\ k.key \notin X /\ k.user \in DOMAIN s /\ k.user \in DOMAIN S
             /\ s[k.user].enabled = S[k.user].enabled /\ s[k.user].api = S[k.user].api
             /\ s[k.user].grants = S[k.user].grants /\ s[k.user].lists = S[k.user].lists
  <2>1. /\ k.key \in DOMAIN tokens /\ Active(k.key) /\ k.user = tokens[k.key].user
        /\ tokens[k.key].user \in DOMAIN users
    BY <1>1, KeyRead DEF KeysTypeOK
  <2>2. PICK i \in DOMAIN users : i = k.user
    BY <2>1
  <2>3. Read(s, i) /\ Read(S, i)
    BY <1>1, <2>1, <2>2, SeenRead DEF Agrees
  <2>4. k.key \notin X
    BY <1>1, <2>1 DEF Active, ExpiredKeys
  <2> QED
    BY <2>2, <2>3, <2>4 DEF Read
<1>4. {k \in KeysOf(s, K) : k.key \notin X} = KeysOf(S, R)
  <2>1. SameRead(s, K, S, R, X)
    BY <1>2, <1>3 DEF SameRead, SameOwner
  <2>2. AcceptedOf(s, K, X) = KeysOf(S, R)
    BY <2>1, SameKeys
  <2> QED
    BY <2>2 DEF AcceptedOf
<1> QED
  BY <1>1, <1>4

\* What is read of the rows agrees with them.
LEMMA JustRead ==
    ASSUME KeysTypeOK
    PROVE  Agrees(Seen) /\ Listed(ReadKeys)
  BY SeenRead DEF Agrees, Listed, KeysTypeOK

LEMMA AcceptedFacts == Accepted = {k \in cache.keys : k.key \notin ExpiredKeys}
  BY DEF Accepted, ExpiredKeys

-----------------------------------------------------------------------------
(* Steps that leave the cache alone. *)

Undisturbed ==
    /\ RequestsCalm
    /\ cache'.apis = cache.apis /\ cache'.keys = cache.keys
    /\ cache'.alone => cache.alone /\ (RowsAlike \/ Owing')

\* While no refresh is under way, what is stored stays current.
LEMMA CurrentStill ==
    ASSUME KeysTypeOK, KeysTypeOK', RowsAlike, cache'.apis = cache.apis, cache'.keys = cache.keys, Current
    PROVE  Current'
<1>1. PICK s, K, S, R, X : /\ s = Seen /\ K = ReadKeys
                           /\ S = Seen' /\ R = ReadKeys' /\ X = ExpiredKeys'
  OBVIOUS
<1>2. Agrees(s)' /\ Listed(K)'
  BY <1>1, JustRead, AgreesStill, ListedStill DEF RowsAlike
<1>3. R \subseteq K /\ \A k \in K \ R : k.key \in X
  BY <1>1, <1>2 DEF Listed
<1>4. ASSUME NEW k \in R
      PROVE  /\ k.key \notin X /\ k.user \in DOMAIN s /\ k.user \in DOMAIN S
             /\ s[k.user].enabled = S[k.user].enabled /\ s[k.user].api = S[k.user].api
             /\ s[k.user].grants = S[k.user].grants /\ s[k.user].lists = S[k.user].lists
  <2>1. PICK t \in DOMAIN tokens' : /\ Active(t)' /\ k.key = t /\ k.user = tokens'[t].user
    BY <1>1 DEF ReadKeys
  <2>2. PICK i \in DOMAIN users' : i = k.user
    BY <2>1 DEF KeysTypeOK
  <2>3. Read(s, i)'
    BY <1>2, <2>1, <2>2 DEF Agrees
  <2>4. Read(S, i)'
    BY <1>1, <2>2 DEF Read, Seen, Grants, Lists
  <2>5. k.key \notin X
    BY <1>1, <2>1 DEF Active, ExpiredKeys
  <2> QED
    BY <2>2, <2>3, <2>4, <2>5 DEF Read
<1>5. {k \in KeysOf(s, K) : k.key \notin X} = KeysOf(S, R)
  <2>1. SameRead(s, K, S, R, X)
    BY <1>3, <1>4 DEF SameRead, SameOwner
  <2>2. AcceptedOf(s, K, X) = KeysOf(S, R)
    BY <2>1, SameKeys
  <2> QED
    BY <2>2 DEF AcceptedOf
<1>6. Accepted' = {k \in cache.keys : k.key \notin X}
  BY <1>1 DEF Accepted, ExpiredKeys
<1>7. ExpiredKeys \subseteq X
  BY <1>1 DEF RowsAlike, KeysAlike, ExpiredKeys
<1>8. {k \in cache.keys : k.key \notin ExpiredKeys} = KeysOf(s, K)
  BY <1>1, AcceptedFacts DEF Current
<1>9. Accepted' = {k \in KeysOf(s, K) : k.key \notin X}
  BY <1>6, <1>7, <1>8
<1>10. Accepted' = KeysOf(Seen, ReadKeys)'
  <2>1. KeysOf(Seen, ReadKeys)' = KeysOf(S, R)
    BY <1>1 DEF KeysOf
  <2> QED
    BY <1>5, <1>9, <2>1
<1>11. cache'.apis = ApisOf(Seen)'
  BY DEF Current, RowsAlike
<1> QED
  BY <1>10, <1>11 DEF Current

LEMMA UndisturbedKeeps ==
    ASSUME KeysTypeOK, KeysTypeOK', CacheInv, Undisturbed
    PROVE  CacheInv'
<1> SUFFICES ASSUME cache'.alone PROVE CacheInv'
  BY DEF CacheInv
<1>1. /\ cache.alone /\ (RowsAlike \/ Owing') /\ RequestsCalm
      /\ cache'.apis = cache.apis /\ cache'.keys = cache.keys
  BY DEF Undisturbed
<1>2. \A q, r \in DOMAIN requests' : Renews(requests'[q]) /\ Renews(requests'[r]) => q = r
  BY <1>1 DEF RequestsCalm, CacheInv
<1>3. CASE Owing'
  BY <1>2, <1>3 DEF CacheInv
<1>4. CASE ~Owing'
  <2>1. RowsAlike /\ ~Owing
    BY <1>1, <1>4 DEF RequestsCalm, Owing
  <2>2. ASSUME NEW r \in DOMAIN requests', Renews(requests'[r]) PROVE Staged(requests[r])'
    <3>1. r \in DOMAIN requests /\ requests'[r] = requests[r]
      BY <1>1, <2>2 DEF RequestsCalm
    <3>2. PICK q : q = requests[r]
      OBVIOUS
    <3>3. Staged(q)
      BY <1>1, <2>1, <2>2, <3>1, <3>2 DEF CacheInv
    <3>4. PICK s, K : s = q.seen /\ K = q.keys
      OBVIOUS
    <3>5. Agrees(s)'
      BY <2>1, <3>3, <3>4, AgreesStill DEF Staged
    <3>6. q.todo[1] # "readKeys" => Listed(K)'
      BY <2>1, <3>3, <3>4, ListedStill DEF Staged, RowsAlike
    <3>7. q.todo[1] = "cacheKeys" => cache'.apis = ApisOf(Seen)'
      BY <1>1, <2>1, <3>3 DEF Staged, RowsAlike
    <3>8. Staged(q)'
      BY <3>4, <3>5, <3>6, <3>7 DEF Staged
    <3> QED
      BY <3>1, <3>2, <3>8 DEF Staged, Agrees, Listed, Read
  <2>3. ASSUME \A r \in DOMAIN requests' : ~Renews(requests'[r]) PROVE Current'
    <3>1. \A r \in DOMAIN requests : ~Renews(requests[r])
      BY <1>1, <2>3 DEF RequestsCalm
    <3>2. Current
      BY <1>1, <2>1, <3>1 DEF CacheInv
    <3> QED
      BY <1>1, <2>1, <3>2, CurrentStill
  <2> QED
    BY <1>2, <1>4, <2>2, <2>3 DEF CacheInv
<1> QED
  BY <1>3, <1>4

\* A step that owes a refresh from now on, or leaves requests and rows alone.
LEMMA OwedKeeps ==
    ASSUME AccessInv, AccessInv', CacheInv, cache' = cache, RequestsCalm, Owing'
    PROVE  CacheInv'
  BY UndisturbedKeeps DEF AccessInv, Undisturbed

LEMMA AlikeKeeps ==
    ASSUME AccessInv, AccessInv', CacheInv, cache' = cache, RequestsCalm, RowsAlike
    PROVE  CacheInv'
  BY UndisturbedKeeps DEF AccessInv, Undisturbed

LEMMA SameKeeps ==
    ASSUME AccessInv, AccessInv', CacheInv, UNCHANGED <<users, roles, tokens, cache>>, RequestsCalm
    PROVE  CacheInv'
<1>1. RowsAlike
  BY AlikeSame, KeysSame DEF RowsAlike
<1> QED
  BY <1>1, AlikeKeeps

\* A change that no request renews the cache for.
LEMMA UnreadKeeps ==
    ASSUME AccessInv, AccessInv', CacheInv, Unread, RequestsCalm, KeysAlike,
           \A i \in DOMAIN users : AccountAlike(i)
    PROVE  CacheInv'
<1>1. cache'.apis = cache.apis /\ cache'.keys = cache.keys
  <2>1. CacheStays
    BY UnreadFacts DEF AccessInv
  <2> QED
    BY <2>1 DEF CacheStays, AccessInv, CacheFits, Cached
<1>2. cache'.alone => cache.alone /\ RowsAlike
  BY UnreadFacts DEF AccessInv, RowsAlike
<1> QED
  BY <1>1, <1>2, UndisturbedKeeps DEF AccessInv, Undisturbed

-----------------------------------------------------------------------------
(* Accounts and roles. *)

\* An edit is followed by a refresh.
LEMMA EditOwes ==
    ASSUME NEW f \in Form, NEW own \in BOOLEAN
    PROVE  AfterEdit(f, own) \in OwingPlans /\ AfterEdit(f, own)[1] \notin Stages
<1>1. CASE ~f.set
  <2>1. AfterEdit(f, own) = Refresh
    <3>1. Refresh \in Seq(Steps)
      BY DEF Refresh, Steps
    <3> QED
      BY <1>1, <3>1, EmptySeq, ConcatEmptySeq DEF AfterEdit
  <2> QED
    BY <2>1 DEF Refresh, OwingPlans, Stages
<1>2. CASE f.set /\ ~own
  <2>1. AfterEdit(f, own) = <<"destroy">> \o Refresh
    <3>1. <<"destroy">> \in Seq(Steps)
      BY DEF Steps
    <3>2. <<"destroy">> \o <<>> = <<"destroy">>
      BY <3>1, ConcatEmptySeq
    <3> QED
      BY <1>2, <3>2 DEF AfterEdit
  <2>2. "destroy" \in Steps
    BY DEF Steps
  <2>3. AfterEdit(f, own) = <<"destroy", "readUsers", "readKeys", "cacheUsers", "cacheKeys">>
    BY <2>1, <2>2, BeforeRefresh
  <2> QED
    BY <2>3 DEF OwingPlans, Stages
<1>3. CASE f.set /\ own
  <2> DEFINE s == (<<"destroy">> \o <<"session">>) \o Refresh
             t == <<"destroy", "session", "readUsers", "readKeys", "cacheUsers", "cacheKeys">>
  <2>1. s \in Seq(Steps) /\ t \in Seq(Steps) /\ Len(s) = 6 /\ Len(t) = 6
    BY DEF Refresh, Steps
  <2>2. \A i \in 1..6 : s[i] = t[i]
    BY DEF Refresh
  <2>3. s = t
    <3> HIDE DEF s, t
    <3>1. Len(s) = Len(t) /\ \A i \in 1..Len(s) : s[i] = t[i]
      BY <2>1, <2>2
    <3> QED
      BY <2>1, <3>1, SeqEqual
  <2>4. AfterEdit(f, own) = t
    BY <1>3, <2>3 DEF AfterEdit
  <2>5. t \in OwingPlans /\ t[1] \notin Stages
    BY DEF OwingPlans, Stages
  <2> HIDE DEF t
  <2> QED
    BY <2>4, <2>5
<1> QED
  BY <1>1, <1>2, <1>3

\* Accounts that are added disturb no other.
LEMMA AddedAlike ==
    ASSUME AccessInv, DOMAIN users \subseteq DOMAIN users', \A i \in DOMAIN users : users'[i] = users[i],
           DOMAIN roles \subseteq DOMAIN roles', \A r \in DOMAIN roles : roles'[r] = roles[r],
           \A i \in DOMAIN users' \ DOMAIN users : ~users'[i].api
    PROVE  ApisOf(Seen)' = ApisOf(Seen) /\ \A i \in DOMAIN users : AccountAlike(i)
<1>1. ASSUME NEW i \in DOMAIN users PROVE AccountAlike(i) /\ TokenAlike(i)
  <2>1. users[i].role \in DOMAIN roles /\ users[i].list \in DOMAIN roles \cup {NoRole}
    BY DEF AccessInv, AccountsTypeOK
  <2>2. Grants(i)' = Grants(i) /\ Lists(i)' = Lists(i)
    BY <2>1 DEF Grants, Lists
  <2> QED
    BY <2>2 DEF AccountAlike, TokenAlike
<1> QED
  BY <1>1, ApisAlike

\* The second factor of an account is nothing that a refresh reads.
LEMMA FactorAlike ==
    ASSUME AccessInv, UNCHANGED roles, NEW i \in DOMAIN users, NEW b \in BOOLEAN,
           users' = [users EXCEPT ![i].totp = b]
    PROVE  ApisOf(Seen)' = ApisOf(Seen) /\ \A j \in DOMAIN users : AccountAlike(j)
<1>1. PICK row : row = users[i] /\ row \in AccountRow
  BY DEF AccessInv, AccountsTypeOK
<1>2. PICK a : a = [row EXCEPT !.totp = b]
  OBVIOUS
<1>3. /\ a.api = row.api /\ a.enabled = row.enabled /\ a.role = row.role /\ a.list = row.list
      /\ a.has = row.has /\ a.pw = row.pw
  BY <1>1, <1>2 DEF AccountRow
<1>4. users' = [users EXCEPT ![i] = a]
  BY <1>1, <1>2
<1>5. DOMAIN users' = DOMAIN users
  BY <1>4
<1>6. ASSUME NEW j \in DOMAIN users PROVE AccountAlike(j) /\ TokenAlike(j)
  <2>1. /\ users'[j].api = users[j].api /\ users'[j].enabled = users[j].enabled
        /\ users'[j].role = users[j].role /\ users'[j].list = users[j].list
        /\ users'[j].has = users[j].has /\ users'[j].pw = users[j].pw
    BY <1>1, <1>3, <1>4
  <2>2. Grants(j)' = Grants(j) /\ Lists(j)' = Lists(j)
    BY <2>1 DEF Grants, Lists
  <2> QED
    BY <1>5, <2>1, <2>2 DEF AccountAlike, TokenAlike
<1> QED
  BY <1>5, <1>6, ApisAlike

LEMMA FirstTimeSetupCache ==
    ASSUME AccessInv, AccessInv', CacheInv, tokens' = KeysOfRemaining, cache' = cache, FirstTimeSetup
    PROVE  CacheInv'
<1>1. CASE \E i \in DOMAIN users : ~users[i].api
  <2>1. UNCHANGED <<users, roles, requests>>
    BY <1>1 DEF FirstTimeSetup
  <2>2. KeysAlike
    BY <2>1, KeysRemain DEF AccessInv
  <2> QED
    BY <2>1, <2>2, AlikeSame, CalmSame, AlikeKeeps DEF RowsAlike
<1>2. CASE ~ \E i \in DOMAIN users : ~users[i].api
  <2>1. /\ roles' = IF SuperAdminRoleID \in DOMAIN roles THEN roles
                    ELSE With(roles, SuperAdminRoleID, [list |-> FALSE, perms |-> 0])
        /\ users' = With(users, NextUser, FirstAccount)
        /\ Begin(<<"session", "ready">>, NextUser, 1, 0)
    BY <1>2 DEF FirstTimeSetup
  <2>2. NextUser \notin DOMAIN users
    <3>1. serial.user + 1 \notin 1..serial.user
      BY Usual
    <3> QED
      BY <3>1, Usual DEF NextUser
  <2>3. /\ DOMAIN users' = DOMAIN users \cup {NextUser}
        /\ \A i \in DOMAIN users : users'[i] = users[i]
        /\ users'[NextUser] = FirstAccount
    BY <2>1, <2>2 DEF With
  <2>4. DOMAIN roles \subseteq DOMAIN roles' /\ \A r \in DOMAIN roles : roles'[r] = roles[r]
    BY <2>1 DEF With
  <2>5. ~FirstAccount.api
    BY DEF FirstAccount, Account
  <2>6. RowsAlike
    BY <2>3, <2>4, <2>5, AddedAlike, KeysRemain DEF AccessInv, RowsAlike
  <2>7. RequestsCalm
    <3>a. <<"session", "ready">>[1] \notin Stages
      BY DEF Stages
    <3>1. PICK todo : todo = <<"session", "ready">> /\ todo[1] \notin Stages
      BY <3>a
    <3> QED
      BY <2>1, <3>1, CalmBegin, Usual
  <2> QED
    BY <2>6, <2>7, AlikeKeeps
<1> QED
  BY <1>1, <1>2

LEMMA WriteEditCache ==
    ASSUME AccessInv, AccessInv', CacheInv, tokens' = KeysOfRemaining, cache' = cache,
           NEW e \in editing, WriteEdit(e)
    PROVE  CacheInv'
<1>1. CASE UNCHANGED <<users, requests>>
  <2>1. UNCHANGED roles /\ KeysAlike
    BY <1>1, KeysRemain DEF AccessInv, WriteEdit
  <2> QED
    BY <1>1, <2>1, AlikeSame, CalmSame, AlikeKeeps DEF RowsAlike
<1>2. CASE Begin(AfterEdit(e.form, e.own), e.form.user, users'[e.form.user].pw, 0)
  <2>1. PICK f \in Form, own \in BOOLEAN : f = e.form /\ own = e.own
    BY DEF AccessInv, EditsFit
  <2>2. PICK todo : todo = AfterEdit(f, own) /\ todo \in OwingPlans /\ todo[1] \notin Stages
    BY EditOwes
  <2>3. PICK pw : pw = users'[e.form.user].pw
    OBVIOUS
  <2>4. Begin(todo, f.user, pw, 0)
    BY <1>2, <2>1, <2>2, <2>3
  <2>5. RequestsCalm /\ Owing'
    BY <2>2, <2>4, CalmBegin, Usual
  <2> QED
    BY <2>5, OwedKeeps
<1> QED
  BY <1>1, <1>2 DEF WriteEdit

\* Steps of accounts and roles: what they change, their own refresh will read.
LEMMA AccountStepCache ==
    ASSUME AccessInv, AccessInv', CacheInv, AccountStep
    PROVE  CacheInv'
<1>1. tokens' = KeysOfRemaining /\ cache' = cache
  BY DEF AccountStep
<1>2. CASE ThenRefresh
  BY <1>1, <1>2, CalmRefresh, OwedKeeps, Usual
<1>3. ASSUME UNCHANGED <<users, roles>>, RequestsCalm PROVE CacheInv'
  <2>1. KeysAlike
    BY <1>1, <1>3, KeysRemain DEF AccessInv
  <2> QED
    BY <1>1, <1>3, <2>1, AlikeSame, AlikeKeeps DEF RowsAlike
<1>4. ASSUME NEW r, SetupDone(r) PROVE CacheInv'
  <2>1. PICK q : q = requests[r] /\ Fits(q, serial.user)
    BY <1>4, AtFacts, Usual DEF SetupDone
  <2>2. PICK step \in Steps \ Renewals : step = "ready"
    BY DEF Steps, Renewals
  <2>3. RequestsCalm
    BY <1>4, <2>1, <2>2, CalmStep DEF SetupDone
  <2> QED
    BY <1>3, <1>4, <2>3 DEF SetupDone
<1>5. ASSUME NEW f, NEW own, OpenEdit(f, own) PROVE CacheInv'
  BY <1>3, <1>5, CalmSame DEF OpenEdit
<1>6. ASSUME NEW i \in DOMAIN users, EnableTOTP(i) \/ DisableTOTP(i) PROVE CacheInv'
  <2>1. PICK b \in BOOLEAN : users' = [users EXCEPT ![i].totp = b]
    BY <1>6 DEF EnableTOTP, DisableTOTP
  <2>2. UNCHANGED <<roles, requests>> /\ DOMAIN users' = DOMAIN users
    BY <1>6 DEF EnableTOTP, DisableTOTP
  <2>3. KeysAlike
    BY <1>1, <2>2, KeysRemain DEF AccessInv
  <2> QED
    BY <1>1, <2>1, <2>2, <2>3, FactorAlike, CalmSame, AlikeKeeps DEF RowsAlike
<1>7. ASSUME NEW list, CreateRole(list) PROVE CacheInv'
  <2>1. /\ UNCHANGED <<users, requests>> /\ roles' = With(roles, serial.role + 1, NewRole(list))
    BY <1>7 DEF CreateRole
  <2>2. serial.role + 1 \notin DOMAIN roles
    <3>1. serial.role + 1 \notin 1..serial.role
      BY Usual
    <3> QED
      BY <3>1 DEF AccessInv, SerialsFit
  <2>3. DOMAIN roles \subseteq DOMAIN roles' /\ \A r \in DOMAIN roles : roles'[r] = roles[r]
    BY <2>1, <2>2 DEF With
  <2>4. RowsAlike
    BY <1>1, <2>1, <2>3, AddedAlike, KeysRemain DEF AccessInv, RowsAlike
  <2> QED
    BY <1>1, <2>1, <2>4, CalmSame, AlikeKeeps
<1>8. ASSUME NEW e \in editing, WriteEdit(e) PROVE CacheInv'
  BY <1>1, <1>8, WriteEditCache
<1>9. CASE FirstTimeSetup
  BY <1>1, <1>9, FirstTimeSetupCache
<1>10. ASSUME NEW f, NEW g, NEW ids, NEW r,
              CreateUser(f) \/ CreateUsers(f, g) \/ DeleteUsers(ids) \/ UpdateRole(r) \/ DeleteRole(r)
       PROVE  CacheInv'
  BY <1>2, <1>10 DEF CreateUser, CreateUsers, DeleteUsers, UpdateRole, DeleteRole
<1> QED
  BY <1>4, <1>5, <1>6, <1>7, <1>8, <1>9, <1>10 DEF AccountStep

-----------------------------------------------------------------------------
(* Profiles and keys. *)

LEMMA ProfileAlike ==
    ASSUME NEW row \in AccountRow, NEW login, NEW set, NEW a, a = Profile(row, login, set)
    PROVE  a.api = row.api /\ a.enabled = row.enabled /\ a.role = row.role /\ a.list = row.list
  BY DEF Profile, AccountRow

\* A profile that is written changes at most the token of its account.
LEMMA WrittenAlike ==
    ASSUME AccessInv, UNCHANGED <<roles, tokens>>, NEW i \in DOMAIN users, NEW login, NEW set,
           users' = [users EXCEPT ![i] = Profile(@, login, set)]
    PROVE  KeysAlike /\ \A j \in DOMAIN users : AccountAlike(j)
<1>1. PICK row : row = users[i] /\ row \in AccountRow
  BY DEF AccessInv, AccountsTypeOK
<1>2. PICK a : a = Profile(row, login, set)
  OBVIOUS
<1>3. users' = [users EXCEPT ![i] = a]
  BY <1>1, <1>2
<1>4. a.api = row.api /\ a.enabled = row.enabled /\ a.role = row.role /\ a.list = row.list
  BY <1>1, <1>2, ProfileAlike
<1>5. ASSUME NEW j \in DOMAIN users PROVE AccountAlike(j)
  <2>1. /\ users'[j].api = users[j].api /\ users'[j].enabled = users[j].enabled
        /\ users'[j].role = users[j].role /\ users'[j].list = users[j].list
        /\ j \in DOMAIN users'
    BY <1>1, <1>3, <1>4
  <2>2. Grants(j)' = Grants(j) /\ Lists(j)' = Lists(j)
    BY <2>1 DEF Grants, Lists
  <2> QED
    BY <2>1, <2>2 DEF AccountAlike
<1> QED
  BY <1>5, KeysSame

LEMMA OpenProfileCache ==
    ASSUME AccessInv, AccessInv', CacheInv, UNCHANGED keyVars, NEW i, NEW login, NEW session, NEW set,
           OpenProfile(i, login, session, set)
    PROVE  CacheInv'
<1>1. PICK todo : /\ todo = IF ~set THEN <<"profile">>
                            ELSE IF session THEN <<"profile", "destroy", "session">>
                                 ELSE <<"profile", "destroy">>
                  /\ todo[1] = "profile"
  <2>1. /\ <<"profile">>[1] = "profile" /\ <<"profile", "destroy">>[1] = "profile"
        /\ <<"profile", "destroy", "session">>[1] = "profile"
    OBVIOUS
  <2> QED
    BY <2>1
<1>2. FreeRequest \in Requests \ DOMAIN requests
  BY Usual DEF FreeRequest, OpenProfile
<1>3. PICK r : r = FreeRequest /\ r \notin DOMAIN requests
  BY <1>2
<1>4. PICK p : p = [todo |-> todo, user |-> i, pw |-> 0, link |-> 0, login |-> FALSE,
                    seen |-> <<>>, keys |-> {}]
  OBVIOUS
<1>5. PICK b : b = login
  OBVIOUS
<1>6. PICK q : q = [p EXCEPT !.login = b]
  OBVIOUS
<1>7. requests' = With(requests, r, q)
  <2>1. Begun(todo, i, 0, 0) = With(requests, r, p)
    BY <1>3, <1>4 DEF Begun
  <2>2. requests' = [With(requests, r, p) EXCEPT ![r].login = b]
    BY <1>1, <1>3, <1>5, <2>1 DEF OpenProfile
  <2>3. r \in DOMAIN With(requests, r, p) /\ With(requests, r, p)[r] = p
    BY DEF With
  <2>4. requests' = [With(requests, r, p) EXCEPT ![r] = q]
    BY <1>6, <2>2, <2>3
  <2> QED
    BY <2>4 DEF With
<1>8. ~Renews(q)
  <2>1. q.todo = todo
    BY <1>4, <1>6
  <2> QED
    BY <1>1, <2>1 DEF Renews, Stages
<1>9. RequestsCalm
  BY <1>3, <1>7, <1>8, CalmAdded
<1> QED
  BY <1>9, SameKeeps DEF OpenProfile, accountVars, keyVars

LEMMA UpdateUserProfileCache ==
    ASSUME AccessInv, AccessInv', CacheInv, UNCHANGED tokens, Unread, NEW r, UpdateUserProfile(r)
    PROVE  CacheInv'
<1>1. At(r, "profile") /\ UNCHANGED roles
  BY DEF UpdateUserProfile
<1>2. PICK q : q = requests[r] /\ Fits(q, serial.user)
  BY <1>1, AtFacts, Usual
<1>3. PICK step \in Steps \ Renewals : step = "profile" /\ At(r, step)
  BY <1>1 DEF Steps, Renewals
<1>4. CASE q.user \in DOMAIN users
  <2>1. PICK i \in DOMAIN users : i = q.user
    BY <1>4
  <2>2. users' = [users EXCEPT ![i] = Profile(@, q.login, Len(q.todo) > 1)]
    BY <1>2, <1>4, <2>1 DEF UpdateUserProfile
  <2>3. KeysAlike /\ \A j \in DOMAIN users : AccountAlike(j)
    BY <1>1, <2>2, WrittenAlike
  <2>4. PICK pw : pw = users'[q.user].pw
    OBVIOUS
  <2>5. PICK p : p = [q EXCEPT !.pw = pw]
    OBVIOUS
  <2>6. Continue(r, p)
    BY <1>2, <1>4, <2>4, <2>5 DEF UpdateUserProfile
  <2>7. pw \in Nat
    BY <2>1, <2>2, <2>4 DEF AccessInv, AccountsTypeOK, AccountRow
  <2>8. Fits(p, serial.user) /\ p.todo = q.todo
    BY <1>2, <2>5, <2>7, FitsWith, Usual
  <2>9. RequestsCalm
    BY <1>2, <1>3, <2>6, <2>8, CalmStep
  <2> QED
    BY <2>3, <2>9, UnreadKeeps
<1>5. CASE q.user \notin DOMAIN users
  <2>1. End(r) /\ UNCHANGED users
    BY <1>2, <1>5 DEF UpdateUserProfile
  <2>2. RequestsCalm
    BY <1>1, <2>1, CalmGivenUp
  <2> QED
    BY <1>1, <2>1, <2>2, AlikeSame, KeysSame, UnreadKeeps
<1> QED
  BY <1>4, <1>5

LEMMA ProfileStepCache ==
    ASSUME AccessInv, AccessInv', CacheInv, ProfileStep
    PROVE  CacheInv'
<1>1. ASSUME NEW i, NEW login, NEW session, NEW set, OpenProfile(i, login, session, set), cache' = cache
      PROVE  CacheInv'
  <2>1. UNCHANGED keyVars
    BY <1>1 DEF ProfileStep, keyVars
  <2> QED
    BY <1>1, <2>1, OpenProfileCache
<1>2. ASSUME NEW r, UpdateUserProfile(r), Unread PROVE CacheInv'
  BY <1>2, UpdateUserProfileCache DEF ProfileStep
<1>3. \/ cache' = cache /\ \E i, login, session, set : OpenProfile(i, login, session, set)
      \/ Unread /\ \E r : UpdateUserProfile(r)
  BY DEF ProfileStep
<1> QED
  BY <1>1, <1>2, <1>3

\* The time of a key is over.
LEMMA ExpireCache ==
    ASSUME AccessInv, AccessInv', CacheInv, NEW t \in DOMAIN tokens, Expire(t)
    PROVE  CacheInv'
<1>1. UNCHANGED <<users, roles, requests, cache>>
  BY DEF Expire, accountVars
<1>2. PICK b : b = TRUE
  OBVIOUS
<1>3. tokens' = [tokens EXCEPT ![t].expired = b]
  BY <1>2 DEF Expire
<1>4. PICK row : row = tokens[t] /\ row \in KeyRow
  BY DEF AccessInv, KeysTypeOK
<1>5. PICK a : a = [row EXCEPT !.expired = b]
  OBVIOUS
<1>6. /\ a.user = row.user /\ a.personal = row.personal /\ a.scope = row.scope
      /\ a.revoked = row.revoked /\ a.expired = b
  BY <1>4, <1>5 DEF KeyRow
<1>7. tokens' = [tokens EXCEPT ![t] = a]
  BY <1>3, <1>4, <1>5
<1>8. KeysAlike
  BY <1>2, <1>4, <1>6, <1>7 DEF KeysAlike
<1> QED
  BY <1>1, <1>8, AlikeSame, CalmSame, AlikeKeeps DEF RowsAlike

LEMMA OpenRotationCache ==
    ASSUME AccessInv, AccessInv', CacheInv, NEW t, OpenRotation(t)
    PROVE  CacheInv'
<1>1. PICK todo : todo = <<"rotate">> \o Refresh /\ todo[1] \notin Stages
  <2>1. <<"rotate">> \o Refresh = <<"rotate", "readUsers", "readKeys", "cacheUsers", "cacheKeys">>
    BY BeforeRefresh DEF Steps
  <2>2. <<"rotate", "readUsers", "readKeys", "cacheUsers", "cacheKeys">>[1] \notin Stages
    BY DEF Stages
  <2> QED
    BY <2>1, <2>2
<1>2. PICK i : i = tokens[t].user
  OBVIOUS
<1>3. Begin(todo, i, 0, t)
  BY <1>1, <1>2 DEF OpenRotation
<1>4. RequestsCalm
  BY <1>1, <1>3, CalmBegin, Usual
<1> QED
  BY <1>4, SameKeeps DEF OpenRotation, accountVars, keyVars

LEMMA RotateCache ==
    ASSUME AccessInv, AccessInv', CacheInv, NEW r, RotatePersonalIntegrationToken(r)
    PROVE  CacheInv'
<1>1. At(r, "rotate") /\ cache' = cache /\ UNCHANGED <<users, roles>>
  BY DEF RotatePersonalIntegrationToken, accountVars
<1>2. CASE Continue(r, requests[r])
  <2>1. PICK q : q = requests[r] /\ Fits(q, serial.user)
    BY <1>1, AtFacts, Usual
  <2>2. PICK step \in Steps \ Renewals : step = "rotate" /\ At(r, step)
    BY <1>1 DEF Steps, Renewals
  <2>3. RequestsCalm /\ Owing'
    BY <1>2, <2>1, <2>2, CalmStep
  <2> QED
    BY <1>1, <2>3, OwedKeeps
<1>3. CASE End(r) /\ UNCHANGED tokens
  <2>1. RequestsCalm
    BY <1>1, <1>3, CalmGivenUp
  <2> QED
    BY <1>1, <1>3, <2>1, SameKeeps
<1> QED
  BY <1>2, <1>3 DEF RotatePersonalIntegrationToken

-----------------------------------------------------------------------------
(* Refreshes. *)

\* A request that renews the cache goes to its next stage.
LEMMA NextStage ==
    ASSUME AccessInv, NEW r, NEW step \in Renewals, step # "cacheKeys", At(r, step),
           NEW q, Fits(q, serial.user), q.todo = requests[r].todo, Continue(r, q)
    PROVE  \E p : /\ requests' = [requests EXCEPT ![r] = p]
                  /\ p.seen = q.seen /\ p.keys = q.keys /\ Renews(p)
                  /\ step = "readUsers" => p.todo[1] = "readKeys"
                  /\ step = "readKeys" => p.todo[1] = "cacheUsers"
                  /\ step = "cacheUsers" => p.todo[1] = "cacheKeys"
<1>1. r \in DOMAIN requests /\ requests[r].todo[1] = step
  BY AtFacts, Usual
<1>2. Onward(q.todo)
  BY OnwardFacts, FitsFacts, Usual
<1>3. Len(q.todo) # 1
  BY <1>1, <1>2 DEF Onward, Renewals
<1>4. PICK p : p = [q EXCEPT !.todo = Tail(@)] /\ p.todo = Tail(q.todo) /\ p.seen = q.seen /\ p.keys = q.keys
  BY <1>3, FitsNext, Usual
<1>5. requests' = [requests EXCEPT ![r] = p]
  BY <1>3, <1>4 DEF Continue
<1>6. /\ step = "readUsers" => p.todo[1] = "readKeys"
      /\ step = "readKeys" => p.todo[1] = "cacheUsers"
      /\ step = "cacheUsers" => p.todo[1] = "cacheKeys"
  BY <1>1, <1>2, <1>3, <1>4 DEF Onward
<1>7. Renews(p)
  BY <1>6 DEF Renews, Stages, Renewals
<1> QED
  BY <1>4, <1>5, <1>6, <1>7

\* The one that does, and no other.
LEMMA OnlyOne ==
    ASSUME AccessInv, CacheInv, cache.alone, NEW r, NEW step \in Stages, At(r, step)
    PROVE  /\ r \in DOMAIN requests /\ Renews(requests[r]) /\ ~Owes(requests[r])
           /\ requests[r].todo[1] = step
           /\ \A k \in DOMAIN requests \ {r} : ~Renews(requests[k])
           /\ ~Owing => Staged(requests[r])
<1>1. r \in DOMAIN requests /\ requests[r].todo[1] = step /\ Fits(requests[r], serial.user)
  BY AtFacts, Usual
<1>2. Onward(requests[r].todo)
  BY <1>1, OnwardFacts, FitsFacts, Usual
<1>3. Renews(requests[r]) /\ ~Owes(requests[r])
  BY <1>1, <1>2 DEF Renews, Owes, Onward
<1> QED
  BY <1>1, <1>3 DEF CacheInv

\* What it has to know then.
LEMMA StageKeeps ==
    ASSUME NEW r \in DOMAIN requests, NEW p, Renews(p), requests' = [requests EXCEPT ![r] = p],
           cache'.alone => \A k \in DOMAIN requests \ {r} : ~Renews(requests[k]),
           cache'.alone /\ ~Owing' => Staged(p)'
    PROVE  CacheInv'
<1> SUFFICES ASSUME cache'.alone PROVE CacheInv'
  BY DEF CacheInv
<1>1. /\ DOMAIN requests' = DOMAIN requests /\ requests'[r] = p
      /\ \A k \in DOMAIN requests \ {r} : requests'[k] = requests[k]
  OBVIOUS
<1>2. \A k \in DOMAIN requests' : Renews(requests'[k]) => k = r
  BY <1>1
<1>3. ASSUME ~Owing', NEW k \in DOMAIN requests', Renews(requests'[k]) PROVE Staged(requests[k])'
  <2>1. Staged(p)' /\ requests'[k] = p
    BY <1>1, <1>2, <1>3
  <2> QED
    BY <2>1 DEF Staged, Agrees, Listed, Read
<1>4. ~ \A k \in DOMAIN requests' : ~Renews(requests'[k])
  BY <1>1
<1> QED
  BY <1>2, <1>3, <1>4 DEF CacheInv

LEMMA GetUsersCache ==
    ASSUME AccessInv, AccessInv', CacheInv, NEW r, GetUsers(r)
    PROVE  CacheInv'
<1>1. At(r, "readUsers") /\ UNCHANGED <<users, roles, tokens>>
  BY DEF GetUsers, accountVars
<1>2. r \in DOMAIN requests /\ Fits(requests[r], serial.user)
  BY <1>1, AtFacts, Usual
<1>3. PICK x : x = Seen /\ DOMAIN x \subseteq Users \cap 1..serial.user
  BY SeenFacts, Usual
<1>4. PICK old : old = requests[r] /\ Fits(old, serial.user)
  BY <1>2
<1>5. PICK q : q = [old EXCEPT !.seen = x]
  OBVIOUS
<1>6. Fits(q, serial.user) /\ q.todo = old.todo /\ q.seen = x
  BY <1>3, <1>4, <1>5 DEF Fits
<1>7. Continue(r, q)
  BY <1>3, <1>4, <1>5 DEF GetUsers
<1>8. PICK step \in Renewals : step = "readUsers" /\ At(r, step) /\ step # "cacheKeys"
  BY <1>1 DEF Renewals
<1>9. PICK p : /\ requests' = [requests EXCEPT ![r] = p] /\ p.seen = x /\ Renews(p)
               /\ p.todo[1] = "readKeys"
  BY <1>4, <1>6, <1>7, <1>8, NextStage
<1>10. cache'.alone => \A k \in DOMAIN requests : ~Renews(requests[k])
  <2>1. PICK b : b = \A k \in DOMAIN requests : ~Renewing(k)
    OBVIOUS
  <2>2. cache' = [cache EXCEPT !.alone = b]
    BY <2>1 DEF GetUsers
  <2>3. cache'.alone = b
    BY <2>2 DEF AccessInv, CacheFits, Cached
  <2>4. ASSUME NEW k \in DOMAIN requests, Renews(requests[k]) PROVE Renewing(k)
    <3>1. Fits(requests[k], serial.user)
      BY Usual DEF RequestsFit
    <3>2. Planned(requests[k].todo)
      BY <3>1, FitsFacts, Usual
    <3> QED
      BY <2>4, <3>2 DEF Planned, Renewing, Renews, Stages
  <2> QED
    BY <2>1, <2>3, <2>4
<1>11. Staged(p)'
  <2>1. Agrees(x)
    BY <1>3, JustRead DEF AccessInv
  <2>2. Agrees(x)'
    BY <1>1, <2>1, AlikeSame, KeysSame, AgreesStill DEF RowsAlike, AccessInv
  <2> QED
    BY <1>9, <2>2 DEF Staged
<1> QED
  BY <1>2, <1>9, <1>10, <1>11, StageKeeps

LEMMA GetActiveIntegrationTokensCache ==
    ASSUME AccessInv, AccessInv', CacheInv, NEW r, GetActiveIntegrationTokens(r)
    PROVE  CacheInv'
<1>1. At(r, "readKeys") /\ UNCHANGED <<users, roles, tokens, cache>>
  BY DEF GetActiveIntegrationTokens, accountVars, keyVars
<1>2. r \in DOMAIN requests /\ Fits(requests[r], serial.user)
  BY <1>1, AtFacts, Usual
<1>3. PICK x : x = ReadKeys
  OBVIOUS
<1>4. PICK old : old = requests[r] /\ Fits(old, serial.user)
  BY <1>2
<1>5. PICK q : q = [old EXCEPT !.keys = x]
  OBVIOUS
<1>6. Fits(q, serial.user) /\ q.todo = old.todo /\ q.seen = old.seen /\ q.keys = x
  BY <1>3, <1>4, <1>5 DEF Fits
<1>7. Continue(r, q)
  BY <1>3, <1>4, <1>5 DEF GetActiveIntegrationTokens
<1>8. PICK step \in Renewals : step = "readKeys" /\ At(r, step) /\ step # "cacheKeys" /\ step \in Stages
  BY <1>1 DEF Renewals, Stages
<1>9. PICK p : /\ requests' = [requests EXCEPT ![r] = p] /\ p.seen = old.seen /\ p.keys = x /\ Renews(p)
               /\ p.todo[1] = "cacheUsers"
  BY <1>4, <1>6, <1>7, <1>8, NextStage
<1>10. cache'.alone => \A k \in DOMAIN requests \ {r} : ~Renews(requests[k])
  BY <1>1, <1>8, OnlyOne
<1>11. ASSUME cache'.alone, ~Owing' PROVE Staged(p)'
  <2>1. ~Owing
    <3>1. ~Owes(requests[r])
      BY <1>1, <1>8, <1>11, OnlyOne
    <3> QED
      BY <1>2, <1>9, <1>11, <3>1 DEF Owing
  <2>2. Agrees(old.seen)
    BY <1>1, <1>4, <1>8, <1>11, <2>1, OnlyOne DEF Staged
  <2>3. PICK s : s = old.seen /\ Agrees(s) /\ Listed(x)
    BY <1>3, <2>2, JustRead DEF AccessInv
  <2>4. RowsAlike
    BY <1>1, AlikeSame, KeysSame DEF RowsAlike
  <2>5. Agrees(s)' /\ Listed(x)'
    BY <2>3, <2>4, AgreesStill, ListedStill DEF RowsAlike, AccessInv
  <2> QED
    BY <1>9, <2>3, <2>5 DEF Staged
<1> QED
  BY <1>2, <1>9, <1>10, <1>11, StageKeeps

LEMMA CacheAPIUsersCache ==
    ASSUME AccessInv, AccessInv', CacheInv, NEW r, CacheAPIUsers(r)
    PROVE  CacheInv'
<1>1. At(r, "cacheUsers") /\ UNCHANGED <<users, roles, tokens>>
  BY DEF CacheAPIUsers, accountVars
<1>2. PICK q : q = requests[r] /\ Fits(q, serial.user) /\ r \in DOMAIN requests
  BY <1>1, AtFacts, Usual
<1>3. Continue(r, q)
  BY <1>2 DEF CacheAPIUsers
<1>4. PICK step \in Renewals : step = "cacheUsers" /\ At(r, step) /\ step # "cacheKeys" /\ step \in Stages
  BY <1>1 DEF Renewals, Stages
<1>5. PICK p : /\ requests' = [requests EXCEPT ![r] = p] /\ p.seen = q.seen /\ p.keys = q.keys /\ Renews(p)
               /\ p.todo[1] = "cacheKeys"
  BY <1>2, <1>3, <1>4, NextStage
<1>6. PICK apis, legacy : apis = ApisOf(q.seen) /\ legacy = FALSE
  OBVIOUS
<1>7. cache'.alone = cache.alone /\ cache'.apis = apis
  <2>1. cache' = [cache EXCEPT !.apis = apis, !.legacy = legacy]
    BY <1>2, <1>6 DEF CacheAPIUsers
  <2> QED
    BY <2>1 DEF AccessInv, CacheFits, Cached
<1>8. cache'.alone => \A k \in DOMAIN requests \ {r} : ~Renews(requests[k])
  BY <1>4, <1>7, OnlyOne
<1>9. ASSUME cache'.alone, ~Owing' PROVE Staged(p)'
  <2>1. ~Owing
    <3>1. ~Owes(requests[r])
      BY <1>4, <1>7, <1>9, OnlyOne
    <3> QED
      BY <1>2, <1>5, <1>9, <3>1 DEF Owing
  <2>2. Staged(q) /\ q.todo[1] = "cacheUsers"
    BY <1>2, <1>4, <1>7, <1>9, <2>1, OnlyOne
  <2>3. PICK s, K : s = q.seen /\ K = q.keys /\ Agrees(s) /\ Listed(K)
    BY <2>2 DEF Staged
  <2>4. RowsAlike
    BY <1>1, AlikeSame, KeysSame DEF RowsAlike
  <2>5. Agrees(s)' /\ Listed(K)'
    BY <2>3, <2>4, AgreesStill, ListedStill DEF RowsAlike, AccessInv
  <2>6. cache'.apis = ApisOf(Seen)'
    BY <1>6, <1>7, <2>3, <2>4 DEF Agrees, RowsAlike
  <2> QED
    BY <1>5, <2>3, <2>5, <2>6 DEF Staged
<1> QED
  BY <1>2, <1>5, <1>8, <1>9, StageKeeps

\* The second map is stored, and what is accepted is current.
LEMMA CacheIntegrationTokensCache ==
    ASSUME AccessInv, AccessInv', CacheInv, NEW r, CacheIntegrationTokens(r)
    PROVE  CacheInv'
<1>1. At(r, "cacheKeys") /\ UNCHANGED <<users, roles, tokens>>
  BY DEF CacheIntegrationTokens, accountVars
<1>2. PICK q : q = requests[r] /\ Fits(q, serial.user) /\ r \in DOMAIN requests /\ q.todo[1] = "cacheKeys"
  BY <1>1, AtFacts, Usual
<1>3. Len(q.todo) = 1
  BY <1>2, OnwardFacts, FitsFacts, Usual DEF Onward
<1>4. /\ DOMAIN requests' = DOMAIN requests \ {r}
      /\ \A k \in DOMAIN requests' : requests'[k] = requests[k]
  BY <1>2, <1>3 DEF CacheIntegrationTokens, Continue, End
<1>5. PICK stored : stored = KeysOf(q.seen, q.keys)
  OBVIOUS
<1>6. cache'.alone = cache.alone /\ cache'.apis = cache.apis /\ cache'.keys = stored
  <2>1. cache' = [cache EXCEPT !.keys = stored]
    BY <1>2, <1>5 DEF CacheIntegrationTokens
  <2> QED
    BY <2>1 DEF AccessInv, CacheFits, Cached
<1> SUFFICES ASSUME cache'.alone PROVE CacheInv'
  BY DEF CacheInv
<1>7. PICK step \in Stages : step = "cacheKeys" /\ At(r, step)
  BY <1>1 DEF Stages
<1>8. /\ \A k \in DOMAIN requests \ {r} : ~Renews(requests[k])
      /\ ~Owes(requests[r]) /\ (~Owing => Staged(requests[r]))
  BY <1>6, <1>7, OnlyOne
<1>9. \A k \in DOMAIN requests' : ~Renews(requests'[k])
  BY <1>4, <1>8
<1>10. ASSUME ~Owing' PROVE Current'
  <2>1. ~Owing
    BY <1>4, <1>8, <1>10 DEF Owing
  <2>2. Agrees(q.seen) /\ Listed(q.keys) /\ cache.apis = ApisOf(Seen)
    BY <1>2, <1>8, <2>1 DEF Staged
  <2>3. {k \in stored : k.key \notin ExpiredKeys} = KeysOf(Seen, ReadKeys)
    BY <1>5, <2>2, KeysCurrent DEF AccessInv
  <2>4. Accepted' = {k \in stored : k.key \notin ExpiredKeys}
    BY <1>1, <1>6 DEF Accepted, ExpiredKeys
  <2>5. KeysOf(Seen, ReadKeys)' = KeysOf(Seen, ReadKeys) /\ ApisOf(Seen)' = ApisOf(Seen)
    BY <1>1 DEF KeysOf, ApisOf, Seen, ReadKeys, Active
  <2> QED
    BY <1>6, <2>2, <2>3, <2>4, <2>5 DEF Current
<1> QED
  BY <1>9, <1>10 DEF CacheInv

LEMMA FailRefreshCache ==
    ASSUME AccessInv, NEW r, FailRefresh(r)
    PROVE  CacheInv'
<1>1. PICK b : b = FALSE
  OBVIOUS
<1>2. cache' = [cache EXCEPT !.alone = b]
  BY <1>1 DEF FailRefresh
<1>3. cache'.alone = b
  BY <1>2 DEF AccessInv, CacheFits, Cached
<1> QED
  BY <1>1, <1>3 DEF CacheInv

\* Steps of keys and refreshes.
LEMMA KeyStepCache ==
    ASSUME AccessInv, AccessInv', CacheInv, KeyStep
    PROVE  CacheInv'
<1>1. ASSUME cache' = cache, ThenRefresh PROVE CacheInv'
  BY <1>1, CalmRefresh, OwedKeeps, Usual
<1>2. ASSUME NEW i, NEW ws, CreateIntegrationToken(i, ws) \/ CreatePersonalIntegrationToken(i, ws)
      PROVE  CacheInv'
  BY <1>1, <1>2 DEF CreateIntegrationToken, CreatePersonalIntegrationToken
<1>3. ASSUME NEW t, \/ DeleteIntegrationToken(t) \/ DeletePersonalIntegrationToken(t)
                    \/ UpdatePersonalIntegrationToken(t)
      PROVE  CacheInv'
  BY <1>1, <1>3 DEF DeleteIntegrationToken, DeletePersonalIntegrationToken, UpdatePersonalIntegrationToken
<1>4. ASSUME NEW t \in DOMAIN tokens, OpenRotation(t) \/ Expire(t) PROVE CacheInv'
  BY <1>4, OpenRotationCache, ExpireCache
<1>5. ASSUME NEW r, RotatePersonalIntegrationToken(r) PROVE CacheInv'
  BY <1>5, RotateCache
<1>6. ASSUME NEW r, \/ GetUsers(r) \/ GetActiveIntegrationTokens(r)
                    \/ CacheAPIUsers(r) \/ CacheIntegrationTokens(r) \/ FailRefresh(r)
      PROVE  CacheInv'
  BY <1>6, GetUsersCache, GetActiveIntegrationTokensCache, CacheAPIUsersCache, CacheIntegrationTokensCache,
     FailRefreshCache
<1> QED
  BY <1>2, <1>3, <1>4, <1>5, <1>6 DEF KeyStep

-----------------------------------------------------------------------------
(* Logins and restarts. *)

LEMMA CreateOIDCUserCache ==
    ASSUME AccessInv, AccessInv', CacheInv, NEW role, NEW list, CreateOIDCUser(role, list)
    PROVE  CacheInv'
<1>1. PICK f : f = [api |-> FALSE, enabled |-> TRUE, role |-> role, list |-> list, login |-> FALSE]
  OBVIOUS
<1>2. /\ users' = With(users, NextUser, Account(f)) /\ UNCHANGED <<roles, tokens, cache>>
      /\ Begin(<<"session">>, NextUser, 1, 0)
  BY <1>1 DEF CreateOIDCUser, keyVars
<1>3. NextUser \notin DOMAIN users
  <2>1. serial.user + 1 \notin 1..serial.user
    BY Usual
  <2> QED
    BY <2>1, Usual DEF NextUser
<1>4. /\ DOMAIN users' = DOMAIN users \cup {NextUser}
      /\ \A i \in DOMAIN users : users'[i] = users[i]
      /\ users'[NextUser] = Account(f)
  BY <1>2, <1>3 DEF With
<1>5. ~Account(f).api
  BY <1>1 DEF Account
<1>6. RowsAlike
  BY <1>2, <1>4, <1>5, AddedAlike, KeysSame DEF RowsAlike
<1>7. RequestsCalm
  <2>a. <<"session">>[1] \notin Stages
    BY DEF Stages
  <2>1. PICK todo : todo = <<"session">> /\ todo[1] \notin Stages
    BY <2>a
  <2> QED
    BY <1>2, <2>1, CalmBegin, Usual
<1> QED
  BY <1>2, <1>6, <1>7, AlikeKeeps

\* A link that was taken: the reset is next.
LEMMA ConsumeLinkCache ==
    ASSUME AccessInv, AccessInv', CacheInv, NEW r, ConsumeLink(r)
    PROVE  CacheInv'
<1>1. At(r, "consume") /\ UNCHANGED <<users, roles, tokens, cache>>
  BY DEF ConsumeLink, accountVars, keyVars
<1>2. PICK q : q = requests[r] /\ Fits(q, serial.user) /\ r \in DOMAIN requests /\ q.todo[1] = "consume"
  BY <1>1, AtFacts, Usual
<1>3. CASE End(r)
  <2>1. RequestsCalm
    BY <1>1, <1>3, CalmGivenUp
  <2> QED
    BY <1>1, <2>1, SameKeeps
<1>4. CASE Continue(r, [q EXCEPT !.login = TRUE, !.todo =
                <<"consume", "reset", "destroy", IF users[q.user].totp THEN "challenge" ELSE "session">>])
  <2>1. PICK x : x = IF users[q.user].totp THEN "challenge" ELSE "session"
    OBVIOUS
  <2>2. PICK t : t = <<"consume", "reset", "destroy", x>>
    OBVIOUS
  <2>3. Len(t) # 1 /\ Tail(t) = <<"reset", "destroy", x>>
    BY <2>2
  <2>a. <<"reset", "destroy", x>>[1] = "reset"
    OBVIOUS
  <2>4. PICK u : u = Tail(t) /\ u[1] = "reset"
    BY <2>3, <2>a
  <2>5. PICK on : on = TRUE
    OBVIOUS
  <2>6. PICK p : p = [q EXCEPT !.login = on, !.todo = t]
    OBVIOUS
  <2>7. Continue(r, p) /\ p.todo = t
    BY <1>2, <1>4, <2>1, <2>2, <2>5, <2>6 DEF Fits
  <2>8. PICK n : n = [p EXCEPT !.todo = u]
    OBVIOUS
  <2>9. n.todo = u
    BY <1>2, <2>6, <2>8 DEF Fits
  <2>10. requests' = [requests EXCEPT ![r] = n]
    BY <2>3, <2>4, <2>7, <2>8 DEF Continue
  <2>11. ~Renews(n) /\ ~Renews(requests[r]) /\ ~Owes(requests[r])
    <3>1. Onward(q.todo)
      BY <1>2, OnwardFacts, FitsFacts, Usual
    <3> QED
      BY <1>2, <2>4, <2>9, <3>1 DEF Renews, Owes, Onward, Stages
  <2>12. RequestsCalm
    BY <1>2, <2>10, <2>11, CalmReplaced
  <2> QED
    BY <1>1, <2>12, SameKeeps
<1> QED
  BY <1>2, <1>3, <1>4 DEF ConsumeLink

LEMMA ResetPasswordCache ==
    ASSUME AccessInv, AccessInv', CacheInv, NEW r, ResetPassword(r)
    PROVE  CacheInv'
<1>1. At(r, "reset") /\ UNCHANGED <<roles, tokens>> /\ Unread
  BY DEF ResetPassword
<1>2. PICK q : q = requests[r] /\ Fits(q, serial.user)
  BY <1>1, AtFacts, Usual
<1>3. PICK step \in Steps \ Renewals : step = "reset" /\ At(r, step)
  BY <1>1 DEF Steps, Renewals
<1>4. CASE Exists(q.user)
  <2>1. PICK i \in DOMAIN users : i = q.user
    BY <1>4 DEF Exists
  <2>2. PICK set : set = TRUE
    OBVIOUS
  <2>3. users' = [users EXCEPT ![i] = Profile(@, q.login, set)]
    BY <1>2, <1>4, <2>1, <2>2 DEF ResetPassword
  <2>4. KeysAlike /\ \A j \in DOMAIN users : AccountAlike(j)
    BY <1>1, <2>3, WrittenAlike
  <2>5. PICK pw : pw = users'[q.user].pw
    OBVIOUS
  <2>6. PICK p : p = [q EXCEPT !.pw = pw]
    OBVIOUS
  <2>7. Continue(r, p)
    BY <1>2, <1>4, <2>5, <2>6 DEF ResetPassword
  <2>8. pw \in Nat
    BY <2>1, <2>3, <2>5 DEF AccessInv, AccountsTypeOK, AccountRow
  <2>9. Fits(p, serial.user) /\ p.todo = q.todo
    BY <1>2, <2>6, <2>8, FitsWith, Usual
  <2>10. RequestsCalm
    BY <1>2, <1>3, <2>7, <2>9, CalmStep
  <2> QED
    BY <1>1, <2>4, <2>10, UnreadKeeps
<1>5. CASE ~Exists(q.user)
  <2>1. End(r) /\ UNCHANGED users
    BY <1>2, <1>5 DEF ResetPassword
  <2>2. RequestsCalm
    BY <1>1, <2>1, CalmGivenUp
  <2> QED
    BY <1>1, <2>1, <2>2, AlikeSame, KeysSame, UnreadKeeps
<1> QED
  BY <1>4, <1>5

\* Logins and the ends of sessions leave accounts and keys alone.
\* A refresh that is owed ends with the keys.
LEMMA OwingRefreshes == \A t \in OwingPlans : \E n \in DOMAIN t : t[n] = "cacheKeys"
<1>1. ASSUME NEW t, t = <<"readUsers", "readKeys", "cacheUsers", "cacheKeys">>
      PROVE  4 \in DOMAIN t /\ t[4] = "cacheKeys"
  BY <1>1
<1>2. ASSUME NEW t, NEW x, t = <<x, "readUsers", "readKeys", "cacheUsers", "cacheKeys">>
      PROVE  5 \in DOMAIN t /\ t[5] = "cacheKeys"
  BY <1>2
<1>3. ASSUME NEW t, t = <<"destroy", "session", "readUsers", "readKeys", "cacheUsers", "cacheKeys">>
      PROVE  6 \in DOMAIN t /\ t[6] = "cacheKeys"
  BY <1>3
<1> QED
  BY <1>1, <1>2, <1>3 DEF OwingPlans

\* A request that gives up a refresh leaves the cache marked; one that has none left disturbs nobody.
LEMMA GiveUpCache ==
    ASSUME AccessInv, AccessInv', CacheInv, UNCHANGED <<accountVars, tokens>>,
           NEW r, NEW step \in {"destroy", "session"}, At(r, step), GiveUp(r)
    PROVE  CacheInv'
<1>1. /\ r \in DOMAIN requests /\ requests[r].todo[1] = step
      /\ requests[r].todo \in Plans /\ Fits(requests[r], serial.user)
  BY AtFacts, Usual, FitsFacts
<1>2. PICK b \in BOOLEAN :
          b = (cache.alone /\ \A n \in DOMAIN requests[r].todo : requests[r].todo[n] # "cacheKeys")
  BY DEF AccessInv, CacheFits, Cached
<1>3. cache' = [cache EXCEPT !.alone = b]
  BY <1>2 DEF GiveUp
<1>4. cache'.alone = b /\ (b = cache.alone => cache' = cache)
  BY <1>3 DEF AccessInv, CacheFits, Cached
<1>5. CASE ~b
  BY <1>4, <1>5 DEF CacheInv
<1>6. CASE b
  <2>1. cache' = cache
    BY <1>2, <1>4, <1>6
  <2>2. requests[r].todo \notin OwingPlans
    BY <1>2, <1>6, OwingRefreshes
  <2>3. ~Renews(requests[r]) /\ ~Owes(requests[r])
    BY <1>1, <2>2 DEF Renews, Owes, Stages
  <2>4. RequestsCalm
    BY <1>1, <2>3, CalmEnd DEF GiveUp
  <2> QED
    BY <2>1, <2>4, SameKeeps DEF accountVars
<1> QED
  BY <1>5, <1>6

LEMMA LoginStepCache ==
    ASSUME AccessInv, AccessInv', CacheInv, LoginStep
    PROVE  CacheInv'
<1>1. ASSUME UNCHANGED <<accountVars, keyVars>>, RequestsCalm PROVE CacheInv'
  BY <1>1, SameKeeps DEF accountVars, keyVars
<1>2. ASSUME NEW i, \/ Login(i) \/ WrongPassword(i) \/ OIDCFinish(i) \/ ForgotPassword(i)
      PROVE  CacheInv'
  <2>1. UNCHANGED <<accountVars, keyVars>>
    BY <1>2 DEF Login, WrongPassword, OIDCFinish, ForgotPassword
  <2>2. UNCHANGED requests \/ Begin(<<"session">>, i, users[i].pw, 0)
    BY <1>2 DEF Login, WrongPassword, OIDCFinish, ForgotPassword
  <2>a. <<"session">>[1] \notin Stages
    BY DEF Stages
  <2>b. PICK todo : todo = <<"session">> /\ todo[1] \notin Stages
    BY <2>a
  <2>3. PICK pw : pw = users[i].pw
    OBVIOUS
  <2>c. UNCHANGED requests \/ Begin(todo, i, pw, 0)
    BY <2>2, <2>b, <2>3
  <2>4. RequestsCalm
    BY <2>b, <2>c, CalmSame, CalmBegin, Usual
  <2> QED
    BY <1>1, <2>1, <2>4
<1>3. ASSUME NEW role, NEW list, CreateOIDCUser(role, list) PROVE CacheInv'
  BY <1>3, CreateOIDCUserCache
<1>4. ASSUME NEW n, NEW set, VerifyCode(n) \/ WrongCode(n) \/ OpenLink(n, set) PROVE CacheInv'
  <2>1. UNCHANGED <<accountVars, keyVars>>
    BY <1>4 DEF VerifyCode, WrongCode, OpenLink
  <2>2. \/ UNCHANGED requests
        \/ Begin(<<"session">>, challenges[n].user, challenges[n].pw, n)
        \/ Begin(<<"consume">>, mailed[n].user, 0, n)
    BY <1>4 DEF VerifyCode, WrongCode, OpenLink
  <2>a. <<"session">>[1] \notin Stages /\ <<"consume">>[1] \notin Stages
    BY DEF Stages
  <2>b. PICK first : first = <<"session">> /\ first[1] \notin Stages
    BY <2>a
  <2>c. PICK second : second = <<"consume">> /\ second[1] \notin Stages
    BY <2>a
  <2>3. PICK i, j, pw : i = challenges[n].user /\ j = mailed[n].user /\ pw = challenges[n].pw
    OBVIOUS
  <2>4. UNCHANGED requests \/ Begin(first, i, pw, n) \/ Begin(second, j, 0, n)
    BY <2>2, <2>b, <2>c, <2>3
  <2>5. RequestsCalm
    BY <2>b, <2>c, <2>4, CalmSame, CalmBegin, Usual
  <2> QED
    BY <1>1, <2>1, <2>5
<1>5. ASSUME NEW r, \/ IssueChallenge(r) \/ DestroyUserSessions(r) \/ FailToDestroy(r) \/ SaveSession(r)
      PROVE  CacheInv'
  <2>1. UNCHANGED <<accountVars, keyVars>> /\ Continue(r, requests[r])
    BY <1>5 DEF IssueChallenge, DestroyUserSessions, FailToDestroy, SaveSession
  <2>2. PICK step \in Steps \ Renewals : At(r, step)
    BY <1>5 DEF IssueChallenge, DestroyUserSessions, FailToDestroy, SaveSession, Steps, Renewals
  <2>3. PICK q : q = requests[r] /\ Fits(q, serial.user)
    BY <2>2, AtFacts, Usual
  <2>4. RequestsCalm
    BY <2>1, <2>2, <2>3, CalmStep
  <2> QED
    BY <1>1, <2>1, <2>4
<1>6. ASSUME NEW r, ConsumeLink(r) \/ ResetPassword(r) PROVE CacheInv'
  BY <1>6, ConsumeLinkCache, ResetPasswordCache
<1>8. ASSUME NEW r, FailReread(r) \/ FailToSave(r) PROVE CacheInv'
  BY <1>8, GiveUpCache DEF FailReread, FailToSave
<1>7. ASSUME NEW s, NEW k, Logout(s) \/ ThrottleEnds(k) \/ TokenExpires PROVE CacheInv'
  <2>1. UNCHANGED <<accountVars, keyVars, requests>>
    BY <1>7 DEF Logout, ThrottleEnds, TokenExpires
  <2> QED
    BY <1>1, <2>1, CalmSame
<1> QED
  BY <1>2, <1>3, <1>4, <1>5, <1>6, <1>7, <1>8 DEF LoginStep

\* The cache of the start is current.
LEMMA LoadedCurrent ==
    ASSUME KeysTypeOK
    PROVE  Loaded.apis = ApisOf(Seen) /\ {k \in Loaded.keys : k.key \notin ExpiredKeys} = KeysOf(Seen, ReadKeys)
<1>1. Loaded.apis = ApisOf(Seen) /\ Loaded.keys = KeysOf(Seen, ReadKeys)
  BY DEF Loaded
<1>2. {k \in KeysOf(Seen, ReadKeys) : k.key \notin ExpiredKeys} = KeysOf(Seen, ReadKeys)
  BY JustRead, KeysCurrent
<1> QED
  BY <1>1, <1>2

LEMMA InitCache ==
    ASSUME Init
    PROVE  CacheInv
<1>1. KeysTypeOK
  BY InitHolds DEF AccessInv
<1>2. cache = Loaded /\ DOMAIN requests = {}
  BY DEF Init
<1>3. Current
  BY <1>1, <1>2, LoadedCurrent, AcceptedFacts DEF Current
<1> QED
  BY <1>2, <1>3 DEF CacheInv

LEMMA RestartCache ==
    ASSUME AccessInv, Restart
    PROVE  CacheInv'
<1>1. cache' = Loaded /\ DOMAIN requests' = {} /\ UNCHANGED <<users, roles, tokens>>
  BY DEF Restart
<1>2. PICK l : l = Loaded
  OBVIOUS
<1>3. l.apis = ApisOf(Seen) /\ {k \in l.keys : k.key \notin ExpiredKeys} = KeysOf(Seen, ReadKeys)
  BY <1>2, LoadedCurrent DEF AccessInv
<1>4. KeysOf(Seen, ReadKeys)' = KeysOf(Seen, ReadKeys) /\ ApisOf(Seen)' = ApisOf(Seen)
  BY <1>1 DEF KeysOf, ApisOf, Seen, ReadKeys, Active
<1>5. Accepted' = {k \in l.keys : k.key \notin ExpiredKeys}
  BY <1>1, <1>2 DEF Accepted, ExpiredKeys
<1>6. Current'
  BY <1>1, <1>2, <1>3, <1>4, <1>5 DEF Current
<1> QED
  BY <1>1, <1>6 DEF CacheInv

LEMMA NextCache ==
    ASSUME AccessInv, AccessInv', CacheInv, [Next]_accessVars
    PROVE  CacheInv'
<1>1. CASE AccountStep
  BY <1>1, AccountStepCache
<1>2. CASE KeyStep
  BY <1>2, KeyStepCache
<1>3. CASE LoginStep
  BY <1>3, LoginStepCache
<1>4. CASE Restart
  BY <1>4, RestartCache
<1>5. CASE ProfileStep
  BY <1>5, ProfileStepCache
<1>6. CASE UNCHANGED accessVars
  BY <1>6, CalmSame, SameKeeps DEF accessVars
<1> QED
  BY <1>1, <1>2, <1>3, <1>4, <1>5, <1>6 DEF Next

-----------------------------------------------------------------------------
(* Theorems. *)

\* The accounts, keys, requests, edits, links and sessions fit together in every reachable state.
THEOREM AccessHolds == Spec => []AccessInv
<1>1. Init => AccessInv
  BY InitHolds
<1>2. AccessInv /\ [Next]_accessVars => AccessInv'
  BY NextKeeps
<1> QED
  BY <1>1, <1>2, PTL DEF Spec

\* A reset link sets a password once, however often it is opened, replaced or taken while a
\* restart forgets every link (App.consumePasswordResetToken and App.DoResetPassword).
THEOREM LinkSetsOnce == Spec => []LinksOnce
<1>1. AccessInv => LinksOnce
  BY DEF AccessInv
<1> QED
  BY <1>1, AccessHolds, PTL

\* A session of an earlier password is gone once the request that set the new one has ended the
\* sessions, but for those that were checked before and stored after, and failures and restarts
\* (destroyUserSessions after every change of a password).
THEOREM SessionsAreEnded == Spec => []SessionsEnd
<1>1. AccessInv => SessionsEnd
  BY DEF AccessInv
<1> QED
  BY <1>1, AccessHolds, PTL

\* An enabled administrator is left by every deletion and every edit, but for edits that crossed,
\* an edit to a service account and a role over lists (update-user and delete-users of queries.sql).
THEOREM AdminStays == Spec => AdminKept
<1>1. AccessInv /\ [Next]_accessVars => AccessInv'
  BY NextKeeps
<1>2. AccessInv /\ AccessInv' /\ [Next]_accessVars =>
          [(AccountsTypeOK /\ KeysTypeOK /\ LoginsTypeOK)' /\ AdminsGo]_accessVars
  <2>1. AccessInv' => (AccountsTypeOK /\ KeysTypeOK /\ LoginsTypeOK)'
    BY DEF AccessInv
  <2> QED
    BY <2>1, NextAdmins
<1> QED
  BY <1>1, <1>2, AccessHolds, PTL DEF Spec, AdminKept

\* With no refresh left to do, and unless the last one overlapped another or failed, or a token was
\* changed without one, the cache accepts the keys that the rows allow and no other, with what the
\* roles permit now (cacheUsers in cmd/users.go and the two maps of auth.Auth).
THEOREM CacheIsCurrent == Spec => []CacheCurrent
<1>1. Init => AccessInv /\ CacheInv
  BY InitHolds, InitCache
<1>2. (AccessInv /\ CacheInv) /\ [Next]_accessVars => (AccessInv /\ CacheInv)'
  BY NextKeeps, NextCache
<1>3. AccessInv /\ CacheInv => CacheCurrent
  <2> SUFFICES ASSUME AccessInv, CacheInv, cache.alone,
                      \A r \in DOMAIN requests : \A n \in DOMAIN requests[r].todo :
                          requests[r].todo[n] # "cacheKeys"
               PROVE  Current
    BY DEF CacheCurrent, Current
  <2>1. ASSUME NEW r \in DOMAIN requests PROVE ~Owes(requests[r]) /\ ~Renews(requests[r])
    <3>1. PICK t \in Plans : t = requests[r].todo
      BY Usual, FitsFacts DEF RequestsFit
    <3>2. \A n \in DOMAIN t : t[n] # "cacheKeys"
      BY <3>1
    <3>3. t \notin OwingPlans
      BY <3>2 DEF OwingPlans
    <3>4. t[1] \notin Stages
      BY <3>1, <3>2, PlanFacts DEF Planned, RefreshPlans, Stages, Renewals
    <3> QED
      BY <3>1, <3>3, <3>4 DEF Owes, Renews
  <2> QED
    BY <2>1 DEF CacheInv, Owing
<1> QED
  BY <1>1, <1>2, <1>3, PTL DEF Spec
=============================================================================
