---------------------------- MODULE SmtpDelivery ----------------------------
(***************************************************************************)
(* One message on its way through the SMTP messengers: the cached pools of *)
(* the manager and their replacement (manager.pushMessage, resolve*,       *)
(* WithPersonalSMTPUpdate, retireSMTP, Close), the choice of a server and  *)
(* its daily quota (Emailer.pickServer, smtpQuotaTracker), the gates that  *)
(* servers share across pools (send_delay.go) and the limiter.             *)
(*                                                                         *)
(* A step is one critical section, one channel operation or one call of    *)
(* the database; deferred calls run in the step that ends their function.  *)
(***************************************************************************)
EXTENDS DeliveryLimiter, SequencesExt

CONSTANTS
    Deliveries,     \* calls of pushMessage
    CampaignOf,     \* the campaign of a call, or NoCampaign
    Key,            \* the pool it asks for: System, Account or a server
    Servers,        \* SMTP servers of the account, by UUID
    System,         \* key of the platform messenger, which no cache holds
    SystemServer,   \* its only server
    Account,        \* key of the account's (or organization's) pool
    DailyLimit,     \* of a server; 0 is none
    MaxConns,       \* of the platform: concurrent attempts per server
    MaxPools,       \* bound: pools that are built
    MaxUpdates,     \* bound on every bound of the configuration changes
    MaxDay,         \* bound on every bound of the local days
    Bounds          \* the scenarios: what may happen around the calls, and how often

AccountServers == Servers \ {SystemServer}
Keys == {Account} \cup AccountServers

ASSUME DeliveryAssumption ==
    /\ CampaignOf \in [Deliveries -> Campaigns \cup {NoCampaign}]
    /\ Key \in [Deliveries -> Keys \cup {System}]
    /\ System \notin Keys /\ Account \notin Servers /\ SystemServer \in Servers
    /\ IsFiniteSet(Deliveries) /\ IsFiniteSet(Servers)
    /\ DailyLimit \in [Servers -> Nat]
    /\ MaxConns \in Nat \ {0}
    /\ MaxPools \in Nat \ {0} /\ MaxUpdates \in Nat /\ MaxDay \in Nat \ {0}
    /\ Bounds \subseteq [calls : SUBSET Deliveries, ticks : 0..MaxClock, updates : 0..MaxUpdates, days : 1..MaxDay,
                         faults : Nat, cancels : Nat]

PoolIds == 1..MaxPools
Updates == 1..MaxUpdates
Days == 1..MaxDay

VARIABLES
    rows,       \* the account's enabled servers in the database
    cache,      \* personalMessengers and poolSMTPMessengers: the pool of a key, 0 for none
    pools,      \* every Emailer that was built
    update,     \* where each configuration change is
    mutex,      \* the update that holds personalSMTPMut during its callback, 0 for none
    gates,      \* sendGates: references and generation of the entry of a server
    tokens,     \* tokens in the two gates of a server, per generation
    call,       \* where each call of pushMessage is
    usage,      \* user_smtp_daily_usage
    reserved,   \* smtpQuotaTracker.reserved
    day,        \* currentLocalDate
    cancelled,  \* campaigns whose stop channel is closed
    closing,    \* manager.Close: "open", "flagged" (closed, done), "announced", "closed"
    bound,      \* the scenario
    faults,     \* quota statements that failed
    accepted,   \* history: messages a server accepted, per day
    unrecorded  \* history: of these, those whose usage could not be written

deliveryVars == <<rows, cache, pools, update, mutex, gates, tokens, call, usage, reserved, day,
                  cancelled, closing, bound, faults, accepted, unrecorded>>
vars == <<limiterVars, deliveryVars>>

-----------------------------------------------------------------------------
(* Types. *)

Stages == {"idle", "entered", "resolved", "picking", "connections", "connected", "gate", "delayed",
           "limiter", "parked", "sending", "accepted", "done"}

Call == [at : Stages, pool : 0..MaxPools, try : Seq(Servers), server : Servers,
         reserved : BOOLEAN, wakeup : Nat, until : Nat]
Pool == [key : Keys \cup {System}, servers : Seq(Servers), gate : [Servers -> Nat], next : Nat,
         state : {"absent", "open", "detached", "closed"}, update : 0..MaxUpdates]

TypeOK ==
    /\ LimiterTypeOK
    /\ rows \subseteq AccountServers
    /\ cache \in [Keys -> 0..MaxPools]
    /\ pools \in [PoolIds -> Pool]
    /\ update \in [Updates -> {"none", "callback", "waiting", "announced", "drained"}]
    /\ mutex \in 0..MaxUpdates
    /\ gates \in [Servers -> [refs : Nat, gate : Nat]]
    /\ tokens \in [Servers -> [PoolIds -> [connections : Nat, delay : Nat]]]
    /\ call \in [Deliveries -> Call]
    /\ usage \in [Servers -> [Days -> Nat]]
    /\ reserved \in [Servers -> Nat]
    /\ day \in Days
    /\ cancelled \subseteq Campaigns
    /\ closing \in {"open", "flagged", "announced", "closed"}
    /\ bound \in Bounds
    /\ faults \in 0..bound.faults
    /\ accepted \in [Servers -> [Days -> Nat]]
    /\ unrecorded \in [Servers -> [Days -> Nat]]

-----------------------------------------------------------------------------
(* Shared pieces. *)

NoPool == [key |-> Account, servers |-> << >>, gate |-> [s \in Servers |-> 0], next |-> 0,
           state |-> "absent", update |-> 0]
NoCall == [at |-> "idle", pool |-> 0, try |-> << >>, server |-> SystemServer, reserved |-> FALSE,
           wakeup |-> 0, until |-> 0]
NoTokens == [connections |-> 0, delay |-> 0]

\* acquireSendGate for every server of a pool: the entry that exists is shared.
Acquired(g, servers) ==
    [s \in Servers |->
        IF s \notin servers THEN g[s]
        ELSE IF g[s].refs = 0 THEN [refs |-> 1, gate |-> g[s].gate + 1]
        ELSE [g[s] EXCEPT !.refs = @ + 1]]

\* releaseSendGate: the entry is deleted with its last reference.
Released(g, servers) ==
    [s \in Servers |-> IF s \in servers THEN [g[s] EXCEPT !.refs = @ - 1] ELSE g[s]]

\* A message of an account or of a campaign holds the read lock of the send side.
Reading(d) == call[d].at \notin {"idle", "done"} /\ Key[d] # System

PoolOf(d) == pools[call[d].pool]
GateOf(d) == PoolOf(d).gate[call[d].server]
Closed(d) == PoolOf(d).state = "closed"
Cancelled(d) == closing # "open" \/ CampaignOf[d] \in cancelled

Holds(d, kind) ==
    /\ call[d].at \in (IF kind = "connections"
                       THEN {"connected", "gate", "delayed", "limiter", "parked", "sending"}
                       ELSE {"delayed", "limiter", "parked", "sending"})

Holding(s, g, kind) ==
    {d \in Deliveries : call[d].server = s /\ Holds(d, kind) /\ GateOf(d) = g}

\* The tokens a call holds go back, the deferred releases of Push.
Returned(d) ==
    IF Holds(d, "connections")
    THEN [tokens EXCEPT ![call[d].server][GateOf(d)] =
            [connections |-> @.connections - 1,
             delay |-> IF Holds(d, "delay") THEN @.delay - 1 ELSE @.delay]]
    ELSE tokens

\* ReleaseServer, when the call reserved a place.
Unreserved(d) ==
    IF call[d].reserved /\ reserved[call[d].server] > 0
    THEN [reserved EXCEPT ![call[d].server] = @ - 1]
    ELSE reserved

Move(d, stage) == call' = [call EXCEPT ![d].at = stage]
Finish(d) == call' = [call EXCEPT ![d] = [NoCall EXCEPT !.at = "done"]]

\* Every error path of Push before an attempt: the deferred calls give back what
\* the call holds, and the read lock goes with the call.
Abandon(d) ==
    /\ Finish(d)
    /\ tokens' = Returned(d)
    /\ reserved' = Unreserved(d)

UpdateVars == <<rows, cache, pools, update, mutex, gates>>
EnvironmentVars == <<day, cancelled, closing, bound, faults>>

-----------------------------------------------------------------------------
(* A call of pushMessage. *)

\* The account's messages take the read lock; a writer that waits keeps new
\* readers out.
Enter(d) ==
    /\ call[d].at = "idle" /\ d \in bound.calls
    /\ closing = "open" /\ Key[d] # System => \A u \in Updates : update[u] # "announced"
    /\ IF closing = "open" THEN Move(d, "entered") ELSE Finish(d)
    /\ UNCHANGED <<limiterVars, UpdateVars, EnvironmentVars, tokens, usage, reserved, accepted,
                   unrecorded>>

\* What the resolver of a key reads: the account's servers, or one of them.
Resolvable(k) == IF k = Account THEN rows ELSE rows \cap {k}

\* resolveMessenger under personalSMTPMut: the cached pool, or a new one.
ResolveCached(d) ==
    /\ call[d].at = "entered"
    /\ closing = "open"
    /\ \/ Key[d] = System /\ call' = [call EXCEPT ![d].at = "resolved", ![d].pool = 1]
       \/ /\ Key[d] # System /\ mutex = 0
          /\ cache[Key[d]] # 0
          /\ call' = [call EXCEPT ![d].at = "resolved", ![d].pool = cache[Key[d]]]
    /\ UNCHANGED <<limiterVars, UpdateVars, EnvironmentVars, tokens, usage, reserved, accepted,
                   unrecorded>>

ResolveNew(d) ==
    /\ call[d].at = "entered"
    /\ closing = "open"
    /\ Key[d] # System /\ mutex = 0
    /\ cache[Key[d]] = 0
    /\ Resolvable(Key[d]) # {}
    /\ \E p \in PoolIds :
        /\ pools[p].state = "absent" /\ \A q \in 1..p - 1 : pools[q].state # "absent"
        /\ gates' = Acquired(gates, Resolvable(Key[d]))
        /\ pools' = [pools EXCEPT ![p] =
                        [NoPool EXCEPT !.key = Key[d],
                                       !.servers = SetToSeq(Resolvable(Key[d])),
                                       !.gate = [s \in Servers |-> gates'[s].gate],
                                       !.state = "open"]]
        /\ cache' = [cache EXCEPT ![Key[d]] = p]
        /\ call' = [call EXCEPT ![d].at = "resolved", ![d].pool = p]
    /\ UNCHANGED <<limiterVars, EnvironmentVars, rows, update, mutex, tokens, usage, reserved,
                   accepted, unrecorded>>

\* No server is left, or the manager was closed in the meantime.
ResolveFails(d) ==
    /\ call[d].at = "entered"
    /\ \/ closing # "open"
       \/ Key[d] # System /\ mutex = 0 /\ cache[Key[d]] = 0 /\ Resolvable(Key[d]) = {}
    /\ Finish(d)
    /\ UNCHANGED <<limiterVars, UpdateVars, EnvironmentVars, tokens, usage, reserved, accepted,
                   unrecorded>>

\* Emailer.Push: the next call starts at the next server.
Push(d) ==
    /\ call[d].at = "resolved"
    /\ LET p == call[d].pool
           n == Len(pools[p].servers)
       IN  IF Closed(d)
           THEN Finish(d) /\ UNCHANGED pools
           ELSE /\ call' = [call EXCEPT ![d].at = "picking",
                                        ![d].try = [i \in 1..n |->
                                            pools[p].servers[((pools[p].next + i - 1) % n) + 1]]]
                /\ pools' = [pools EXCEPT ![p].next = @ + 1]
    /\ UNCHANGED <<limiterVars, EnvironmentVars, rows, cache, update, mutex, gates, tokens, usage,
                   reserved, accepted, unrecorded>>

\* ReserveServer: sent today and in flight stay below the limit.
HasQuota(s) == usage[s][day] + reserved[s] < DailyLimit[s]

\* pickServer, one server at a time: the tracker's mutex is free in between.
PickServer(d) ==
    /\ call[d].at = "picking"
    /\ call[d].try # << >>
    /\ LET s == Head(call[d].try)
       IN  IF Key[d] = System \/ DailyLimit[s] = 0
           THEN /\ call' = [call EXCEPT ![d].at = "connections", ![d].server = s, ![d].try = << >>]
                /\ UNCHANGED reserved
           ELSE IF HasQuota(s)
           THEN /\ call' = [call EXCEPT ![d].at = "connections", ![d].server = s, ![d].try = << >>,
                                        ![d].reserved = TRUE]
                /\ reserved' = [reserved EXCEPT ![s] = @ + 1]
           ELSE /\ call' = [call EXCEPT ![d].try = Tail(@)]
                /\ UNCHANGED reserved
    /\ UNCHANGED <<limiterVars, UpdateVars, EnvironmentVars, tokens, usage, accepted, unrecorded>>

\* Every server is at its limit, or the usage cannot be read.
PickFails(d) ==
    /\ call[d].at = "picking"
    /\ \/ call[d].try = << >> /\ UNCHANGED faults
       \/ /\ call[d].try # << >> /\ Key[d] # System /\ DailyLimit[Head(call[d].try)] > 0
          /\ faults < bound.faults /\ faults' = faults + 1
    /\ Finish(d)
    /\ UNCHANGED <<limiterVars, UpdateVars, day, cancelled, closing, bound, tokens, usage, reserved,
                   accepted, unrecorded>>

\* sendGate.wait: the sender queues for a token ...
TakeToken(d, from, to, kind, capacity) ==
    LET s == call[d].server
        g == GateOf(d)
    IN  /\ call[d].at = from
        /\ tokens[s][g][kind] < capacity
        /\ tokens' = [tokens EXCEPT ![s][g][kind] = @ + 1]
        /\ Move(d, to)
        /\ UNCHANGED <<limiterVars, UpdateVars, EnvironmentVars, usage, reserved, accepted,
                       unrecorded>>

TakeConnection(d) == TakeToken(d, "connections", "connected", "connections", MaxConns)
TakeDelay(d) == TakeToken(d, "gate", "delayed", "delay", 1)

\* ... pauses with it, and goes on unless it was told to stop meanwhile.
PassGate(d) ==
    /\ call[d].at \in {"connected", "delayed"}
    /\ ~Closed(d) /\ ~Cancelled(d)
    /\ Move(d, IF call[d].at = "connected" THEN "gate" ELSE "limiter")
    /\ UNCHANGED <<limiterVars, UpdateVars, EnvironmentVars, tokens, usage, reserved, accepted,
                   unrecorded>>

\* Mutant of StopWaiting: a token taken before the cancellation stays in the gate.
StopWaitingKeeping(d) ==
    /\ call[d].at \in {"connections", "connected", "gate", "delayed", "limiter", "parked"}
    /\ Closed(d) \/ Cancelled(d)
    /\ Finish(d)
    /\ tokens' = IF call[d].at = "delayed" THEN tokens ELSE Returned(d)
    /\ reserved' = Unreserved(d)
    /\ UNCHANGED <<limiterVars, UpdateVars, EnvironmentVars, usage, accepted, unrecorded>>

\* A wait for a gate or for the limiter ends when the pool is closed, the campaign
\* stopped or the manager closed; what the call holds goes back.
StopWaiting(d) ==
    /\ call[d].at \in {"connections", "connected", "gate", "delayed", "limiter", "parked"}
    /\ Closed(d) \/ Cancelled(d)
    /\ Abandon(d)
    /\ UNCHANGED <<limiterVars, UpdateVars, EnvironmentVars, usage, accepted, unrecorded>>

\* DeliveryLimiter.Wait: all limits at once, or a timer and the next release.
StartAttempt(d) ==
    /\ call[d].at = "limiter"
    /\ Take(CampaignOf[d])
    /\ Move(d, "sending")
    /\ UNCHANGED <<UpdateVars, EnvironmentVars, tokens, usage, reserved, accepted, unrecorded>>

Park(d) ==
    /\ call[d].at = "limiter"
    /\ Wait(CampaignOf[d]) > 0
    /\ call' = [call EXCEPT ![d].at = "parked", ![d].wakeup = wakeups,
                            ![d].until = clock + Wait(CampaignOf[d])]
    /\ UNCHANGED <<limiterVars, UpdateVars, EnvironmentVars, tokens, usage, reserved, accepted,
                   unrecorded>>

WakeUp(d) ==
    /\ call[d].at = "parked"
    /\ wakeups # call[d].wakeup \/ clock >= call[d].until
    /\ Move(d, "limiter")
    /\ UNCHANGED <<limiterVars, UpdateVars, EnvironmentVars, tokens, usage, reserved, accepted,
                   unrecorded>>

\* pool.Send was accepted; the deferred releases run and the quota is next.
ServerAccepts(d) ==
    /\ call[d].at = "sending"
    /\ ~Closed(d)
    /\ Release
    /\ tokens' = Returned(d)
    /\ accepted' = [accepted EXCEPT ![call[d].server][day] = @ + 1]
    /\ IF call[d].reserved THEN Move(d, "accepted") ELSE Finish(d)
    /\ UNCHANGED <<UpdateVars, EnvironmentVars, usage, reserved, unrecorded>>

\* The server refuses, the network fails or the pool is closed.
ServerRefuses(d) ==
    /\ call[d].at = "sending"
    /\ Release
    /\ Abandon(d)
    /\ UNCHANGED <<UpdateVars, EnvironmentVars, usage, accepted, unrecorded>>

\* CommitServer: the reservation becomes a message of today, whatever day the
\* attempt began on.  The row of a deleted server is not missed.
Commit(d) ==
    LET s == call[d].server
    IN  /\ call[d].at = "accepted"
        /\ reserved' = Unreserved(d)
        /\ usage' = IF s \in rows THEN [usage EXCEPT ![s][day] = @ + 1] ELSE usage
        /\ Finish(d)
        /\ UNCHANGED <<limiterVars, UpdateVars, EnvironmentVars, tokens, accepted, unrecorded>>

\* The usage cannot be written: the place is free again and Push reports an error
\* of a message that was accepted.
CommitFails(d) ==
    /\ call[d].at = "accepted"
    /\ faults < bound.faults /\ faults' = faults + 1
    /\ reserved' = Unreserved(d)
    /\ unrecorded' = [unrecorded EXCEPT ![call[d].server][day] = @ + 1]
    /\ Finish(d)
    /\ UNCHANGED <<limiterVars, UpdateVars, day, cancelled, closing, bound, tokens, usage, accepted>>

-----------------------------------------------------------------------------
(* Configuration changes, and the end of the process. *)

Idle(u) == u <= bound.updates /\ update[u] = "none" /\ \A v \in 1..u - 1 : update[v] # "none"
CallVars == <<call, tokens, reserved, accepted, unrecorded>>

\* detachPoolSMTPLocked and detachPersonalSMTPLocked.
Detached(u, keys) ==
    [p \in PoolIds |->
        IF \E k \in keys : cache[k] = p
        THEN [pools[p] EXCEPT !.state = "detached", !.update = u] ELSE pools[p]]

Detach(u, keys) ==
    /\ Idle(u) /\ mutex = 0
    /\ pools' = Detached(u, keys)
    /\ cache' = [k \in Keys |-> IF cache[k] # 0 /\ pools'[cache[k]].state = "detached"
                                THEN 0 ELSE cache[k]]
    /\ UNCHANGED <<limiterVars, EnvironmentVars, CallVars, rows, gates, usage>>

\* retireSMTP has nothing to do when no pool was detached.
Retiring(u, detached) == IF \E p \in PoolIds : detached[p].update = u THEN "waiting" ELSE "drained"

\* WithPersonalSMTPUpdate takes the mutex, empties the caches and runs the callback.
BeginUpdate(u) ==
    /\ Detach(u, Keys)
    /\ mutex' = u
    /\ update' = [update EXCEPT ![u] = "callback"]

\* InvalidatePersonalSMTP and InvalidateAllPoolSMTP.
Invalidate(u) ==
    /\ \E keys \in {{Account}, AccountServers} : Detach(u, keys)
    /\ update' = [update EXCEPT ![u] = Retiring(u, pools')]
    /\ UNCHANGED mutex

\* The callback committed (rows deleted with their usage) or failed; retireSMTP
\* goes on in the background when a pool was detached.
EndUpdate(u) ==
    /\ update[u] = "callback"
    /\ \E deleted \in SUBSET rows :
        /\ rows' = rows \ deleted
        /\ usage' = [s \in Servers |-> IF s \in deleted THEN [d \in Days |-> 0] ELSE usage[s]]
    /\ mutex' = 0
    /\ update' = [update EXCEPT ![u] = Retiring(u, pools)]
    /\ UNCHANGED <<limiterVars, EnvironmentVars, CallVars, cache, pools, gates>>

\* retireSMTP: Lock keeps new readers out ...
LockSends(u) ==
    /\ update[u] = "waiting"
    /\ closing # "announced" /\ \A v \in Updates : update[v] # "announced"
    /\ update' = [update EXCEPT ![u] = "announced"]
    /\ UNCHANGED <<limiterVars, EnvironmentVars, CallVars, rows, cache, pools, mutex, gates, usage>>

\* Mutant of DrainSends: the pools are closed at once.
DrainSendsAtOnce(u) ==
    /\ update[u] = "announced"
    /\ update' = [update EXCEPT ![u] = "drained"]
    /\ UNCHANGED <<limiterVars, EnvironmentVars, CallVars, rows, cache, pools, mutex, gates, usage>>

\* ... and returns when those that were in have left; it is unlocked at once.
DrainSends(u) ==
    /\ update[u] = "announced"
    /\ \A d \in Deliveries : ~Reading(d)
    /\ update' = [update EXCEPT ![u] = "drained"]
    /\ UNCHANGED <<limiterVars, EnvironmentVars, CallVars, rows, cache, pools, mutex, gates, usage>>

\* Emailer.Close of one detached pool.
ClosePool(p) ==
    /\ pools[p].state = "detached"
    /\ update[pools[p].update] = "drained"
    /\ pools' = [pools EXCEPT ![p].state = "closed"]
    /\ gates' = Released(gates, ToSet(pools[p].servers))
    /\ UNCHANGED <<limiterVars, EnvironmentVars, CallVars, rows, cache, update, mutex, usage>>

\* Manager.Close: closed and done first, so that no wait outlives them.
CloseManager ==
    /\ closing = "open"
    /\ Cardinality(cancelled) < bound.cancels
    /\ closing' = "flagged"
    /\ UNCHANGED <<limiterVars, UpdateVars, CallVars, usage, day, cancelled, bound, faults>>

LockForClose ==
    /\ closing = "flagged"
    /\ \A u \in Updates : update[u] # "announced"
    /\ closing' = "announced"
    /\ UNCHANGED <<limiterVars, UpdateVars, CallVars, usage, day, cancelled, bound, faults>>

CloseAllPools ==
    LET cached == {cache[k] : k \in Keys} \ {0}
    IN  /\ closing = "announced"
        /\ mutex = 0
        /\ \A d \in Deliveries : ~Reading(d)
        /\ closing' = "closed"
        /\ pools' = [p \in PoolIds |-> IF p \in cached THEN [pools[p] EXCEPT !.state = "closed"]
                                       ELSE pools[p]]
        /\ gates' = [s \in Servers |->
                        [gates[s] EXCEPT !.refs = @ - Cardinality({p \in cached :
                                                        s \in ToSet(pools[p].servers)})]]
        /\ cache' = [k \in Keys |-> 0]
        /\ UNCHANGED <<limiterVars, CallVars, rows, update, mutex, usage, day, cancelled, bound, faults>>

\* A pipe is stopped and closes the channel its messages wait on.
StopCampaign(k) ==
    /\ k \notin cancelled
    /\ Cardinality(cancelled) < bound.cancels
    /\ cancelled' = cancelled \cup {k}
    /\ UNCHANGED <<limiterVars, UpdateVars, CallVars, usage, day, closing, bound, faults>>

Midnight ==
    /\ day < bound.days
    /\ day' = day + 1
    /\ UNCHANGED <<limiterVars, UpdateVars, CallVars, usage, cancelled, closing, bound, faults>>

\* Time passes by itself at first, and later while somebody waits for it.
TimePasses ==
    /\ clock < bound.ticks \/ \E d \in Deliveries : call[d].at = "parked" /\ call[d].until > clock
                                                   /\ call[d].until <= MaxClock
    /\ Tick
    /\ UNCHANGED deliveryVars

-----------------------------------------------------------------------------
(* The specification. *)

Init ==
    /\ bound \in Bounds
    /\ LimiterInit
    /\ rows = AccountServers
    /\ cache = [k \in Keys |-> 0]
    /\ gates = [s \in Servers |-> IF s = SystemServer THEN [refs |-> 1, gate |-> 1]
                                  ELSE [refs |-> 0, gate |-> 0]]
    /\ pools = [p \in PoolIds |->
                  IF p = 1 THEN [NoPool EXCEPT !.key = System, !.servers = <<SystemServer>>,
                                               !.gate = [s \in Servers |-> 1], !.state = "open"]
                  ELSE NoPool]
    /\ update = [u \in Updates |-> "none"]
    /\ mutex = 0
    /\ tokens = [s \in Servers |-> [g \in PoolIds |-> NoTokens]]
    /\ call = [d \in Deliveries |-> NoCall]
    /\ usage = [s \in Servers |-> [d \in Days |-> 0]]
    /\ reserved = [s \in Servers |-> 0]
    /\ day = 1
    /\ cancelled = {}
    /\ closing = "open"
    /\ faults = 0
    /\ accepted = [s \in Servers |-> [d \in Days |-> 0]]
    /\ unrecorded = [s \in Servers |-> [d \in Days |-> 0]]

CallStep(d) ==
    \/ ResolveCached(d) \/ ResolveNew(d) \/ ResolveFails(d) \/ Push(d)
    \/ PickServer(d) \/ TakeConnection(d) \/ TakeDelay(d) \/ PassGate(d) \/ StopWaiting(d)
    \/ StartAttempt(d) \/ Park(d) \/ WakeUp(d) \/ ServerAccepts(d) \/ Commit(d)

CallFault(d) == PickFails(d) \/ ServerRefuses(d) \/ CommitFails(d)

RetireStep == \E u \in Updates : EndUpdate(u) \/ LockSends(u) \/ DrainSends(u)

Next ==
    \/ \E d \in Deliveries : Enter(d) \/ CallStep(d) \/ CallFault(d)
    \/ \E u \in Updates : BeginUpdate(u) \/ Invalidate(u)
    \/ RetireStep
    \/ \E p \in PoolIds : ClosePool(p)
    \/ CloseManager \/ LockForClose \/ CloseAllPools
    \/ \E k \in Campaigns : StopCampaign(k)
    \/ Midnight
    \/ TimePasses

\* Goroutines run, SMTP attempts and callbacks end, time passes; nobody has to
\* change a configuration, stop a campaign or close the manager.
Fairness ==
    /\ \A d \in Deliveries : WF_vars(CallStep(d)) /\ WF_vars(PickFails(d))
    /\ WF_vars(RetireStep)
    /\ \A p \in PoolIds : WF_vars(ClosePool(p))
    /\ WF_vars(LockForClose \/ CloseAllPools)
    /\ WF_vars(TimePasses)

Spec == Init /\ [][Next]_vars
FairSpec == Spec /\ Fairness

-----------------------------------------------------------------------------
(* Properties. *)

Waiting == {"connections", "connected", "gate", "delayed", "limiter", "parked", "sending"}
Placed == {"resolved", "picking", "accepted"} \cup Waiting

\* A call finds the pool it was given open, with the server it goes through, until it
\* ends; its place in a daily quota lasts from the choice of the server to the commit.
CallsPlaced ==
    \A d \in Deliveries :
        LET q == call[d]
        IN  /\ q.at \in Placed =>
                /\ q.pool \in PoolIds /\ pools[q.pool].key = Key[d]
                /\ \/ pools[q.pool].state = "open"
                   \/ pools[q.pool].state = "detached" /\ update[pools[q.pool].update] # "drained"
            /\ q.at \notin Placed => q.pool = 0
            /\ q.at \in Waiting \cup {"accepted"} => q.server \in ToSet(PoolOf(d).servers)
            /\ ToSet(q.try) \subseteq IF q.at = "picking" THEN ToSet(PoolOf(d).servers) ELSE {}
            /\ q.reserved <=> /\ q.at \in Waiting \cup {"accepted"}
                              /\ Key[d] # System /\ DailyLimit[q.server] > 0
            /\ q.at = "accepted" => q.reserved

\* Pools are built in their order, each for its key and with servers of its own account,
\* and what is detached belongs to an update that closes it.
PoolsPlaced ==
    \A p \in PoolIds :
        LET m == pools[p]
        IN  /\ m.state # "absent" => \A q \in 1..p : pools[q].state # "absent"
            /\ p = 1 => m.state = "open" /\ m.key = System /\ m.servers = <<SystemServer>>
            /\ p # 1 => m.key # System /\ ToSet(m.servers) \subseteq AccountServers
            /\ m.state = "detached" =>
                m.update \in Updates /\ update[m.update] # "none"

\* Cached pools are open and of their key; while a transaction runs there are none, and
\* otherwise none has a server whose row a transaction deleted.
CachePlaced ==
    /\ \A k \in Keys : cache[k] # 0 => pools[cache[k]].state = "open" /\ pools[cache[k]].key = k
    /\ \A u \in Updates : update[u] = "callback" <=> mutex = u
    /\ IF mutex # 0 THEN \A k \in Keys : cache[k] = 0
       ELSE \A k \in Keys : cache[k] # 0 => ToSet(pools[cache[k]].servers) \subseteq rows

\* Pools that are not closed share the entry their server has now.
GatesPlaced ==
    \A s \in Servers :
        /\ gates[s].gate # 0 => gates[s].gate \in PoolIds /\ pools[gates[s].gate].state # "absent"
        /\ \A p \in PoolIds :
            /\ pools[p].state # "absent" /\ s \in ToSet(pools[p].servers)
               => pools[p].gate[s] \in PoolIds
            /\ pools[p].state \in {"open", "detached"} /\ s \in ToSet(pools[p].servers)
               => pools[p].gate[s] = gates[s].gate

AcceptedOf(s) == {d \in Deliveries : call[d].server = s /\ call[d].at = "accepted"}

\* What was sent and what is reserved stay below the limit; an accepted message is in the
\* usage, on its way there, or could not be written.
QuotaHeld ==
    \A s \in rows : DailyLimit[s] > 0 =>
        /\ usage[s][day] + reserved[s] <= DailyLimit[s]
        /\ accepted[s][day] <= usage[s][day] + Cardinality(AcceptedOf(s)) + unrecorded[s][day]
        /\ \A t \in Days : t > day => usage[s][t] = 0 /\ accepted[s][t] = 0 /\ unrecorded[s][t] = 0

\* Every token of a gate, every active attempt and every reserved place of a daily
\* quota is held by exactly one call, and every pool that is not closed is counted by
\* the gates it shares: what is neither used nor given back would be lost until the
\* process restarts, what is given back twice admits one too many.  So the gate of a
\* server admits one delayed attempt at a time, whichever pools the calls came from, and
\* what a server accepts on one day never exceeds its limit, except by messages whose
\* usage row could not be written (acquireSendGate, DeliveryLimiter, ReserveServer).
HeldExact ==
    /\ TypeOK
    /\ \A s \in Servers :
        /\ \A g \in PoolIds :
            /\ tokens[s][g].connections = Cardinality(Holding(s, g, "connections"))
            /\ tokens[s][g].delay = Cardinality(Holding(s, g, "delay"))
            /\ tokens[s][g].delay <= 1
        /\ gates[s].refs = Cardinality({p \in PoolIds : /\ pools[p].state \in {"open", "detached"}
                                                        /\ s \in ToSet(pools[p].servers)})
        /\ Cardinality({d \in Deliveries : call[d].server = s /\ Holds(d, "delay")}) <= 1
        /\ reserved[s] = Cardinality({d \in Deliveries : call[d].server = s /\ call[d].reserved})
        /\ s \in rows /\ DailyLimit[s] > 0 =>
            accepted[s][day] <= DailyLimit[s] + unrecorded[s][day]
    /\ QuotaHeld
    /\ IF MaxConcurrent > 0
       THEN /\ active = Cardinality({d \in Deliveries : call[d].at = "sending"})
            /\ active <= MaxConcurrent
       ELSE active = 0

\* Replacing the servers of an account neither breaks the calls that are under way nor
\* leaves an old server in use: a call finds its pool open until it ends, since a
\* detached pool is closed behind the write lock only; and no cached pool sends through
\* a server whose row a transaction deleted (retireSMTP, messengerForUser).
PoolsCurrent ==
    /\ CallsPlaced /\ PoolsPlaced /\ CachePlaced /\ GatesPlaced
    /\ \A d \in Deliveries : Reading(d) /\ call[d].pool # 0 => ~Closed(d)
    /\ mutex = 0 => \A k \in Keys : cache[k] # 0 => ToSet(pools[cache[k]].servers) \subseteq rows

\* A call that began ends, since no wake-up is lost and no wait is circular, and a
\* pool that was detached is closed in the end (retireSMTP, DeliveryLimiter.Wait).
WorkEnds ==
    /\ \A d \in Deliveries : call[d].at # "idle" ~> call[d].at = "done"
    /\ \A p \in PoolIds : pools[p].state = "detached" ~> pools[p].state = "closed"
=============================================================================
