--------------------------- MODULE MCSmtpDelivery ---------------------------
(* Small instances of SmtpDelivery for TLC. *)
EXTENDS SmtpDelivery

CONSTANTS d1, d2, d3, d4, c1, c2, a, y, second

\* Two calls of the account and one that was assigned server a, one of the platform.
SharedCampaign == d1 :> c1 @@ d2 :> c1 @@ d3 :> c2 @@ d4 :> NoCampaign
SharedKey == d1 :> Account @@ d2 :> Account @@ d3 :> a @@ d4 :> System

TwoMessagesOfA == a :> 2 @@ y :> 0
OnePerSecond == second :> 1
OneTick == second :> 1

\* Around two calls that share a server: the configuration changes; or statements
\* fail, a campaign stops, midnight comes.  A
\* call of the platform outlives pools.  Three calls that share the limiter.
Calm == [calls |-> {d1, d3}, ticks |-> 0, updates |-> 0, days |-> 1, faults |-> 0, cancels |-> 0]
Scenarios ==
    { [Calm EXCEPT !.updates = 1],
      [Calm EXCEPT !.cancels = 1, !.faults = 1, !.days = 2],
      [Calm EXCEPT !.calls = {d3, d4}, !.updates = 1, !.cancels = 1],
      [Calm EXCEPT !.calls = {d1, d2, d3}, !.ticks = 1] }
=============================================================================
