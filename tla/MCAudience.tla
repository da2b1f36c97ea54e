----------------------------- MODULE MCAudience -----------------------------
(* Small instances of SelfService for TLC. *)
EXTENDS SelfService, TLC

CONSTANTS c, d, k, l

\* Customers c and d; k asks for a confirmation, l is a public list.
Quiet == [operator |-> 0, import |-> 0, recipient |-> 0, system |-> 0, campaign |-> 0, list |-> 0,
          type |-> "regular"]

\* c is enabled, and on both lists as given; l exists unless it is still to be created.
Instance(bound, s, t) ==
    [left |-> bound,
     customers |-> c :> "enabled" @@ d :> "none",
     lists |-> k :> "private" @@ l :> (IF bound.list > 0 THEN "none" ELSE "public"),
     double |-> {k},
     membership |-> [p \in Pairs |-> IF p = <<c, k>> THEN s ELSE IF p = <<c, l>> THEN t ELSE "none"]]

\* Operators against an import and against one another; recipients against an import and
\* against operators; the system; a campaign that asks for confirmation.
Scenarios ==
    { Instance([Quiet EXCEPT !.operator = 1, !.import = 2], "confirmed", "none"),
      Instance([Quiet EXCEPT !.operator = 2, !.campaign = 1], "unsubscribed", "confirmed"),
      Instance([Quiet EXCEPT !.recipient = 2, !.import = 1, !.campaign = 1], "none", "unconfirmed"),
      Instance([Quiet EXCEPT !.recipient = 2, !.operator = 1], "unconfirmed", "confirmed"),
      Instance([Quiet EXCEPT !.system = 2, !.import = 1, !.campaign = 1], "unconfirmed", "none"),
      Instance([Quiet EXCEPT !.list = 1, !.recipient = 1, !.campaign = 2, !.type = "optin"],
               "unconfirmed", "none") }

\* A campaign that has its recipients, and a bounce.
Bounced == {Instance([Quiet EXCEPT !.system = 1, !.campaign = 1], "confirmed", "none")}
=============================================================================
