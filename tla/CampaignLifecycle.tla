------------------------- MODULE CampaignLifecycle -------------------------
(***************************************************************************)
(* The life of a campaign as its owner sees it: its status, and the        *)
(* recipients it could still reach.                                        *)
(***************************************************************************)
CONSTANT Customers

VARIABLES
    status,
    open,     \* unsent recipients that may still be sent to
    misled    \* an input: the sender takes the campaign for done though it is not

life == <<status, open>>

Init == status \in {"draft", "scheduled", "running"} /\ open = Customers

\* The send or resume time has come.
Start ==
    /\ status \in {"scheduled", "deferred"}
    /\ status' = "running"
    /\ UNCHANGED open

\* A campaign is finished when nobody is left, and before only by a misled sender.
Finish ==
    /\ open = {} \/ misled
    /\ status' = "finished"
    /\ UNCHANGED open

\* The sender gives up for now: too many errors, the day's limit, no sender.
Suspend ==
    /\ status = "running"
    /\ status' \in {"paused", "deferred", "draft"}
    /\ UNCHANGED open

\* The owner decides.
Control ==
    /\ \/ status = "scheduled" /\ status' = "draft"
       \/ status \in {"draft", "paused", "deferred"} /\ status' \in {"scheduled", "running"}
       \/ status \in {"running", "deferred"} /\ status' \in {"paused", "cancelled"}
       \/ status = "paused" /\ status' = "cancelled"
    /\ open' \subseteq open

\* The owner loses the last SMTP server.
Disable ==
    /\ \/ status = "running" /\ status' = "paused"
       \/ status \in {"scheduled", "deferred"} /\ status' = "draft"
    /\ UNCHANGED open

\* Recipients are sent to, exhausted, excluded or, after a late failure in a
\* cancelled campaign, given back; a finished campaign takes nobody back.
Settle ==
    /\ status # "finished" \/ open' \subseteq open
    /\ open' \subseteq Customers
    /\ UNCHANGED status

Next == Start \/ Finish \/ Suspend \/ Control \/ Disable \/ Settle

Spec == Init /\ [][Next]_life

=============================================================================
