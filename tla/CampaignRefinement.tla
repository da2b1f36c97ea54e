------------------------- MODULE CampaignRefinement -------------------------
(***************************************************************************)
(* The sender implements the ledger of its deliveries and the life of its  *)
(* campaign.                                                               *)
(***************************************************************************)
EXTENDS CampaignSender

Ledger == INSTANCE DeliveryLedger WITH
    Customers <- Recipients, Limit <- DailyLimit, sent <- db.sentToday, held <- Held

\* Cleanup of a pipe the scheduler left early, and the scanner after deletions.
Misled ==
    \/ clean = "finish" /\ pipe.early
    \/ scan.at = "finish" /\ used.removals > 0

Lifecycle == INSTANCE CampaignLifecycle WITH
    Customers <- Recipients, status <- db.status, open <- Open, misled <- Misled

\* Every step of the sender holds, releases or counts recipients as the ledger
\* allows (NextCustomers, worker, markCampaignMessageSent, cleanup).
ImplementsLedger == Ledger!Spec

\* Every change of campaigns.status is one the life of a campaign knows, and
\* finished comes only when nobody is left or from the two places that may be misled
\* (NextCampaigns, cleanup, DeferCampaign, UpdateCampaignStatusInWorkspace).
ImplementsLifecycle == Lifecycle!Spec

=============================================================================
