\* Operators, imports, recipients, the system and a campaign, two or three at a time, over
\* two customers and two lists; one list asks for a confirmation.
SPECIFICATION Spec
CONSTANTS
    c = c
    d = d
    k = k
    l = l
    Customers = {c, d}
    Lists = {k, l}
    CampaignLists = {k, l}
    Bounds <- Scenarios
INVARIANTS RefusalHolds
PROPERTIES ClaimedOnConsent SharedCustomersStay
\* The operations of an instance run out.
CHECK_DEADLOCK FALSE
