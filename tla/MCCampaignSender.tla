------------------------- MODULE MCCampaignSender -------------------------
(* Small instances of CampaignSender for TLC. *)
EXTENDS CampaignRefinement, TLC

CONSTANTS p1, p2, q1, q2

OnePrivate == {p1}
TwoPrivate == {p1, p2}
NoPool == {}
OnePool == {q1}

Unlimited == {-1}
Scarce == {-1, 0, 1}

Symmetry == Permutations(Private) \cup Permutations(Pool)
===========================================================================
