--------------------------- MODULE DeliveryLedger ---------------------------
(***************************************************************************)
(* What the sender promises about one campaign and its daily limit, free   *)
(* of pipes, rows and goroutines: a recipient is held by at most one       *)
(* delivery, and whoever is held has a place left in the day's limit, next *)
(* to the successes of the day and everybody else who is held.             *)
(***************************************************************************)
EXTENDS Integers, FiniteSets

CONSTANTS Customers, Limit

VARIABLES
    sent,   \* successes counted for the local date
    held    \* recipients on their way to the SMTP server

ledger == <<sent, held>>

Init == sent = 0 /\ held = {}

\* A batch takes recipients nobody holds, as far as the limit reaches.
Hold(batch) ==
    /\ batch # {}
    /\ batch \cap held = {}
    /\ sent + Cardinality(held \cup batch) <= Limit
    /\ held' = held \cup batch
    /\ UNCHANGED sent

\* A success turns the place into a counted one.
Succeed(r) ==
    /\ r \in held
    /\ held' = held \ {r}
    /\ sent' = sent + 1

\* A failure, a stop or a crash gives places back.
Release(batch) ==
    /\ batch \subseteq held
    /\ held' = held \ batch
    /\ UNCHANGED sent

Midnight == sent' = 0 /\ UNCHANGED held

Next ==
    \/ \E batch \in SUBSET Customers : Hold(batch) \/ Release(batch)
    \/ \E r \in Customers : Succeed(r)
    \/ Midnight

Spec == Init /\ [][Next]_ledger

=============================================================================
