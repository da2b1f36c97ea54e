----------------------------- MODULE MCHandover -----------------------------
(* Small instances of Handover for TLC. *)
EXTENDS Handover, TLC

\* Customers 1 to 3 have one address; 4 is a campaign, 5 and 6 are lists, 7 and 8 templates.
KindOf == <<"customer", "customer", "customer", "campaign", "list", "list", "template", "template">>
AddressOf == <<"x", "x", "x", "-", "-", "-", "-", "-">>

CONSTANTS a, m, n

\* Manager m, member n, and a platform administrator who is in or not.
Nobodies == [u \in Users |-> "none"]
Staff(r) == [u \in Users |-> CASE u = m -> "manager" [] u = n -> "member" [] OTHER -> r]

Quiet == [membership |-> 0, removal |-> 0, invite |-> 0, delay |-> 0, creation |-> 0,
          transfer |-> 0, control |-> 0, end |-> 0, deletion |-> 0,
          members |-> Staff("none"), resources |-> {}]

\* Members come and go, are promoted, invited and deleted; resources of a member who
\* leaves, or of the whole organization, with a request that is late; customers of one
\* address under several owners; what is brought along; a campaign that is sent.
Scenarios ==
    { [Quiet EXCEPT !.membership = 4, !.removal = 2, !.delay = 1, !.members = Nobodies],
      [Quiet EXCEPT !.invite = 3, !.removal = 1, !.end = 2, !.deletion = 1],
      [Quiet EXCEPT !.removal = 1, !.delay = 1, !.creation = 3, !.transfer = 1, !.end = 2,
                    !.deletion = 1, !.resources = {5, 7}],
      [Quiet EXCEPT !.removal = 2, !.creation = 3, !.transfer = 2, !.members = Staff("manager"),
                    !.resources = {1, 2, 3}],
      [Quiet EXCEPT !.removal = 1, !.creation = 2, !.transfer = 1, !.delay = 1,
                    !.resources = {1, 5, 7}],
      [Quiet EXCEPT !.removal = 1, !.creation = 1, !.control = 3, !.delay = 1, !.transfer = 1,
                    !.end = 1, !.resources = {4}] }
=============================================================================
