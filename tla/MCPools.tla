------------------------------ MODULE MCPools ------------------------------
(* Small instances of PoolAllocator for TLC. *)
EXTENDS PoolAllocator

\* Contacts 1 and 2 share an address.
SharedAddress == << "x", "x", "y" >>

\* Server 1 has two messages a day, server 2 one.
SmallQuotas == << 2, 1 >>

\* In pool 1, contact 1 belongs to organization 1, contact 2 to organization 2 and
\* contact 3 to either; contact 1 is also in pool 2, of organization 2.
OnePool == { <<1, 1, 1>>, <<1, 2, 2>>, <<1, 1, 3>>, <<1, 2, 3>> }
TwoPools == OnePool \cup { <<2, 2, 1>> }
TwoContacts == { <<1, 1, 1>>, <<1, 2, 2>>, <<2, 2, 1>> }

Quiet == [scope |-> "all", filled |-> TwoPools, operations |-> {}, changes |-> 0,
          controls |-> 1, edits |-> 1, refusals |-> 0, days |-> 0, batch |-> 2,
          spanning |-> FALSE]

\* Updates that a start, a scan and claims overtake: one deletes a row that was sent, or a
\* scan puts back what the next one deletes, and it is sent again.
Overtaking ==
    { [Quiet EXCEPT !.scope = "organization", !.filled = {<<1, 1, 1>>, <<2, 1, 1>>},
                    !.controls = 2, !.edits = 3, !.spanning = TRUE] }

\* The rotation over a refusal and a pause, or a day; changes while the campaign of every
\* organization runs, and of Home alone; edits of a campaign that was paused; any
\* change around two edits of a draft; any three changes; a scan that refreshes a pool
\* an edit took from the audience; and updates that are overtaken.
Scenarios ==
    Overtaking \cup
    { [Quiet EXCEPT !.filled = OnePool, !.refusals = 1, !.controls = 2, !.batch = 1],
      [Quiet EXCEPT !.filled = OnePool, !.refusals = 1, !.days = 1],
      [Quiet EXCEPT !.operations = {"member", "feedback"}, !.changes = 1],
      [Quiet EXCEPT !.scope = "organization", !.changes = 1, !.refusals = 1,
                    !.operations = {"grant", "clear", "delete", "state", "member", "feedback"}],
      [Quiet EXCEPT !.filled = TwoContacts, !.operations = {"archive"}, !.changes = 1,
                    !.controls = 2, !.edits = 2],
      [Quiet EXCEPT !.operations = PoolOperations, !.changes = 1, !.controls = 0, !.edits = 2],
      [Quiet EXCEPT !.filled = OnePool, !.operations = PoolOperations, !.changes = 3, !.controls = 0,
                    !.edits = 0],
      [Quiet EXCEPT !.scope = "organization", !.filled = {<<1, 1, 1>>, <<2, 1, 1>>},
                    !.operations = {"member"}, !.changes = 2, !.controls = 2, !.edits = 2] }

=============================================================================
