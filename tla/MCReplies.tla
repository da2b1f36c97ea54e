------------------------------ MODULE MCReplies ------------------------------
(* Instances of Replies for TLC: what arrives in each, and what may happen.      *)
EXTENDS Replies

CONSTANTS a, b      \* customers
Both == {a, b}

Settings == {"old", "new", "wrong"}
Works == {"old", "new"}

Two == {1, 2}

Form(conn, scanning, ai, bounce) ==
    [conn |-> conn, scanning |-> scanning, ai |-> ai, bounce |-> bounce]
Submitted == {Form("new", TRUE, TRUE, TRUE), Form("wrong", TRUE, TRUE, TRUE),
              Form("old", TRUE, FALSE, TRUE), Form("old", FALSE, TRUE, TRUE)}

Mail(kind, key, to) == [kind |-> kind, key |-> key, to |-> to]

Nothing == [edits |-> 0, tests |-> 0, leaves |-> 0, rules |-> 0, switches |-> 0, moves |-> 0,
            unblocks |-> 0, provider |-> 0, resent |-> 0, scans |-> <<0, 0>>, rounds |-> 0, faults |-> 0,
            crashes |-> 0, lapses |-> 0]

\* The connection is edited and tested while a scan of the old one is under way; a scan
\* takes two messages at a time.
Editing == [mail |-> <<Mail("broken", 1, <<>>), Mail("reply", 2, <<a>>), Mail("large", 3, <<>>)>>,
            arrived |-> 3,
            left |-> [Nothing EXCEPT !.edits = 2, !.tests = 2, !.scans = <<3, 0>>]]

\* One answer, two processes, and what may come between them.
Answering == [mail |-> <<Mail("reply", 1, <<a>>)>>, arrived |-> 1,
              left |-> [Nothing EXCEPT !.switches = 1, !.unblocks = 1, !.scans = <<1, 2>>,
                                       !.faults = 1, !.crashes = 1, !.lapses = 2]]
Attributing == [mail |-> <<Mail("reply", 1, <<a>>)>>, arrived |-> 0,
                left |-> [Nothing EXCEPT !.switches = 1, !.moves = 2, !.scans = <<2, 1>>]]

\* Reports, one of them of two recipients, read by two scans, one of which may end early.
Reporting == [mail |-> <<Mail("hard", 1, <<a, b>>), Mail("hard", 2, <<a>>)>>, arrived |-> 2,
              left |-> [Nothing EXCEPT !.moves = 1, !.unblocks = 1, !.provider = 1, !.resent = 1,
                                       !.scans = <<1, 2>>, !.faults = 1]]
Switching == [mail |-> <<Mail("hard", 1, <<a>>), Mail("soft", 2, <<a>>)>>, arrived |-> 2,
              left |-> [Nothing EXCEPT !.switches = 2, !.unblocks = 1, !.provider = 1,
                                       !.scans = <<1, 1>>]]

\* The owner leaves, may return, and what arrived is forwarded; two processes do it, fail,
\* stop or lose an outcome.
Leaving == [mail |-> <<Mail("reply", 1, <<a>>), Mail("broken", 2, <<>>), Mail("hard", 3, <<b>>)>>,
            arrived |-> 2,
            left |-> [Nothing EXCEPT !.leaves = 3, !.rules = 1, !.edits = 1, !.rounds = 2]]
Forwarding == [mail |-> <<Mail("reply", 1, <<a>>), Mail("hard", 2, <<b>>)>>, arrived |-> 2,
               left |-> [Nothing EXCEPT !.leaves = 1, !.rounds = 3, !.faults = 2, !.crashes = 1]]

Scenarios == {Editing, Answering, Attributing, Reporting, Switching, Leaving, Forwarding}

\* A provider whose call was answered with an error.
Resending == {[mail |-> <<Mail("hard", 1, <<a>>)>>, arrived |-> 1,
               left |-> [Nothing EXCEPT !.provider = 1, !.resent = 1, !.scans = <<1, 0>>]]}
==============================================================================
