------------------------------ MODULE MCImports ------------------------------
(* Uploads of the same name, of files that fill a batch and begin another.       *)
EXTENDS ImportAudit

Two == 1..2
Three == 1..3
SameName == {"list.csv"}

\* Two failing steps; one, and a request to stop; two requests to stop or to clear.
Troubles == {[faults |-> 2, stops |-> 0], [faults |-> 1, stops |-> 1], [faults |-> 0, stops |-> 2]}
Quiet == {[faults |-> 0, stops |-> 0]}
==============================================================================
