------------------------------ MODULE Importer ------------------------------
(* The importer of customers (internal/subimporter/importer.go): one status for  *)
(* the whole process, and per session two goroutines, a loader that reads the    *)
(* uploaded file into a queue and Start, which writes the queue to the database   *)
(* in batches. A session ends when somebody publishes a terminal status, and     *)
(* both goroutines may outlive it.                                               *)
EXTENDS Integers, Sequences, FiniteSets

CONSTANTS
    Sessions,           \* the uploads that may become sessions
    Files,              \* their names
    Rows,               \* rows of a file that carry a customer
    CommitBatchSize,    \* rows of one transaction, and places of the queue
    Bounds              \* bound: [faults, stops], the reads, inserts and commits that
                        \* may fail and the requests to stop or to clear an import

ASSUME ImporterAssumption ==
    /\ Sessions \subseteq Nat \ {0} /\ IsFiniteSet(Sessions)
    /\ Rows \in Nat /\ CommitBatchSize \in Nat \ {0}
    /\ Bounds \subseteq [faults : Nat, stops : Nat]

VARIABLES
    im,         \* the published status, with the session of the current done channel
    done,       \* the sessions whose done channel is closed
    stop,       \* a signal is buffered in the stop channel
    signals,    \* Stop calls that have published "stopping" and not yet signalled
    session,    \* per session: its queue and its two goroutines
    published,  \* history: the statuses a session's own goroutines published
    cleared,    \* history: the sessions whose end a request wiped
    left        \* what the bounds leave, and history: how much failed

importerVars == <<im, done, stop, signals, session, published, cleared, left>>

Busy == {"importing", "stopping"}
Terminal == {"finished", "stopped", "failed"}

\* at is where Start is, cur the rows of the open transaction (rolledBack: of one that
\* is gone), load where the loader is, read the rows it took from the file.
NewSession == [file |-> "", queue |-> 0, closed |-> FALSE, at |-> "idle", cur |-> 0,
               rolledBack |-> FALSE, load |-> "idle", read |-> 0, committed |-> 0]

ImporterInit ==
    /\ im = [status |-> "none", file |-> "", imported |-> 0, current |-> 0]
    /\ done = {0} /\ stop = FALSE /\ signals = 0
    /\ session = [s \in Sessions |-> NewSession]
    /\ published = [s \in Sessions |-> {}]
    /\ cleared = {}
    /\ \E b \in Bounds : left = [faults |-> b.faults, stops |-> b.stops, failed |-> 0]

(***************************************************************************)
(* The status.                                                             *)
(***************************************************************************)
IsDone == im.status \notin Busy

\* setStatus changes the status and closes the done channel of whoever is current.
SetStatus(status) ==
    /\ im' = [im EXCEPT !.status = status]
    /\ done' = IF status \in Busy THEN done ELSE done \cup {im.current}

\* The critical section of NewSession, for a caller that found the importer idle.
Publish(s, file, load) ==
    /\ im' = [status |-> "importing", file |-> file, imported |-> 0, current |-> s]
    /\ stop' = FALSE
    /\ session' = [session EXCEPT ![s] = [NewSession EXCEPT !.file = file, !.at = "receive",
                                                            !.load = load]]

Fail == left.faults > 0 /\ left' = [left EXCEPT !.faults = @ - 1, !.failed = @ + 1]

\* Stop publishes under the lock and signals after it; of an import that has ended it
\* clears the state.
StopImport ==
    /\ left.stops > 0
    /\ left' = [left EXCEPT !.stops = @ - 1]
    /\ \/ /\ im.status = "importing"
          /\ im' = [im EXCEPT !.status = "stopping"]
          /\ signals' = signals + 1
          /\ UNCHANGED <<done, cleared>>
       \/ /\ im.status \notin Busy
          /\ im' = [im EXCEPT !.status = "none", !.file = "", !.imported = 0]
          /\ done' = done \cup {im.current}
          /\ cleared' = cleared \cup {im.current}
          /\ UNCHANGED signals
    /\ UNCHANGED <<stop, session, published>>

SendSignal ==
    /\ signals > 0
    /\ signals' = signals - 1
    /\ stop' = TRUE
    /\ UNCHANGED <<im, done, session, published, cleared, left>>

(***************************************************************************)
(* The loader: ExtractZIP, LoadCSV and LoadXLSX.                           *)
(***************************************************************************)
Load(s, at) == session' = [session EXCEPT ![s].load = at]
CloseQueue(s) == session' = [session EXCEPT ![s].load = "ended", ![s].closed = TRUE]

\* A loader that finds the importer idle does nothing at all.
LoaderRefused(s) ==
    /\ session[s].load \in {"extract", "open"} /\ IsDone
    /\ Load(s, "ended")
    /\ UNCHANGED <<im, done, stop, signals, published, cleared, left>>

LoaderEnters(s) ==
    /\ session[s].load \in {"extract", "open"} /\ ~IsDone
    /\ Load(s, IF session[s].load = "extract" THEN "unzip" ELSE "header")
    /\ UNCHANGED <<im, done, stop, signals, published, cleared, left>>

\* The archive is extracted, or the header resolved. Without a header the first line
\* is a row already.
LoaderOpens(s) ==
    /\ \/ session[s].load = "unzip" /\ Load(s, "open")
       \/ session[s].load = "header" /\ Load(s, "read")
       \/ session[s].load = "header" /\ Rows > 0
          /\ session' = [session EXCEPT ![s].load = "enqueue", ![s].read = 1]
    /\ UNCHANGED <<im, done, stop, signals, published, cleared, left>>

\* Mutant: a loader that sees the stop returns and leaves the queue open.
LoaderStopsOpen(s) ==
    /\ session[s].load \in {"read", "enqueue"} /\ im.status = "stopping"
    /\ Load(s, "ended")
    /\ UNCHANGED <<im, done, stop, signals, published, cleared, left>>

\* Before it reads a line, and before it queues a row, the loader asks for the status.
LoaderStops(s) ==
    /\ session[s].load \in {"read", "enqueue"} /\ im.status = "stopping"
    /\ CloseQueue(s)
    /\ UNCHANGED <<im, done, stop, signals, published, cleared, left>>

LoaderReads(s) ==
    /\ session[s].load = "read" /\ im.status # "stopping"
    /\ IF session[s].read = Rows THEN CloseQueue(s)
       ELSE session' = [session EXCEPT ![s].load = "enqueue", ![s].read = @ + 1]
    /\ UNCHANGED <<im, done, stop, signals, published, cleared, left>>

LoaderQueues(s) ==
    /\ session[s].load = "enqueue" /\ im.status # "stopping"
    /\ Load(s, "send")
    /\ UNCHANGED <<im, done, stop, signals, published, cleared, left>>

\* The row is queued when there is room, or a stop signal ends the loader, whoever the
\* signal was meant for.
LoaderSends(s) ==
    /\ session[s].load = "send"
    /\ \/ /\ session[s].queue < CommitBatchSize
          /\ session' = [session EXCEPT ![s].load = "read", ![s].queue = @ + 1]
          /\ UNCHANGED stop
       \/ stop /\ stop' = FALSE /\ CloseQueue(s)
    /\ UNCHANGED <<im, done, signals, published, cleared, left>>

\* Whatever fails on the way, the status becomes failed and the queue stays open.
LoaderBreaks(s) ==
    /\ \/ session[s].load \in {"unzip", "header"}
       \/ session[s].load = "read" /\ im.status # "stopping"
    /\ Fail
    /\ Load(s, "failing")
    /\ UNCHANGED <<im, done, stop, signals, published, cleared>>

LoaderFails(s) ==
    /\ session[s].load = "failing"
    /\ SetStatus("failed")
    /\ published' = [published EXCEPT ![s] = @ \cup {"failed"}]
    /\ Load(s, "ended")
    /\ UNCHANGED <<stop, signals, cleared, left>>

LoaderStep(s) ==
    \/ LoaderRefused(s) \/ LoaderEnters(s) \/ LoaderOpens(s) \/ LoaderStops(s)
    \/ LoaderReads(s) \/ LoaderQueues(s) \/ LoaderSends(s) \/ LoaderFails(s)

(***************************************************************************)
(* Start.                                                                  *)
(***************************************************************************)
Runs(s, q) == session' = [session EXCEPT ![s] = q]

Count(rows) == im' = [im EXCEPT !.imported = @ + rows]

\* A row is taken from the queue; of a stopped import it is dropped with the open
\* transaction.
StartReceives(s) ==
    LET q == session[s] IN
    /\ q.at = "receive" /\ q.queue > 0
    /\ Runs(s, IF im.status = "stopping" THEN [q EXCEPT !.queue = @ - 1, !.cur = 0]
               ELSE [q EXCEPT !.queue = @ - 1, !.at = "write"])
    /\ UNCHANGED <<im, done, stop, signals, published, cleared, left>>

StartWrites(s) ==
    LET q == session[s]
        full == q.cur + 1 = CommitBatchSize
    IN
    /\ q.at = "write"
    /\ Runs(s, IF full THEN [q EXCEPT !.at = "receive", !.cur = 0, !.committed = @ + CommitBatchSize]
               ELSE [q EXCEPT !.at = "receive", !.cur = @ + 1])
    /\ IF full THEN Count(CommitBatchSize) ELSE UNCHANGED im
    /\ UNCHANGED <<done, stop, signals, published, cleared, left>>

\* A transaction that cannot be opened loses its first row, a commit that fails the
\* batch, and Start goes on; an insert that fails ends it with the transaction.
StartStumbles(s) ==
    LET q == session[s] IN
    /\ q.at = "write"
    /\ Fail
    /\ \/ q.cur = 0 /\ Runs(s, [q EXCEPT !.at = "receive"])
       \/ q.cur + 1 = CommitBatchSize /\ Runs(s, [q EXCEPT !.at = "receive", !.cur = 0])
       \/ Runs(s, [q EXCEPT !.at = "leave", !.rolledBack = TRUE])
    /\ UNCHANGED <<im, done, stop, signals, published, cleared>>

\* After the loop the status is read once more, and published later.
StartLeaves(s) ==
    LET q == session[s] IN
    /\ \/ q.at = "receive" /\ q.queue = 0 /\ q.closed
       \/ q.at = "leave"
    /\ Runs(s, [q EXCEPT !.at = IF im.status = "stopping" THEN "stopped"
                                ELSE IF q.cur = 0 THEN "finished" ELSE "commit"])
    /\ UNCHANGED <<im, done, stop, signals, published, cleared, left>>

StartCommits(s) ==
    LET q == session[s] IN
    /\ q.at = "commit"
    /\ \/ /\ ~q.rolledBack
          /\ Runs(s, [q EXCEPT !.at = "finished", !.committed = @ + q.cur])
          /\ Count(q.cur)
          /\ UNCHANGED left
       \/ /\ q.rolledBack
          /\ Runs(s, [q EXCEPT !.at = "failed"]) /\ UNCHANGED <<im, left>>
       \/ /\ ~q.rolledBack /\ Fail
          /\ Runs(s, [q EXCEPT !.at = "failed"]) /\ UNCHANGED im
    /\ UNCHANGED <<done, stop, signals, published, cleared>>

StartPublishes(s) ==
    LET q == session[s] IN
    /\ q.at \in Terminal
    /\ SetStatus(q.at)
    /\ published' = [published EXCEPT ![s] = @ \cup {q.at}]
    /\ Runs(s, [q EXCEPT !.at = "returned"])
    /\ UNCHANGED <<stop, signals, cleared, left>>

StartStep(s) ==
    \/ StartReceives(s) \/ StartWrites(s) \/ StartLeaves(s) \/ StartCommits(s)
    \/ StartPublishes(s)
==============================================================================
