----------------------------- MODULE ImportAudit -----------------------------
(* The requests that start an import and the terminal audit event of each        *)
(* session (cmd/import.go, cmd/import_audit.go). The tracker holds the session    *)
(* whose end is still to be recorded; its watcher and the admission of the next    *)
(* import claim it.                                                              *)
EXTENDS Importer

VARIABLES
    request,    \* per upload: "new", "checked", "refused" or "admitted"
    held,       \* who holds the tracker lock in an admission, and whether the pending
                \* session was seen running
    pending,    \* the session of the tracker, or 0
    watcher,    \* per session: its watcher is waiting
    events,     \* history: the outcomes recorded per session
    overtaken   \* history: sessions that ended while the next one was being admitted

auditVars == <<request, held, pending, watcher, events, overtaken>>
vars == <<importerVars, auditVars>>

Free == [by |-> 0, running |-> FALSE]

Init ==
    /\ ImporterInit
    /\ request = [s \in Sessions |-> "new"]
    /\ held = Free /\ pending = 0
    /\ watcher = [s \in Sessions |-> FALSE]
    /\ events = [s \in Sessions |-> <<>>]
    /\ overtaken = {}

\* The pre-check of ImportCustomers; the upload is copied after it. Uploads are
\* numbered as they come.
ImportCustomers(s) ==
    /\ request[s] = "new" /\ IsDone
    /\ \A t \in Sessions : t < s => request[t] # "new"
    /\ request' = [request EXCEPT ![s] = "checked"]
    /\ UNCHANGED <<importerVars, held, pending, watcher, events, overtaken>>

\* The status still describes the pending session, and is terminal.
Claimable(s) == s # 0 /\ im.file = session[s].file /\ im.status \in Terminal

Record(s) == events' = [events EXCEPT ![s] = Append(@, im.status)]

\* Mutant: the admission of a session leaves the previous one to its watcher.
ClaimNothing(s) ==
    /\ request[s] = "checked" /\ held = Free
    /\ held' = [by |-> s, running |-> pending \notin done]
    /\ UNCHANGED <<importerVars, request, pending, events, watcher, overtaken>>

\* Under the tracker lock an admission first claims a session that has ended.
AdmissionClaims(s) ==
    /\ request[s] = "checked" /\ held = Free
    /\ held' = [by |-> s, running |-> pending \notin done]
    /\ IF Claimable(pending) THEN pending' = 0 /\ Record(pending)
       ELSE UNCHANGED <<pending, events>>
    /\ UNCHANGED <<importerVars, request, watcher, overtaken>>

AdmissionRefused(s) ==
    /\ held.by = s /\ ~IsDone
    /\ request' = [request EXCEPT ![s] = "refused"]
    /\ held' = Free
    /\ UNCHANGED <<importerVars, pending, watcher, events, overtaken>>

\* NewSession takes the importer's own lock; the tracker then holds the new session.
AdmitImportSession(s) ==
    /\ held.by = s /\ IsDone
    /\ \E file \in Files, load \in {"extract", "open"} : Publish(s, file, load)
    /\ request' = [request EXCEPT ![s] = "admitted"]
    /\ watcher' = [watcher EXCEPT ![s] = TRUE]
    /\ overtaken' = IF held.running /\ pending # 0 THEN overtaken \cup {pending} ELSE overtaken
    /\ pending' = s
    /\ held' = Free
    /\ UNCHANGED <<done, signals, published, cleared, left, events>>

\* The watcher waits for the done channel of its own session.
WatchImportAuditSession(s) ==
    /\ watcher[s] /\ s \in done /\ held = Free
    /\ watcher' = [watcher EXCEPT ![s] = FALSE]
    /\ IF pending = s /\ Claimable(s) THEN pending' = 0 /\ Record(s)
       ELSE UNCHANGED <<pending, events>>
    /\ UNCHANGED <<importerVars, request, held, overtaken>>

Admission(s) == AdmissionClaims(s) \/ AdmissionRefused(s) \/ AdmitImportSession(s)

Next ==
    \/ StopImport /\ UNCHANGED auditVars
    \/ SendSignal /\ UNCHANGED auditVars
    \/ \E s \in Sessions :
        \/ LoaderStep(s) /\ UNCHANGED auditVars
        \/ LoaderBreaks(s) /\ UNCHANGED auditVars
        \/ StartStep(s) /\ UNCHANGED auditVars
        \/ StartStumbles(s) /\ UNCHANGED auditVars
        \/ ImportCustomers(s)
        \/ Admission(s)
        \/ WatchImportAuditSession(s)

Spec == Init /\ [][Next]_vars

\* Goroutines run; nothing makes a user act or a step fail.
Fairness ==
    \A s \in Sessions :
        /\ WF_vars(LoaderStep(s) /\ UNCHANGED auditVars)
        /\ WF_vars(StartStep(s) /\ UNCHANGED auditVars)
        /\ WF_vars(WatchImportAuditSession(s))
        /\ WF_vars(held.by = s /\ Admission(s))

FairSpec == Spec /\ Fairness

(***************************************************************************)
(* Properties.                                                             *)
(***************************************************************************)
Ended(s) == request[s] = "admitted" /\ s \in done

SessionType ==
    [file : Files \cup {""}, queue : Nat, closed : BOOLEAN,
     at : Terminal \cup {"idle", "receive", "write", "leave", "commit", "returned"},
     cur : Nat, rolledBack : BOOLEAN,
     load : {"idle", "extract", "open", "unzip", "header", "read", "enqueue", "send", "failing", "ended"},
     read : Nat, committed : Nat]

TypeOK ==
    /\ im \in [status : Busy \cup Terminal \cup {"none"}, file : Files \cup {""},
              imported : Nat, current : Sessions \cup {0}]
    /\ done \subseteq Sessions \cup {0} /\ stop \in BOOLEAN /\ signals \in Nat
    /\ session \in [Sessions -> SessionType]
    /\ published \in [Sessions -> SUBSET Terminal] /\ cleared \subseteq done
    /\ left \in [faults : Nat, stops : Nat, failed : Nat]
    /\ request \in [Sessions -> {"new", "checked", "refused", "admitted"}]
    /\ held \in [by : Sessions \cup {0}, running : BOOLEAN]
    /\ pending \in Sessions \cup {0} /\ watcher \in [Sessions -> BOOLEAN]
    /\ events \in [Sessions -> Seq(Terminal)] /\ overtaken \subseteq Sessions

\* The importer's status is that of the session admitted last, and so is the tracker's
\* session; who was admitted before has ended. A session that ended and was not cleared
\* shows how.
Followed ==
    /\ 0 \in done /\ (IsDone => im.current \in done)
    /\ \A s \in Sessions :
        /\ request[s] # "admitted" =>
              /\ s \notin done /\ im.current # s /\ pending # s
              /\ events[s] = <<>> /\ session[s] = NewSession
        /\ request[s] = "admitted" => session[s].at # "idle"
        /\ request[s] = "admitted" /\ s \notin done => pending = s /\ watcher[s] /\ im.current = s
    /\ pending # 0 => pending = im.current /\ events[pending] = <<>>
    /\ held.by # 0 => /\ request[held.by] = "checked"
                      /\ pending # 0 /\ ~held.running => pending \in cleared
    /\ im.current # 0 /\ im.current \notin cleared =>
          /\ im.file = session[im.current].file
          /\ im.current \in done => im.status \in Terminal

\* Start left the loop although the queue is open: a statement of it failed.
BrokeOff(q) ==
    ~q.closed /\ q.at \in Terminal \cup {"leave", "commit", "returned"}

\* Neither goroutine of the session publishes anything any more, unless it fails again.
Silent(q) ==
    \/ /\ q.at = "returned" /\ q.load # "failing"
       /\ q.closed \/ left.failed > 0
    \/ /\ q.at \in {"receive", "write"} /\ q.load = "ended"
       /\ ~q.closed /\ left.failed > 0

\* While at most one step failed, a session publishes one status, and none after its end.
SpeaksOnce ==
    /\ \A s \in Sessions : session[s].closed => session[s].load = "ended"
    /\ left.failed = 0 => \A s \in Sessions : session[s].load # "failing" /\ ~BrokeOff(session[s])
    /\ left.failed <= 1 =>
        /\ \A s \in Sessions :
            /\ ~(session[s].load = "failing" /\ BrokeOff(session[s]))
            /\ s \in done => Silent(session[s])
        /\ im.current # 0 /\ im.current \in done =>
              IF im.current \in cleared THEN im.status \notin Terminal
              ELSE im.status \in published[im.current]

\* A session is recorded once, when it ended, and with an outcome of its own as long
\* as at most one step failed; one that ended without a record is still the tracker's,
\* unless a request cleared its status or it ended in the middle of an admission
\* (import_audit.go, admitImportSession).
AuditExact ==
    /\ TypeOK /\ Followed /\ SpeaksOnce
    /\ \A s \in Sessions :
        /\ Len(events[s]) <= 1
        /\ events[s] # <<>> => Ended(s)
        /\ events[s] # <<>> /\ left.failed <= 1 => events[s][1] \in published[s]
        /\ Ended(s) /\ events[s] = <<>> =>
              (pending = s /\ watcher[s]) \/ s \in cleared \cup overtaken

\* Every admitted session comes to an end and is recorded, unless its record is lost in
\* one of those two ways. A writer whose loader met a read error may still wait for ever.
SessionsSettle ==
    \A s \in Sessions :
        request[s] = "admitted" ~> s \in done /\ (events[s] # <<>> \/ s \in cleared \cup overtaken)
==============================================================================
