---------------------------- MODULE ImportProofs ----------------------------
(* The audit of imports for any uploads, files and bounds: every session is      *)
(* recorded once and truly, although its goroutines outlive it and share one      *)
(* status with those of the next.                                                *)
EXTENDS ImportAudit, SequenceTheorems, TLAPS

Statuses == [status : Busy \cup Terminal \cup {"none"}, file : Files \cup {""},
             imported : Nat, current : Sessions \cup {0}]
Lefts == [faults : Nat, stops : Nat, failed : Nat]

-----------------------------------------------------------------------------
(* Steps of the two goroutines. *)

\* Whoever has said all it will says nothing more because others fail.
LEMMA SilentStays ==
    ASSUME NEW q, Silent(q), left.failed \in Nat, left'.failed \in Nat, left'.failed >= left.failed
    PROVE  Silent(q)'
BY DEF Silent

LEMMA FailFacts ==
    ASSUME left \in Lefts, Fail
    PROVE  left' \in Lefts /\ left.failed \in Nat /\ left'.failed = left.failed + 1
<1>1. left.faults > 0 /\ left' = [left EXCEPT !.faults = @ - 1, !.failed = @ + 1]
  BY DEF Fail
<1>2. left.faults \in Nat /\ left.failed \in Nat
  BY DEF Lefts
<1>3. PICK m \in Nat, n \in Nat : m = left.faults - 1 /\ n = left.failed + 1
  BY <1>1, <1>2
<1>4. left' = [left EXCEPT !.faults = m, !.failed = n]
  BY <1>1, <1>3
<1> QED
  BY <1>2, <1>3, <1>4 DEF Lefts

\* A step of a goroutine that publishes nothing.
LEMMA WorkKeeps ==
    ASSUME AuditExact, NEW s \in Sessions, NEW q \in SessionType,
           request[s] = "admitted", session' = [session EXCEPT ![s] = q],
           q.file = session[s].file, q.at # "idle",
           im' \in Statuses, im'.status = im.status, im'.file = im.file, im'.current = im.current,
           stop' \in BOOLEAN, left' \in Lefts, left'.failed >= left.failed,
           q.closed => q.load = "ended",
           left'.failed = 0 => q.load # "failing" /\ ~BrokeOff(q),
           left'.failed <= 1 => ~(q.load = "failing" /\ BrokeOff(q)),
           left'.failed <= 1 /\ s \in done => Silent(q)',
           UNCHANGED <<done, signals, published, cleared, auditVars>>
    PROVE  AuditExact'
<1>1. TypeOK /\ Followed /\ SpeaksOnce
  BY DEF AuditExact
<1>2. UNCHANGED <<done, signals, published, cleared, request, held, pending, watcher, events, overtaken>>
  BY DEF auditVars
<1>3. /\ session' \in [Sessions -> SessionType] /\ session'[s] = q
      /\ \A t \in Sessions : t # s => session'[t] = session[t]
  BY <1>1 DEF TypeOK
<1>4. TypeOK'
  BY <1>1, <1>2, <1>3 DEF TypeOK, Statuses, Lefts
<1>5. Followed'
  <2>1. \A t \in Sessions : session'[t].file = session[t].file
    BY <1>3
  <2>2. im.current \in Sessions \cup {0}
    BY <1>1 DEF TypeOK
  <2>3. \A t \in Sessions :
          /\ request[t] # "admitted" => session'[t] = NewSession
          /\ request[t] = "admitted" => session'[t].at # "idle"
    BY <1>1, <1>3 DEF Followed
  <2> QED
    BY <1>1, <1>2, <2>1, <2>2, <2>3 DEF Followed, IsDone
<1>6. SpeaksOnce'
  <2>1. left.failed \in Nat /\ left'.failed \in Nat
    BY <1>1 DEF TypeOK, Lefts
  <2>2. \A t \in Sessions : session'[t].closed => session'[t].load = "ended"
    BY <1>1, <1>3 DEF SpeaksOnce
  <2>3. left'.failed = 0 => \A t \in Sessions : session'[t].load # "failing" /\ ~BrokeOff(session'[t])
    BY <1>1, <1>3, <2>1 DEF SpeaksOnce
  <2>4. ASSUME left'.failed <= 1
        PROVE  left.failed <= 1
    BY <2>1, <2>4
  <2>5. ASSUME left'.failed <= 1, NEW t \in Sessions
        PROVE  ~(session'[t].load = "failing" /\ BrokeOff(session'[t]))
    BY <1>1, <1>3, <2>4, <2>5 DEF SpeaksOnce
  <2>6. ASSUME left'.failed <= 1, NEW t \in Sessions, t \in done
        PROVE  Silent(session[t])' 
    <3>1. CASE t = s
      BY <1>3, <2>6, <3>1
    <3>2. CASE t # s
      <4>1. Silent(session[t])
        BY <1>1, <2>4, <2>6 DEF SpeaksOnce
      <4> QED
        BY <1>3, <2>1, <3>2, <4>1 DEF Silent
    <3> QED
      BY <3>1, <3>2
  <2>7. left'.failed <= 1 /\ im'.current # 0 /\ im'.current \in done' =>
              IF im'.current \in cleared' THEN im'.status \notin Terminal
              ELSE im'.status \in published'[im'.current]
    BY <1>1, <1>2, <2>4 DEF SpeaksOnce
  <2> QED
    BY <1>2, <2>2, <2>3, <2>5, <2>6, <2>7 DEF SpeaksOnce, BrokeOff
<1>7. \A t \in Sessions :
        /\ Len(events'[t]) <= 1
        /\ events'[t] # <<>> => Ended(t)'
        /\ events'[t] # <<>> /\ left'.failed <= 1 => events'[t][1] \in published'[t]
        /\ Ended(t)' /\ events'[t] = <<>> =>
              (pending' = t /\ watcher'[t]) \/ t \in cleared' \cup overtaken'
  <2>1. left.failed \in Nat /\ left'.failed \in Nat
    BY <1>1 DEF TypeOK, Lefts
  <2> QED
    BY <1>2, <2>1 DEF AuditExact, Ended
<1> QED
  BY <1>4, <1>5, <1>6, <1>7 DEF AuditExact

\* A loader at work belongs to an admitted session whose queue it has not closed.
LEMMA LoaderFacts ==
    ASSUME AuditExact, NEW s \in Sessions, session[s].load \notin {"idle", "ended"}
    PROVE  /\ request[s] = "admitted" /\ session[s] \in SessionType /\ session[s].at # "idle"
           /\ ~session[s].closed
           /\ left.failed <= 1 /\ s \in done => Silent(session[s])
           /\ left.failed <= 1 => ~(session[s].load = "failing" /\ BrokeOff(session[s]))
           /\ left.failed = 0 => session[s].load # "failing" /\ ~BrokeOff(session[s])
           /\ left \in Lefts /\ im \in Statuses /\ stop \in BOOLEAN
<1>1. TypeOK /\ Followed /\ SpeaksOnce
  BY DEF AuditExact
<1>2. request[s] = "admitted"
  <2> SUFFICES ASSUME request[s] # "admitted" PROVE FALSE
    OBVIOUS
  <2>1. session[s] = NewSession
    BY <1>1 DEF Followed
  <2>2. NewSession.load = "idle"
    BY DEF NewSession
  <2> QED
    BY <2>1, <2>2
<1> QED
  BY <1>1, <1>2 DEF TypeOK, Followed, SpeaksOnce, Lefts, Statuses

\* A loader step that neither fails nor publishes.
LEMMA LoadKeeps ==
    ASSUME AuditExact, NEW s \in Sessions, NEW q \in SessionType,
           session[s].load \notin {"idle", "ended", "failing"}, session' = [session EXCEPT ![s] = q],
           q.file = session[s].file, q.at = session[s].at, q.load \notin {"idle", "failing"},
           q.closed => q.load = "ended",
           stop' \in BOOLEAN,
           UNCHANGED <<im, left, done, signals, published, cleared, auditVars>>
    PROVE  AuditExact'
<1>1. /\ request[s] = "admitted" /\ session[s] \in SessionType /\ session[s].at # "idle"
      /\ ~session[s].closed
      /\ left.failed <= 1 /\ s \in done => Silent(session[s])
      /\ left.failed = 0 => ~BrokeOff(session[s])
      /\ left \in Lefts /\ im \in Statuses
  BY LoaderFacts
<1>2. left.failed \in Nat
  BY <1>1 DEF Lefts
<1>3. left'.failed >= left.failed
  BY <1>2
<1>4. left'.failed = 0 => q.load # "failing" /\ ~BrokeOff(q)
  BY <1>1 DEF BrokeOff
<1>5. left'.failed <= 1 /\ s \in done => Silent(q)'
  BY <1>1, <1>2 DEF Silent
<1> QED
  BY <1>1, <1>3, <1>4, <1>5, WorkKeeps

LEMMA LoaderKeeps ==
    ASSUME AuditExact, NEW s \in Sessions, LoaderStep(s), ~LoaderFails(s), UNCHANGED auditVars
    PROVE  AuditExact'
<1>1. session[s].load \notin {"idle", "ended", "failing"}
  BY DEF LoaderStep, LoaderRefused, LoaderEnters, LoaderOpens, LoaderStops, LoaderReads,
         LoaderQueues, LoaderSends
<1>2. session[s] \in SessionType /\ ~session[s].closed /\ stop \in BOOLEAN
  BY <1>1, LoaderFacts
<1>3. /\ stop' \in BOOLEAN
      /\ UNCHANGED <<im, left, done, signals, published, cleared>>
  BY <1>2 DEF LoaderStep, LoaderRefused, LoaderEnters, LoaderOpens, LoaderStops, LoaderReads,
              LoaderQueues, LoaderSends
<1> DEFINE Good(q) == /\ q.file = session[s].file /\ q.at = session[s].at
                      /\ q.load \notin {"idle", "failing"} /\ (q.closed => q.load = "ended")
<1>4. \E q \in SessionType : Good(q) /\ session' = [session EXCEPT ![s] = q]
  <2>1. ASSUME NEW at \in {"open", "unzip", "header", "read", "enqueue", "send", "ended"}, Load(s, at)
        PROVE  \E q \in SessionType : Good(q) /\ session' = [session EXCEPT ![s] = q]
    <3>1. PICK q : q = [session[s] EXCEPT !.load = at]
      OBVIOUS
    <3>2. q \in SessionType /\ Good(q)
      BY <1>2, <3>1 DEF SessionType
    <3>3. session' = [session EXCEPT ![s] = q]
      BY <2>1, <3>1 DEF Load
    <3> QED
      BY <3>2, <3>3
  <2>2. ASSUME CloseQueue(s)
        PROVE  \E q \in SessionType : Good(q) /\ session' = [session EXCEPT ![s] = q]
    <3>1. PICK q : q = [session[s] EXCEPT !.load = "ended", !.closed = TRUE]
      OBVIOUS
    <3>2. q \in SessionType /\ Good(q)
      BY <1>2, <3>1 DEF SessionType
    <3>3. session' = [session EXCEPT ![s] = q]
      BY <2>2, <3>1 DEF CloseQueue
    <3> QED
      BY <3>2, <3>3
  <2>3. ASSUME NEW n \in Nat, session' = [session EXCEPT ![s].load = "enqueue", ![s].read = n]
        PROVE  \E q \in SessionType : Good(q) /\ session' = [session EXCEPT ![s] = q]
    <3>1. PICK q : q = [session[s] EXCEPT !.load = "enqueue", !.read = n]
      OBVIOUS
    <3>2. q \in SessionType /\ Good(q)
      BY <1>2, <3>1 DEF SessionType
    <3>3. session' = [session EXCEPT ![s] = q]
      BY <2>3, <3>1
    <3> QED
      BY <3>2, <3>3
  <2> HIDE DEF Good
  <2>4. CASE LoaderRefused(s) \/ LoaderEnters(s) \/ LoaderQueues(s)
    BY <2>1, <2>4 DEF LoaderRefused, LoaderEnters, LoaderQueues
  <2>5. CASE LoaderOpens(s)
    BY <2>1, <2>3, <2>5 DEF LoaderOpens
  <2>6. CASE LoaderStops(s)
    BY <2>2, <2>6 DEF LoaderStops
  <2>7. CASE LoaderReads(s)
    <3>0. session[s].read \in Nat
      BY <1>2 DEF SessionType
    <3>1. session[s].read + 1 \in Nat
      BY <3>0
    <3> QED
      BY <2>2, <2>3, <2>7, <3>1 DEF LoaderReads
  <2>8. CASE LoaderSends(s)
    <3>1. CASE CloseQueue(s)
      BY <2>2, <3>1
    <3>2. CASE session' = [session EXCEPT ![s].load = "read", ![s].queue = @ + 1]
      <4>0. session[s].queue \in Nat
        BY <1>2 DEF SessionType
      <4>a. PICK n \in Nat : n = session[s].queue + 1
        BY <4>0
      <4>1. PICK q : q = [session[s] EXCEPT !.load = "read", !.queue = n]
        OBVIOUS
      <4>2. q \in SessionType /\ Good(q)
        BY <1>2, <4>1 DEF SessionType, Good
      <4>3. session' = [session EXCEPT ![s] = q]
        BY <3>2, <4>a, <4>1
      <4> QED
        BY <4>2, <4>3
    <3> QED
      BY <2>8, <3>1, <3>2 DEF LoaderSends
  <2> QED
    BY <2>4, <2>5, <2>6, <2>7, <2>8 DEF LoaderStep
<1> QED
  BY <1>1, <1>3, <1>4, LoadKeeps

LEMMA LoaderBreaksKeeps ==
    ASSUME AuditExact, NEW s \in Sessions, LoaderBreaks(s), UNCHANGED auditVars
    PROVE  AuditExact'
<1>1. session[s].load \notin {"idle", "ended", "failing"}
  BY DEF LoaderBreaks
<1>2. /\ request[s] = "admitted" /\ session[s] \in SessionType /\ session[s].at # "idle"
      /\ ~session[s].closed
      /\ left.failed <= 1 /\ s \in done => Silent(session[s])
      /\ left.failed = 0 => ~BrokeOff(session[s])
      /\ left \in Lefts /\ im \in Statuses /\ stop \in BOOLEAN
  BY <1>1, LoaderFacts
<1>3. PICK q : q = [session[s] EXCEPT !.load = "failing"]
  OBVIOUS
<1>4. q \in SessionType /\ q.file = session[s].file /\ q.at = session[s].at /\ q.load = "failing" /\ ~q.closed
  BY <1>2, <1>3 DEF SessionType
<1>5. session' = [session EXCEPT ![s] = q]
  BY <1>2, <1>3 DEF LoaderBreaks, Load
<1>6. left' \in Lefts /\ left.failed \in Nat /\ left'.failed = left.failed + 1
  BY <1>2, FailFacts DEF LoaderBreaks
<1>7. left'.failed # 0 /\ left'.failed >= left.failed
  BY <1>6
<1>8. left'.failed <= 1 => left.failed = 0
  BY <1>6
<1>9. left'.failed <= 1 => ~BrokeOff(q)
  BY <1>2, <1>4, <1>8 DEF BrokeOff
<1>10. left'.failed <= 1 => s \notin done
  BY <1>2, <1>8 DEF Silent
<1>11. UNCHANGED <<im, done, stop, signals, published, cleared>>
  BY DEF LoaderBreaks
<1> QED
  BY <1>2, <1>4, <1>5, <1>6, <1>7, <1>9, <1>10, <1>11, WorkKeeps

LEMMA WriterFacts ==
    ASSUME AuditExact, NEW s \in Sessions, session[s].at # "idle"
    PROVE  /\ request[s] = "admitted" /\ session[s] \in SessionType
           /\ session[s].closed => session[s].load = "ended"
           /\ left.failed <= 1 /\ s \in done => Silent(session[s])
           /\ left.failed <= 1 => ~(session[s].load = "failing" /\ BrokeOff(session[s]))
           /\ left.failed = 0 => session[s].load # "failing" /\ ~BrokeOff(session[s])
           /\ left \in Lefts /\ im \in Statuses /\ stop \in BOOLEAN
<1>1. TypeOK /\ Followed /\ SpeaksOnce
  BY DEF AuditExact
<1>2. request[s] = "admitted"
  <2> SUFFICES ASSUME request[s] # "admitted" PROVE FALSE
    OBVIOUS
  <2>1. session[s] = NewSession
    BY <1>1 DEF Followed
  <2>2. NewSession.at = "idle"
    BY DEF NewSession
  <2> QED
    BY <2>1, <2>2
<1> QED
  BY <1>1, <1>2 DEF TypeOK, Followed, SpeaksOnce, Lefts, Statuses

\* A step of Start that does not publish.
LEMMA WriteKeeps ==
    ASSUME AuditExact, NEW s \in Sessions, NEW q \in SessionType,
           session[s].at \notin {"idle", "returned"}, session' = [session EXCEPT ![s] = q],
           q.file = session[s].file, q.load = session[s].load, q.closed = session[s].closed,
           q.at \notin {"idle", "returned"},
           left' = left \/ (left' \in Lefts /\ left'.failed = left.failed + 1),
           \/ left' # left \/ session[s].at \in {"leave", "commit"}
           \/ session[s].closed \/ q.at \in {"receive", "write"},
           im' \in Statuses, im'.status = im.status, im'.file = im.file, im'.current = im.current,
           UNCHANGED <<stop, done, signals, published, cleared, auditVars>>
    PROVE  AuditExact'
<1>1. /\ request[s] = "admitted" /\ session[s] \in SessionType
      /\ session[s].closed => session[s].load = "ended"
      /\ left.failed <= 1 /\ s \in done => Silent(session[s])
      /\ left.failed <= 1 => ~(session[s].load = "failing" /\ BrokeOff(session[s]))
      /\ left.failed = 0 => session[s].load # "failing" /\ ~BrokeOff(session[s])
      /\ left \in Lefts /\ stop \in BOOLEAN
  BY WriterFacts
<1>2. left' \in Lefts /\ left.failed \in Nat /\ left'.failed >= left.failed /\ left'.failed \in Nat
  BY <1>1 DEF Lefts
<1>3. CASE left' # left
  <2>1. left'.failed = left.failed + 1
    BY <1>3
  <2>2. left'.failed # 0 /\ (left'.failed <= 1 => left.failed = 0)
    BY <1>2, <2>1
  <2>3. left'.failed <= 1 => q.load # "failing"
    BY <1>1, <2>2
  <2>4. left'.failed <= 1 => s \notin done
    BY <1>1, <2>2 DEF Silent
  <2> QED
    BY <1>1, <1>2, <2>2, <2>3, <2>4, WorkKeeps
<1>4. CASE left' = left
  <2>1. BrokeOff(q) => BrokeOff(session[s])
    BY <1>4 DEF BrokeOff, Terminal
  <2>2. left'.failed <= 1 /\ s \in done => Silent(q)'
    BY <1>1, <1>2, <1>4 DEF Silent
  <2> QED
    BY <1>1, <1>2, <1>4, <2>1, <2>2, WorkKeeps
<1> QED
  BY <1>3, <1>4

LEMMA StartKeeps ==
    ASSUME AuditExact, NEW s \in Sessions, StartStep(s), ~StartPublishes(s), UNCHANGED auditVars
    PROVE  AuditExact'
<1>1. session[s].at \notin {"idle", "returned"}
  BY DEF StartStep, StartReceives, StartWrites, StartLeaves, StartCommits
<1>2. session[s] \in SessionType /\ left \in Lefts /\ im \in Statuses
  BY <1>1, WriterFacts
<1>3. PICK r \in SessionType : r = session[s]
  BY <1>2
<1>4. r.queue \in Nat /\ r.cur \in Nat /\ r.committed \in Nat
  BY <1>3 DEF SessionType
<1>5. /\ UNCHANGED <<stop, done, signals, published, cleared>>
      /\ left' = left \/ Fail
  BY DEF StartStep, StartReceives, StartWrites, StartLeaves, StartCommits
<1>6. left' = left \/ (left' \in Lefts /\ left'.failed = left.failed + 1)
  BY <1>2, <1>5, FailFacts
<1> DEFINE Good(q) ==
      /\ q.file = r.file /\ q.load = r.load /\ q.closed = r.closed
      /\ q.at \notin {"idle", "returned"}
      /\ \/ left' # left \/ r.at \in {"leave", "commit"}
         \/ r.closed \/ q.at \in {"receive", "write"}
<1>7. \E q \in SessionType : Good(q) /\ session' = [session EXCEPT ![s] = q]
  <2>1. CASE StartReceives(s)
    <3>1. PICK n \in Nat : n = r.queue - 1
      BY <1>3, <1>4, <2>1 DEF StartReceives
    <3>2. [r EXCEPT !.queue = n, !.cur = 0] \in SessionType /\ [r EXCEPT !.queue = n, !.at = "write"] \in SessionType
      BY <1>3, <3>1 DEF SessionType
    <3>3. Good([r EXCEPT !.queue = n, !.cur = 0]) /\ Good([r EXCEPT !.queue = n, !.at = "write"])
      BY <1>3, <2>1, <3>1 DEF SessionType, StartReceives
    <3> HIDE DEF Good
    <3> QED
      BY <1>3, <2>1, <3>1, <3>2, <3>3 DEF StartReceives, Runs
  <2>2. CASE StartWrites(s)
    <3>1. PICK m \in Nat, n \in Nat : m = r.cur + 1 /\ n = r.committed + CommitBatchSize
      BY <1>4, ImporterAssumption
    <3>2. /\ [r EXCEPT !.at = "receive", !.cur = 0, !.committed = n] \in SessionType
          /\ [r EXCEPT !.at = "receive", !.cur = m] \in SessionType
      BY <1>3, <3>1 DEF SessionType
    <3>3. /\ Good([r EXCEPT !.at = "receive", !.cur = 0, !.committed = n])
          /\ Good([r EXCEPT !.at = "receive", !.cur = m])
      BY <1>3, <3>1 DEF SessionType
    <3> HIDE DEF Good
    <3> QED
      BY <1>3, <2>2, <3>1, <3>2, <3>3 DEF StartWrites, Runs
  <2>3. CASE StartLeaves(s)
    <3>1. PICK a \in {"stopped", "finished", "commit"} : session' = [session EXCEPT ![s] = [r EXCEPT !.at = a]]
      BY <1>3, <2>3 DEF StartLeaves, Runs
    <3>2. [r EXCEPT !.at = a] \in SessionType
      BY <1>3 DEF SessionType, Terminal
    <3>3. Good([r EXCEPT !.at = a])
      BY <1>3, <2>3 DEF SessionType, StartLeaves
    <3> QED
      BY <3>1, <3>2, <3>3
  <2>4. CASE StartCommits(s)
    <3>1. PICK n \in Nat : n = r.committed + r.cur
      BY <1>4
    <3>2. /\ [r EXCEPT !.at = "finished", !.committed = n] \in SessionType
          /\ [r EXCEPT !.at = "failed"] \in SessionType
      BY <1>3, <3>1 DEF SessionType, Terminal
    <3>3. /\ Good([r EXCEPT !.at = "finished", !.committed = n])
          /\ Good([r EXCEPT !.at = "failed"])
      BY <1>3, <2>4 DEF SessionType, StartCommits
    <3> HIDE DEF Good
    <3> QED
      BY <1>3, <2>4, <3>1, <3>2, <3>3 DEF StartCommits, Runs
  <2> QED
    BY <2>1, <2>2, <2>3, <2>4 DEF StartStep
<1>8. /\ im' \in Statuses
      /\ im'.status = im.status /\ im'.file = im.file /\ im'.current = im.current
  <2>1. CASE UNCHANGED im
    BY <1>2, <2>1
  <2>2. ASSUME NEW n \in Nat, Count(n)
        PROVE  im' \in Statuses /\ im'.status = im.status /\ im'.file = im.file /\ im'.current = im.current
    <3>1. im.imported \in Nat
      BY <1>2 DEF Statuses
    <3>2. PICK m \in Nat : m = im.imported + n
      BY <3>1
    <3>3. im' = [im EXCEPT !.imported = m]
      BY <2>2, <3>2 DEF Count
    <3> QED
      BY <1>2, <3>3 DEF Statuses
  <2>3. UNCHANGED im \/ Count(CommitBatchSize) \/ Count(r.cur)
    BY <1>3 DEF StartStep, StartReceives, StartWrites, StartLeaves, StartCommits
  <2> QED
    BY <1>4, <2>1, <2>2, <2>3, ImporterAssumption
<1> HIDE DEF Good
<1>9. PICK q \in SessionType : Good(q) /\ session' = [session EXCEPT ![s] = q]
  BY <1>7
<1> QED
  BY <1>1, <1>3, <1>5, <1>6, <1>8, <1>9, WriteKeeps DEF Good

LEMMA StartStumblesKeeps ==
    ASSUME AuditExact, NEW s \in Sessions, StartStumbles(s), UNCHANGED auditVars
    PROVE  AuditExact'
<1>1. session[s].at = "write" /\ Fail /\ UNCHANGED <<im, stop, done, signals, published, cleared>>
  BY DEF StartStumbles
<1>2. session[s] \in SessionType /\ left \in Lefts /\ im \in Statuses
  BY <1>1, WriterFacts
<1>3. left' \in Lefts /\ left.failed \in Nat /\ left'.failed = left.failed + 1
  BY <1>1, <1>2, FailFacts
<1>4. left' # left
  <2>1. left'.failed # left.failed
    BY <1>3
  <2> QED
    BY <2>1
<1>5. PICK r \in SessionType : r = session[s]
  BY <1>2
<1> DEFINE Good(q) == /\ q.file = r.file /\ q.load = r.load /\ q.closed = r.closed
                      /\ q.at \notin {"idle", "returned"}
<1>6. \E q \in SessionType : Good(q) /\ session' = [session EXCEPT ![s] = q]
  <2>1. /\ [r EXCEPT !.at = "receive"] \in SessionType
        /\ [r EXCEPT !.at = "receive", !.cur = 0] \in SessionType
        /\ [r EXCEPT !.at = "leave", !.rolledBack = TRUE] \in SessionType
    BY <1>5 DEF SessionType
  <2>2. /\ Good([r EXCEPT !.at = "receive"])
        /\ Good([r EXCEPT !.at = "receive", !.cur = 0])
        /\ Good([r EXCEPT !.at = "leave", !.rolledBack = TRUE])
    BY <1>5 DEF SessionType
  <2> HIDE DEF Good
  <2> QED
    BY <1>5, <2>1, <2>2 DEF StartStumbles, Runs
<1> HIDE DEF Good
<1>7. PICK q \in SessionType : Good(q) /\ session' = [session EXCEPT ![s] = q]
  BY <1>6
<1> QED
  BY <1>1, <1>2, <1>3, <1>4, <1>5, <1>7, WriteKeeps DEF Good

-----------------------------------------------------------------------------
(* The end of a session. *)

\* One of its goroutines publishes how a session ended, which is current, or ended before.
LEMMA PublishKeeps ==
    ASSUME AuditExact, NEW s \in Sessions, NEW status \in Terminal, NEW q \in SessionType,
           session[s].at # "idle", session[s].load = "failing" \/ session[s].at \in Terminal,
           session' = [session EXCEPT ![s] = q], q.file = session[s].file, q.closed = session[s].closed,
           \/ session[s].load = "failing" /\ q.load = "ended" /\ q.at = session[s].at
           \/ session[s].at \in Terminal /\ q.load = session[s].load /\ q.at = "returned",
           SetStatus(status), published' = [published EXCEPT ![s] = @ \cup {status}],
           UNCHANGED <<stop, signals, cleared, left, auditVars>>
    PROVE  AuditExact'
<1>1. TypeOK /\ Followed /\ SpeaksOnce
  BY DEF AuditExact
<1>2. UNCHANGED <<stop, signals, cleared, left, request, held, pending, watcher, events, overtaken>>
  BY DEF auditVars
<1>3. /\ request[s] = "admitted" /\ session[s] \in SessionType
      /\ session[s].closed => session[s].load = "ended"
      /\ left.failed <= 1 /\ s \in done => Silent(session[s])
      /\ left.failed <= 1 => ~(session[s].load = "failing" /\ BrokeOff(session[s]))
      /\ left.failed = 0 => session[s].load # "failing" /\ ~BrokeOff(session[s])
      /\ left \in Lefts /\ im \in Statuses
  BY WriterFacts
<1>4. /\ session' \in [Sessions -> SessionType] /\ session'[s] = q
      /\ \A t \in Sessions : t # s => session'[t] = session[t]
  BY <1>1 DEF TypeOK
<1>5. /\ im' \in Statuses /\ im'.status = status /\ im'.file = im.file /\ im'.current = im.current
      /\ done' = done \cup {im.current}
  <2>1. status \notin Busy
    BY DEF Busy, Terminal
  <2>2. im' = [im EXCEPT !.status = status] /\ done' = done \cup {im.current}
    BY <2>1 DEF SetStatus
  <2> QED
    BY <1>3, <2>2 DEF Statuses
<1>6. /\ published' \in [Sessions -> SUBSET Terminal] /\ status \in published'[s]
      /\ \A t \in Sessions : published[t] \subseteq published'[t]
  BY <1>1 DEF TypeOK
<1>7. im.current \in Sessions \cup {0}
  BY <1>3 DEF Statuses
<1>8. TypeOK'
  BY <1>1, <1>2, <1>4, <1>5, <1>6, <1>7 DEF TypeOK, Statuses, Lefts
<1>9. Followed'
  <2>1. \A t \in Sessions : session'[t].file = session[t].file
    BY <1>4
  <2>2. \A t \in Sessions :
          /\ request[t] # "admitted" => session'[t] = NewSession
          /\ request[t] = "admitted" => session'[t].at # "idle"
    BY <1>1, <1>3, <1>4 DEF Followed
  <2>3. im'.status \in Terminal /\ im'.current \in done'
    BY <1>5
  <2>4. \A t \in Sessions : request[t] # "admitted" => t \notin done'
    BY <1>1, <1>5 DEF Followed
  <2> QED
    BY <1>1, <1>2, <1>5, <1>7, <2>1, <2>2, <2>3, <2>4 DEF Followed
<1>10. left.failed <= 1 => s \notin done
  BY <1>3 DEF Silent, Terminal
<1>11. left.failed <= 1 => im.current = s
  BY <1>1, <1>3, <1>10 DEF Followed
<1>12. ASSUME left.failed <= 1
       PROVE  Silent(q)
  <2>1. left.failed \in Nat
    BY <1>3 DEF Lefts
  <2>2. CASE session[s].load = "failing" /\ q.load = "ended" /\ q.at = session[s].at
    <3>1. ~session[s].closed /\ ~BrokeOff(session[s]) /\ left.failed > 0
      BY <1>3, <1>12, <2>1, <2>2
    <3>2. session[s].at \in {"receive", "write"}
      BY <1>3, <3>1 DEF BrokeOff, SessionType
    <3> QED
      BY <2>2, <3>1, <3>2 DEF Silent
  <2>3. CASE session[s].at \in Terminal /\ q.load = session[s].load /\ q.at = "returned"
    <3>1. CASE session[s].closed
      BY <1>3, <2>3, <3>1 DEF Silent
    <3>2. CASE ~session[s].closed
      <4>1. BrokeOff(session[s])
        BY <2>3, <3>2 DEF BrokeOff
      <4>2. left.failed > 0 /\ session[s].load # "failing"
        BY <1>3, <1>12, <2>1, <4>1
      <4> QED
        BY <2>3, <4>2 DEF Silent
    <3> QED
      BY <1>3, <3>1, <3>2 DEF SessionType
  <2> QED
    BY <2>2, <2>3
<1>13. SpeaksOnce'
  <2>1. \A t \in Sessions : session'[t].closed => session'[t].load = "ended"
    BY <1>1, <1>3, <1>4 DEF SpeaksOnce
  <2>2. BrokeOff(q) => BrokeOff(session[s])
    BY DEF BrokeOff
  <2>3. left.failed = 0 => \A t \in Sessions : session'[t].load # "failing" /\ ~BrokeOff(session'[t])
    BY <1>1, <1>3, <1>4, <2>2 DEF SpeaksOnce
  <2>4. ASSUME left.failed <= 1, NEW t \in Sessions
        PROVE  ~(session'[t].load = "failing" /\ BrokeOff(session'[t]))
    BY <1>1, <1>3, <1>4, <2>2, <2>4 DEF SpeaksOnce
  <2>5. ASSUME left.failed <= 1, NEW t \in Sessions, t \in done'
        PROVE  Silent(session[t])'
    <3>1. CASE t = s
      BY <1>2, <1>4, <1>12, <2>5, <3>1 DEF Silent
    <3>2. CASE t # s
      <4>1. t \in done
        BY <1>5, <1>11, <2>5, <3>2
      <4>2. Silent(session[t])
        BY <1>1, <2>5, <4>1 DEF SpeaksOnce
      <4> QED
        BY <1>2, <1>4, <3>2, <4>2 DEF Silent
    <3> QED
      BY <3>1, <3>2
  <2>6. left.failed <= 1 => im'.current = s /\ s \notin cleared' /\ im'.status \in published'[im'.current]
    BY <1>1, <1>2, <1>5, <1>6, <1>10, <1>11 DEF TypeOK
  <2> QED
    BY <1>2, <2>1, <2>3, <2>4, <2>5, <2>6 DEF SpeaksOnce, BrokeOff
<1>14. \A t \in Sessions :
        /\ Len(events'[t]) <= 1
        /\ events'[t] # <<>> => Ended(t)'
        /\ events'[t] # <<>> /\ left'.failed <= 1 => events'[t][1] \in published'[t]
        /\ Ended(t)' /\ events'[t] = <<>> =>
              (pending' = t /\ watcher'[t]) \/ t \in cleared' \cup overtaken'
  <2>1. \A t \in Sessions : t \in done' /\ t \notin done => t = im.current
    BY <1>5
  <2>2. \A t \in Sessions : request[t] = "admitted" /\ t \notin done => pending = t /\ watcher[t]
    BY <1>1 DEF Followed
  <2> QED
    BY <1>2, <1>5, <1>6, <2>2 DEF AuditExact, Ended
<1> QED
  BY <1>8, <1>9, <1>13, <1>14 DEF AuditExact

LEMMA GoroutinesPublish ==
    ASSUME AuditExact, NEW s \in Sessions, LoaderFails(s) \/ StartPublishes(s), UNCHANGED auditVars
    PROVE  AuditExact'
<1>1. CASE LoaderFails(s)
  <2>1. session[s].load = "failing"
    BY <1>1 DEF LoaderFails
  <2>2. session[s] \in SessionType /\ session[s].at # "idle"
    BY <2>1, LoaderFacts
  <2>3. PICK q : q = [session[s] EXCEPT !.load = "ended"]
    OBVIOUS
  <2>4. /\ q \in SessionType /\ q.file = session[s].file /\ q.closed = session[s].closed
        /\ q.load = "ended" /\ q.at = session[s].at
    BY <2>2, <2>3 DEF SessionType
  <2>5. session' = [session EXCEPT ![s] = q]
    BY <1>1, <2>3 DEF LoaderFails, Load
  <2>6. /\ SetStatus("failed") /\ published' = [published EXCEPT ![s] = @ \cup {"failed"}]
        /\ UNCHANGED <<stop, signals, cleared, left>>
    BY <1>1 DEF LoaderFails
  <2>7. "failed" \in Terminal
    BY DEF Terminal
  <2> QED
    BY <2>1, <2>2, <2>4, <2>5, <2>6, <2>7, PublishKeeps
<1>2. CASE StartPublishes(s)
  <2>1. PICK a \in Terminal : a = session[s].at
    BY <1>2 DEF StartPublishes
  <2>2. a # "idle"
    BY <2>1 DEF Terminal
  <2>3. session[s] \in SessionType
    BY <2>1, <2>2, WriterFacts
  <2>4. PICK q : q = [session[s] EXCEPT !.at = "returned"]
    OBVIOUS
  <2>5. /\ q \in SessionType /\ q.file = session[s].file /\ q.closed = session[s].closed
        /\ q.load = session[s].load /\ q.at = "returned"
    BY <2>3, <2>4 DEF SessionType
  <2>6. session' = [session EXCEPT ![s] = q]
    BY <1>2, <2>4 DEF StartPublishes, Runs
  <2>7. /\ SetStatus(a) /\ published' = [published EXCEPT ![s] = @ \cup {a}]
        /\ UNCHANGED <<stop, signals, cleared, left>>
    BY <1>2, <2>1 DEF StartPublishes
  <2> QED
    BY <2>1, <2>2, <2>5, <2>6, <2>7, PublishKeeps
<1> QED
  BY <1>1, <1>2

-----------------------------------------------------------------------------
(* Requests and the tracker. *)

\* What is recorded of each session.
Recorded ==
    \A s \in Sessions :
        /\ Len(events[s]) <= 1
        /\ events[s] # <<>> => Ended(s)
        /\ events[s] # <<>> /\ left.failed <= 1 => events[s][1] \in published[s]
        /\ Ended(s) /\ events[s] = <<>> =>
              (pending = s /\ watcher[s]) \/ s \in cleared \cup overtaken

LEMMA Parts == AuditExact <=> TypeOK /\ Followed /\ SpeaksOnce /\ Recorded
BY DEF AuditExact, Recorded

LEMMA StopKeeps == ASSUME AuditExact, StopImport, UNCHANGED auditVars PROVE AuditExact'
<1>1. TypeOK /\ Followed /\ SpeaksOnce /\ Recorded
  BY Parts
<1>2. UNCHANGED <<stop, session, published, request, held, pending, watcher, events, overtaken>>
  BY DEF StopImport, auditVars
<1>3. /\ left' \in Lefts /\ left'.failed = left.failed
      /\ im \in Statuses /\ im.current \in Sessions \cup {0} /\ signals \in Nat
  <2>1. left \in Lefts /\ left.stops > 0 /\ left' = [left EXCEPT !.stops = @ - 1]
    BY <1>1 DEF StopImport, TypeOK, Lefts
  <2>2. PICK n \in Nat : n = left.stops - 1
    BY <2>1 DEF Lefts
  <2>3. left' = [left EXCEPT !.stops = n]
    BY <2>1, <2>2
  <2> QED
    BY <1>1, <2>1, <2>3 DEF Lefts, TypeOK, Statuses
<1>4. CASE im.status = "importing" /\ im' = [im EXCEPT !.status = "stopping"]
           /\ signals' = signals + 1 /\ UNCHANGED <<done, cleared>>
  <2>1. /\ im' \in Statuses /\ im'.status = "stopping" /\ im'.file = im.file /\ im'.current = im.current
        /\ signals' \in Nat
    <3>1. signals' \in Nat
      BY <1>3, <1>4
    <3> QED
      BY <1>3, <1>4, <3>1 DEF Statuses, Busy
  <2>2. im.status \notin Terminal
    BY <1>4 DEF Terminal
  <2>3. im.current # 0 /\ im.current \in done => im.current \in cleared
    BY <1>1, <2>2 DEF Followed
  <2>4. TypeOK'
    BY <1>1, <1>2, <1>3, <1>4, <2>1 DEF TypeOK, Statuses, Lefts
  <2>5. Followed'
    <3>1. im'.status \in Busy
      BY <2>1 DEF Busy
    <3> QED
      BY <1>1, <1>2, <1>3, <1>4, <2>1, <2>3, <3>1 DEF Followed, IsDone
  <2>6. SpeaksOnce'
    <3>1. im'.status \notin Terminal
      BY <2>1 DEF Terminal
    <3> QED
      BY <1>1, <1>2, <1>3, <1>4, <2>1, <2>3, <3>1 DEF SpeaksOnce, BrokeOff, Silent
  <2>7. Recorded'
    BY <1>1, <1>2, <1>3, <1>4 DEF Recorded, Ended
  <2> QED
    BY <2>4, <2>5, <2>6, <2>7, Parts DEF AuditExact, Recorded
<1>5. CASE im.status \notin Busy /\ im' = [im EXCEPT !.status = "none", !.file = "", !.imported = 0]
           /\ done' = done \cup {im.current} /\ cleared' = cleared \cup {im.current} /\ UNCHANGED signals
  <2>1. im' \in Statuses /\ im'.status = "none" /\ im'.current = im.current
    BY <1>3, <1>5 DEF Statuses
  <2>2. im.current \in done /\ done' = done /\ im'.current \in cleared'
    BY <1>1, <1>5, <2>1 DEF Followed, IsDone
  <2>3. TypeOK'
    BY <1>1, <1>2, <1>3, <1>5, <2>1, <2>2 DEF TypeOK, Statuses, Lefts
  <2>4. Followed'
    BY <1>1, <1>2, <1>3, <1>5, <2>1, <2>2 DEF Followed
  <2>5. SpeaksOnce'
    <3>1. im'.status \notin Terminal
      BY <2>1 DEF Terminal
    <3> QED
      BY <1>1, <1>2, <1>3, <1>5, <2>1, <2>2, <3>1 DEF SpeaksOnce, BrokeOff, Silent
  <2>6. Recorded'
    BY <1>1, <1>2, <1>3, <1>5, <2>2 DEF Recorded, Ended
  <2> QED
    BY <2>3, <2>4, <2>5, <2>6, Parts DEF AuditExact, Recorded
<1> QED
  BY <1>4, <1>5 DEF StopImport

LEMMA SignalKeeps == ASSUME AuditExact, SendSignal, UNCHANGED auditVars PROVE AuditExact'
<1>1. TypeOK /\ Followed /\ SpeaksOnce /\ Recorded
  BY Parts
<1>2. /\ UNCHANGED <<im, done, session, published, cleared, left>>
      /\ UNCHANGED <<request, held, pending, watcher, events, overtaken>>
      /\ stop' \in BOOLEAN /\ signals > 0 /\ signals' = signals - 1
  BY DEF SendSignal, auditVars
<1>3. signals' \in Nat
  <2>1. signals \in Nat
    BY <1>1 DEF TypeOK
  <2> QED
    BY <1>2, <2>1
<1>4. TypeOK' /\ Followed'
  BY <1>1, <1>2, <1>3 DEF TypeOK, Followed, IsDone
<1>5. SpeaksOnce' /\ Recorded'
  BY <1>1, <1>2 DEF SpeaksOnce, BrokeOff, Silent, Recorded, Ended
<1> QED
  BY <1>4, <1>5 DEF AuditExact, Recorded

\* The importer and the sessions as they were.
LEMMA SpeaksStays ==
    ASSUME SpeaksOnce, UNCHANGED importerVars
    PROVE  SpeaksOnce'
BY DEF SpeaksOnce, BrokeOff, Silent, importerVars

LEMMA RequestKeeps ==
    ASSUME AuditExact, NEW s \in Sessions, ImportCustomers(s) \/ AdmissionRefused(s)
    PROVE  AuditExact'
<1>1. TypeOK /\ Followed /\ SpeaksOnce /\ Recorded
  BY Parts
<1>2. /\ UNCHANGED importerVars
      /\ UNCHANGED <<im, done, stop, signals, session, published, cleared, left>>
      /\ UNCHANGED <<pending, watcher, events, overtaken>>
  BY DEF ImportCustomers, AdmissionRefused, importerVars
<1>3. s # 0
  BY ImporterAssumption
<1> DEFINE Kept == /\ request' \in [Sessions -> {"new", "checked", "refused", "admitted"}]
                   /\ \A t \in Sessions : request'[t] = "admitted" <=> request[t] = "admitted"
                   /\ held' \in [by : Sessions \cup {0}, running : BOOLEAN]
                   /\ held'.by # 0 => held' = held /\ request'[held.by] = "checked"
<1>4. ASSUME ImportCustomers(s) PROVE Kept
  <2>1. request[s] = "new" /\ request' = [request EXCEPT ![s] = "checked"] /\ held' = held
    BY <1>4 DEF ImportCustomers
  <2>2. held.by # 0 => request'[held.by] = "checked"
    BY <1>1, <2>1 DEF TypeOK, Followed
  <2> QED
    BY <1>1, <2>1, <2>2 DEF TypeOK
<1>5. ASSUME AdmissionRefused(s) PROVE Kept
  <2>1. held.by = s /\ request' = [request EXCEPT ![s] = "refused"] /\ held' = Free
    BY <1>5 DEF AdmissionRefused
  <2>2. request[s] = "checked"
    BY <1>1, <1>3, <2>1 DEF Followed
  <2>3. held'.by = 0 /\ held' \in [by : Sessions \cup {0}, running : BOOLEAN]
    BY <2>1 DEF Free
  <2> QED
    BY <1>1, <2>1, <2>2, <2>3 DEF TypeOK
<1>6. Kept
  BY <1>4, <1>5
<1>7. TypeOK'
  BY <1>1, <1>2, <1>6 DEF TypeOK
<1>8. Followed'
  BY <1>1, <1>2, <1>6 DEF Followed, IsDone
<1>9. SpeaksOnce' /\ Recorded'
  BY <1>1, <1>2, <1>6, SpeaksStays DEF Recorded, Ended
<1> QED
  BY <1>7, <1>8, <1>9 DEF AuditExact, Recorded

\* A tracker whose session ended: the status still tells how, unless a request cleared it.
LEMMA PendingFacts ==
    ASSUME AuditExact, pending # 0
    PROVE  /\ pending \in Sessions /\ pending = im.current /\ request[pending] = "admitted"
           /\ events[pending] = <<>>
           /\ pending \in done => pending \in cleared \/ Claimable(pending)
           /\ Claimable(pending) =>
                 /\ pending \in done /\ im.status \in Terminal
                 /\ left.failed <= 1 => im.status \in published[pending]
<1>1. TypeOK /\ Followed /\ SpeaksOnce
  BY DEF AuditExact
<1>2. pending \in Sessions /\ pending = im.current /\ events[pending] = <<>>
  BY <1>1 DEF TypeOK, Followed
<1>3. request[pending] = "admitted"
  BY <1>1, <1>2 DEF Followed
<1>4. pending \in done => pending \in cleared \/ Claimable(pending)
  BY <1>1, <1>2 DEF Followed, Claimable
<1>5. ASSUME Claimable(pending)
      PROVE  /\ pending \in done /\ im.status \in Terminal
             /\ left.failed <= 1 => im.status \in published[pending]
  <2>1. im.status \in Terminal /\ IsDone
    BY <1>5 DEF Claimable, Terminal, Busy, IsDone
  <2>2. pending \in done
    BY <1>1, <1>2, <2>1 DEF Followed
  <2> QED
    BY <1>1, <1>2, <2>1, <2>2 DEF SpeaksOnce
<1> QED
  BY <1>2, <1>3, <1>4, <1>5

\* A step of the audit that records the session of the tracker, or nothing.
LEMMA ClaimKeeps ==
    ASSUME AuditExact, UNCHANGED <<importerVars, request, overtaken>>,
           held' \in [by : Sessions \cup {0}, running : BOOLEAN],
           held'.by # 0 => /\ request[held'.by] = "checked"
                           /\ pending' # 0 /\ ~held'.running => pending' \in cleared,
           watcher' \in [Sessions -> BOOLEAN],
           \A t \in Sessions \ done : request[t] = "admitted" => watcher'[t],
           \/ Claimable(pending) /\ pending' = 0 /\ Record(pending)
           \/ /\ UNCHANGED <<pending, events>>
              /\ \A t \in Sessions : Ended(t) /\ events[t] = <<>> =>
                    (pending = t /\ watcher'[t]) \/ t \in cleared \cup overtaken
    PROVE  AuditExact'
<1>1. TypeOK /\ Followed /\ SpeaksOnce /\ Recorded
  BY Parts
<1>2. UNCHANGED <<im, done, stop, signals, session, published, cleared, left, request, overtaken>>
  BY DEF importerVars
<1>3. SpeaksOnce'
  BY <1>1, SpeaksStays
<1>4. CASE Claimable(pending) /\ pending' = 0 /\ Record(pending)
  <2>1. pending # 0
    BY <1>4 DEF Claimable
  <2>2. /\ pending \in Sessions /\ pending = im.current /\ request[pending] = "admitted"
        /\ events[pending] = <<>> /\ pending \in done /\ im.status \in Terminal
        /\ left.failed <= 1 => im.status \in published[pending]
    BY <1>4, <2>1, PendingFacts
  <2>3. PICK c \in Terminal : c = im.status
    BY <2>2
  <2>4. /\ <<c>> \in Seq(Terminal) /\ Len(<<c>>) = 1 /\ <<c>> # <<>> /\ <<c>>[1] = c
        /\ Append(<<>>, c) = <<c>>
    BY <2>3
  <2>5. /\ events' \in [Sessions -> Seq(Terminal)] /\ events'[pending] = <<c>>
        /\ \A t \in Sessions : t # pending => events'[t] = events[t]
    <3>1. events' = [events EXCEPT ![pending] = Append(events[pending], im.status)]
      BY <1>4 DEF Record
    <3>2. Append(events[pending], im.status) = <<c>>
      BY <2>2, <2>3, <2>4
    <3>3. events' = [events EXCEPT ![pending] = <<c>>]
      BY <3>1, <3>2
    <3> QED
      BY <1>1, <2>2, <2>4, <3>3 DEF TypeOK
  <2>6. TypeOK'
    BY <1>1, <1>2, <1>4, <2>5 DEF TypeOK
  <2>7. Followed'
    <3>1. \A t \in Sessions \ done : request[t] # "admitted"
      BY <1>1, <2>2 DEF Followed
    <3> QED
      BY <1>1, <1>2, <1>4, <2>2, <2>5, <3>1 DEF Followed, IsDone
  <2>8. Recorded'
    <3>1. PICK p \in Sessions : p = pending
      BY <2>2
    <3>2. Len(events'[p]) <= 1 /\ events'[p] # <<>> /\ events'[p][1] = c
      <4>1. events'[p] = <<c>>
        BY <2>5, <3>1
      <4>2. Len(<<c>>) <= 1 /\ <<c>> # <<>> /\ <<c>>[1] = c
        OBVIOUS
      <4> QED
        BY ONLY <4>1, <4>2
    <3>3. left'.failed <= 1 => c \in published'[p]
      BY <1>2, <2>2, <2>3, <3>1
    <3>4. \A t \in Sessions : Ended(t) <=> Ended(t)'
      BY <1>2 DEF Ended
    <3>5. Ended(p)
      BY <2>2, <3>1 DEF Ended
    <3>6. ASSUME NEW t \in Sessions, t # p
          PROVE  /\ Len(events'[t]) <= 1
                 /\ events'[t] # <<>> => Ended(t)'
                 /\ events'[t] # <<>> /\ left'.failed <= 1 => events'[t][1] \in published'[t]
                 /\ Ended(t)' /\ events'[t] = <<>> => t \in cleared' \cup overtaken'
      BY <1>1, <1>2, <2>5, <3>1, <3>4, <3>6 DEF Recorded
    <3> QED
      BY <3>2, <3>3, <3>4, <3>5, <3>6 DEF Recorded
  <2> QED
    BY <1>3, <2>6, <2>7, <2>8 DEF AuditExact, Recorded
<1>5. CASE /\ UNCHANGED <<pending, events>>
           /\ \A t \in Sessions : Ended(t) /\ events[t] = <<>> =>
                 (pending = t /\ watcher'[t]) \/ t \in cleared \cup overtaken
  <2>1. TypeOK'
    BY <1>1, <1>2, <1>5 DEF TypeOK
  <2>2. Followed'
    BY <1>1, <1>2, <1>5 DEF Followed, IsDone
  <2>3. Recorded'
    BY <1>1, <1>2, <1>5 DEF Recorded, Ended
  <2> QED
    BY <1>3, <2>1, <2>2, <2>3 DEF AuditExact, Recorded
<1> QED
  BY <1>4, <1>5

LEMMA AdmissionClaimsKeeps ==
    ASSUME AuditExact, NEW s \in Sessions, AdmissionClaims(s)
    PROVE  AuditExact'
<1>1. TypeOK /\ Followed /\ Recorded
  BY Parts
<1>2. /\ request[s] = "checked" /\ held' = [by |-> s, running |-> pending \notin done]
      /\ UNCHANGED <<importerVars, request, watcher, overtaken>>
      /\ \/ Claimable(pending) /\ pending' = 0 /\ Record(pending)
         \/ ~Claimable(pending) /\ UNCHANGED <<pending, events>>
  BY DEF AdmissionClaims
<1>3. held' \in [by : Sessions \cup {0}, running : BOOLEAN] /\ held'.by = s
      /\ held'.running = (pending \notin done)
  BY <1>2
<1>4. pending' # 0 /\ ~held'.running => pending' \in cleared
  BY <1>2, <1>3, PendingFacts
<1>5. watcher' = watcher /\ watcher \in [Sessions -> BOOLEAN]
  BY <1>1, <1>2 DEF TypeOK
<1>6. \A t \in Sessions \ done : request[t] = "admitted" => watcher'[t]
  BY <1>1, <1>5 DEF Followed
<1>7. \A t \in Sessions : Ended(t) /\ events[t] = <<>> =>
         (pending = t /\ watcher'[t]) \/ t \in cleared \cup overtaken
  BY <1>1, <1>5 DEF Recorded
<1> QED
  BY <1>2, <1>3, <1>4, <1>5, <1>6, <1>7, ClaimKeeps

LEMMA WatchKeeps ==
    ASSUME AuditExact, NEW s \in Sessions, WatchImportAuditSession(s)
    PROVE  AuditExact'
<1>1. TypeOK /\ Followed /\ Recorded
  BY Parts
<1>2. /\ s \in done /\ held = Free /\ watcher' = [watcher EXCEPT ![s] = FALSE]
      /\ UNCHANGED <<importerVars, request, held, overtaken>>
      /\ \/ pending = s /\ Claimable(s) /\ pending' = 0 /\ Record(s)
         \/ ~(pending = s /\ Claimable(s)) /\ UNCHANGED <<pending, events>>
  BY DEF WatchImportAuditSession
<1>3. held' \in [by : Sessions \cup {0}, running : BOOLEAN] /\ held'.by = 0
  BY <1>1, <1>2 DEF TypeOK, Free
<1>4. watcher' \in [Sessions -> BOOLEAN] /\ \A t \in Sessions : t # s => watcher'[t] = watcher[t]
  BY <1>1, <1>2 DEF TypeOK
<1>5. \A t \in Sessions \ done : request[t] = "admitted" => watcher'[t]
  BY <1>1, <1>2, <1>4 DEF Followed
<1>6. ASSUME ~(pending = s /\ Claimable(s)),
             NEW t \in Sessions, Ended(t), events[t] = <<>>
      PROVE  (pending = t /\ watcher'[t]) \/ t \in cleared \cup overtaken
  <2>1. CASE pending = s /\ t = s
    BY <1>2, <1>6, <2>1, PendingFacts, ImporterAssumption
  <2>2. CASE pending # s /\ t = s
    BY <1>1, <1>6, <2>2 DEF Recorded
  <2>3. CASE t # s
    BY <1>1, <1>4, <1>6, <2>3 DEF Recorded
  <2> QED
    BY <2>1, <2>2, <2>3
<1> QED
  BY <1>2, <1>3, <1>4, <1>5, <1>6, ClaimKeeps

\* The next upload is admitted when every session before it has ended.
LEMMA AdmitKeeps ==
    ASSUME AuditExact, NEW s \in Sessions, AdmitImportSession(s)
    PROVE  AuditExact'
<1>1. TypeOK /\ Followed /\ SpeaksOnce /\ Recorded
  BY Parts
<1>2. PICK file \in Files, load \in {"extract", "open"} : Publish(s, file, load)
  BY DEF AdmitImportSession
<1>3. PICK q : q = [NewSession EXCEPT !.file = file, !.at = "receive", !.load = load]
  OBVIOUS
<1>4. /\ q \in SessionType /\ q.file = file /\ q.at = "receive" /\ ~q.closed
      /\ q.load = load /\ load \notin {"failing", "ended", "idle"}
  BY <1>2, <1>3 DEF NewSession, SessionType
<1>5. /\ held.by = s /\ IsDone /\ s # 0
      /\ im' = [status |-> "importing", file |-> file, imported |-> 0, current |-> s]
      /\ stop' = FALSE /\ session' = [session EXCEPT ![s] = q]
      /\ request' = [request EXCEPT ![s] = "admitted"]
      /\ watcher' = [watcher EXCEPT ![s] = TRUE]
      /\ overtaken' = IF held.running /\ pending # 0 THEN overtaken \cup {pending} ELSE overtaken
      /\ pending' = s /\ held' = Free
      /\ UNCHANGED <<done, signals, published, cleared, left, events>>
  BY <1>2, <1>3, ImporterAssumption DEF AdmitImportSession, Publish
<1>6. /\ request[s] = "checked" /\ s \notin done /\ events[s] = <<>>
      /\ pending # 0 /\ ~held.running => pending \in cleared
  BY <1>1, <1>5 DEF Followed
<1>7. \A t \in Sessions : request[t] = "admitted" => t \in done
  BY <1>1, <1>5 DEF Followed
<1>8. /\ session'[s] = q /\ request'[s] = "admitted" /\ watcher'[s] = TRUE
      /\ \A t \in Sessions : t # s =>
            session'[t] = session[t] /\ request'[t] = request[t] /\ watcher'[t] = watcher[t]
  BY <1>1, <1>5 DEF TypeOK
<1>9. im'.status = "importing" /\ im'.file = file /\ im'.current = s /\ held'.by = 0
  BY <1>5 DEF Free
<1>10. TypeOK'
  <2>1. im' \in Statuses
    BY <1>2, <1>5 DEF Statuses, Busy
  <2>2. held' \in [by : Sessions \cup {0}, running : BOOLEAN]
    BY <1>5 DEF Free
  <2>3. overtaken' \subseteq Sessions
    BY <1>1, <1>5 DEF TypeOK
  <2>4. session' \in [Sessions -> SessionType]
    BY <1>1, <1>4, <1>5 DEF TypeOK
  <2> QED
    BY <1>1, <1>5, <2>1, <2>2, <2>3, <2>4 DEF TypeOK, Statuses
<1>11. Followed'
  <2>1. s \notin cleared /\ ~IsDone'
    BY <1>1, <1>6, <1>9 DEF TypeOK, IsDone, Busy
  <2>2. ASSUME NEW t \in Sessions, request'[t] # "admitted"
        PROVE  /\ t \notin done' /\ im'.current # t /\ pending' # t
               /\ events'[t] = <<>> /\ session'[t] = NewSession
    BY <1>1, <1>5, <1>8, <1>9, <2>2 DEF Followed
  <2>3. ASSUME NEW t \in Sessions, request'[t] = "admitted"
        PROVE  /\ session'[t].at # "idle"
               /\ t \notin done' => pending' = t /\ watcher'[t] /\ im'.current = t
    BY <1>1, <1>4, <1>5, <1>7, <1>8, <1>9, <2>3 DEF Followed
  <2> QED
    BY <1>1, <1>4, <1>5, <1>6, <1>8, <1>9, <2>1, <2>2, <2>3 DEF Followed
<1>12. SpeaksOnce'
  <2>1. ~BrokeOff(q) /\ q.load # "failing"
    BY <1>4 DEF BrokeOff, Terminal
  <2>2. \A t \in Sessions : t # s => BrokeOff(session'[t]) = BrokeOff(session[t])
    BY <1>8
  <2>3. ASSUME left'.failed <= 1, NEW t \in Sessions, t \in done'
        PROVE  Silent(session[t])'
    <3>1. Silent(session[t]) /\ t # s
      BY <1>1, <1>5, <1>6, <2>3 DEF SpeaksOnce
    <3> QED
      BY <1>5, <1>8, <3>1 DEF Silent
  <2>4. \A t \in Sessions : session'[t].closed => session'[t].load = "ended"
    BY <1>1, <1>4, <1>8 DEF SpeaksOnce
  <2>5. left'.failed = 0 =>
          \A t \in Sessions : session'[t].load # "failing" /\ ~BrokeOff(session'[t])
    BY <1>1, <1>5, <1>8, <2>1, <2>2 DEF SpeaksOnce
  <2>6. left'.failed <= 1 =>
          \A t \in Sessions : ~(session'[t].load = "failing" /\ BrokeOff(session'[t]))
    BY <1>1, <1>5, <1>8, <2>1, <2>2 DEF SpeaksOnce
  <2> QED
    BY <1>5, <1>6, <1>9, <2>3, <2>4, <2>5, <2>6 DEF SpeaksOnce, BrokeOff
<1>13. Recorded'
  <2>1. \A t \in Sessions : Ended(t)' <=> Ended(t)
    BY <1>5, <1>6, <1>8 DEF Ended
  <2>2. ~Ended(s)
    BY <1>6 DEF Ended
  <2>3. ASSUME NEW t \in Sessions, Ended(t), events[t] = <<>>
        PROVE  t \in cleared' \cup overtaken'
    <3>1. CASE pending = t
      BY <1>5, <1>6, <3>1, ImporterAssumption
    <3>2. CASE pending # t
      BY <1>1, <1>5, <2>3, <3>2 DEF Recorded
    <3> QED
      BY <3>1, <3>2
  <2> QED
    BY <1>1, <1>5, <2>1, <2>3 DEF Recorded
<1> QED
  BY <1>10, <1>11, <1>12, <1>13 DEF AuditExact, Recorded

-----------------------------------------------------------------------------
(* The theorem. *)

LEMMA InitHolds == ASSUME Init PROVE AuditExact
<1>1. /\ im = [status |-> "none", file |-> "", imported |-> 0, current |-> 0]
      /\ done = {0} /\ stop = FALSE /\ signals = 0
      /\ session = [s \in Sessions |-> NewSession]
      /\ published = [s \in Sessions |-> {}] /\ cleared = {}
  BY DEF Init, ImporterInit
<1>2. /\ request = [s \in Sessions |-> "new"] /\ held = Free /\ pending = 0
      /\ watcher = [s \in Sessions |-> FALSE]
      /\ events = [s \in Sessions |-> <<>>] /\ overtaken = {}
  BY DEF Init
<1>3. left \in Lefts
  <2>1. PICK b \in Bounds : left = [faults |-> b.faults, stops |-> b.stops, failed |-> 0]
    BY DEF Init, ImporterInit
  <2>2. b.faults \in Nat /\ b.stops \in Nat
    BY ImporterAssumption
  <2> QED
    BY <2>1, <2>2 DEF Lefts
<1>4. NewSession \in SessionType /\ ~NewSession.closed /\ NewSession.load = "idle"
      /\ NewSession.at = "idle" /\ ~BrokeOff(NewSession)
  BY DEF NewSession, SessionType, BrokeOff, Terminal
<1>5. im \in Statuses /\ im.current = 0 /\ im.status = "none"
  BY <1>1 DEF Statuses
<1>6. held \in [by : Sessions \cup {0}, running : BOOLEAN] /\ held.by = 0
  BY <1>2 DEF Free
<1>7. TypeOK
  <2>1. <<>> \in Seq(Terminal)
    OBVIOUS
  <2> QED
    BY <1>1, <1>2, <1>3, <1>4, <1>5, <1>6, <2>1 DEF TypeOK, Statuses, Lefts
<1>8. Followed
  BY <1>1, <1>2, <1>5, <1>6, ImporterAssumption DEF Followed, IsDone
<1>9. SpeaksOnce
  BY <1>1, <1>4, <1>5, ImporterAssumption DEF SpeaksOnce
<1>10. Recorded
  <2>1. \A s \in Sessions : events[s] = <<>> /\ request[s] = "new"
    BY <1>2
  <2>2. Len(<<>>) = 0
    OBVIOUS
  <2>3. \A s \in Sessions : ~Ended(s)
    BY <2>1 DEF Ended
  <2> QED
    BY <2>1, <2>2, <2>3 DEF Recorded
<1> QED
  BY <1>7, <1>8, <1>9, <1>10, Parts

LEMMA NextKeeps == ASSUME AuditExact, [Next]_vars PROVE AuditExact'
<1>1. CASE StopImport /\ UNCHANGED auditVars
  BY <1>1, StopKeeps
<1>2. CASE SendSignal /\ UNCHANGED auditVars
  BY <1>2, SignalKeeps
<1>3. ASSUME NEW s \in Sessions, LoaderStep(s) /\ UNCHANGED auditVars
      PROVE  AuditExact'
  BY <1>3, LoaderKeeps, GoroutinesPublish DEF LoaderStep
<1>4. ASSUME NEW s \in Sessions, LoaderBreaks(s) /\ UNCHANGED auditVars
      PROVE  AuditExact'
  BY <1>4, LoaderBreaksKeeps
<1>5. ASSUME NEW s \in Sessions, StartStep(s) /\ UNCHANGED auditVars
      PROVE  AuditExact'
  BY <1>5, StartKeeps, GoroutinesPublish
<1>6. ASSUME NEW s \in Sessions, StartStumbles(s) /\ UNCHANGED auditVars
      PROVE  AuditExact'
  BY <1>6, StartStumblesKeeps
<1>7. ASSUME NEW s \in Sessions, ImportCustomers(s) \/ AdmissionRefused(s)
      PROVE  AuditExact'
  BY <1>7, RequestKeeps
<1>8. ASSUME NEW s \in Sessions, AdmissionClaims(s)
      PROVE  AuditExact'
  BY <1>8, AdmissionClaimsKeeps
<1>9. ASSUME NEW s \in Sessions, AdmitImportSession(s)
      PROVE  AuditExact'
  BY <1>9, AdmitKeeps
<1>10. ASSUME NEW s \in Sessions, WatchImportAuditSession(s)
       PROVE  AuditExact'
  BY <1>10, WatchKeeps
<1>11. CASE UNCHANGED vars
  <2>1. UNCHANGED importerVars /\ UNCHANGED <<im, done, stop, signals, session, published, cleared, left>>
        /\ UNCHANGED <<request, held, pending, watcher, events, overtaken>>
    BY <1>11 DEF vars, auditVars, importerVars
  <2>2. TypeOK /\ Followed /\ SpeaksOnce /\ Recorded
    BY Parts
  <2>3. TypeOK'
    BY <2>1, <2>2 DEF TypeOK
  <2>4. Followed'
    BY <2>1, <2>2 DEF Followed, IsDone
  <2>5. SpeaksOnce' /\ Recorded'
    BY <2>1, <2>2, SpeaksStays DEF Recorded, Ended
  <2> QED
    BY <2>3, <2>4, <2>5 DEF AuditExact, Recorded
<1> QED
  BY <1>1, <1>2, <1>3, <1>4, <1>5, <1>6, <1>7, <1>8, <1>9, <1>10, <1>11 DEF Next, Admission

\* A session is recorded once, after its end and, as long as at most one step failed,
\* with an outcome of its own; a session without a record is still the tracker's, or it
\* was cleared by a request or overtaken by the next admission (cmd/import_audit.go,
\* subimporter.Session).
THEOREM AuditExactCorrect == Spec => []AuditExact
BY InitHolds, NextKeeps, PTL DEF Spec
=============================================================================
