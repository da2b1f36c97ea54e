----------------------------- MODULE ReplyProofs -----------------------------
(* The mailbox, its scans, the queue of answers and the forwarding for any mail, *)
(* processes, customers and bounds.                                              *)
EXTENDS Replies, FiniteSetTheorems, SequenceTheorems, TLAPS

-----------------------------------------------------------------------------
(* Bounds and mail. *)

LEMMA SpendKeeps ==
    ASSUME left \in Budget,
           \/ Spend("edits") \/ Spend("tests") \/ Spend("leaves") \/ Spend("rules")
           \/ Spend("switches") \/ Spend("moves") \/ Spend("unblocks") \/ Spend("provider")
           \/ Spend("resent") \/ Spend("faults") \/ Spend("crashes") \/ Spend("lapses")
    PROVE  left' \in Budget
BY DEF Spend, Budget

LEMMA SpendProvider ==
    ASSUME left \in Budget, Spend("provider") \/ Spend("resent")
    PROVE  left'.provider + left'.resent < left.provider + left.resent
BY DEF Spend, Budget

LEMMA MailFacts ==
    ASSUME mail \in Mailing
    PROVE  /\ Len(mail) \in Nat /\ Messages = 1..Len(mail)
           /\ \A u \in Messages :
                /\ mail[u].key \in Keys /\ mail[u].key \in Nat
                /\ mail[u].kind \in {"reply", "hard", "soft", "broken", "large"}
                /\ mail[u].to \in Seq(Customers) /\ Len(mail[u].to) \in Nat
                /\ \A i \in 1..Len(mail[u].to) : mail[u].to[i] \in Customers
                /\ mail[u].kind = "reply" => mail[u].to[1] \in Customers
           /\ IsFiniteSet(Keys)
<1>1. mail \in Seq([kind : {"reply", "hard", "soft", "broken", "large"}, key : Nat, to : Seq(Customers)])
      /\ \A u \in 1..Len(mail) : mail[u].kind = "reply" => mail[u].to # <<>>
  BY DEF Mailing
<1>2. Len(mail) \in Nat /\ Messages = 1..Len(mail)
  BY <1>1 DEF Messages
<1>3. ASSUME NEW u \in Messages
      PROVE  /\ mail[u].key \in Keys /\ mail[u].key \in Nat
             /\ mail[u].kind \in {"reply", "hard", "soft", "broken", "large"}
             /\ mail[u].to \in Seq(Customers) /\ Len(mail[u].to) \in Nat
             /\ \A i \in 1..Len(mail[u].to) : mail[u].to[i] \in Customers
             /\ mail[u].kind = "reply" => mail[u].to[1] \in Customers
  <2>1. mail[u] \in [kind : {"reply", "hard", "soft", "broken", "large"}, key : Nat, to : Seq(Customers)]
    BY <1>1, <1>2, <1>3, ElementOfSeq
  <2>2. mail[u].to \in Seq(Customers) /\ mail[u].key \in Nat
    BY <2>1
  <2>3. mail[u].kind = "reply" => mail[u].to # <<>>
    BY <1>1, <1>2, <1>3
  <2>4. Len(mail[u].to) \in Nat /\ \A i \in 1..Len(mail[u].to) : mail[u].to[i] \in Customers
    BY <2>2
  <2>5. mail[u].to # <<>> => 1 \in 1..Len(mail[u].to)
    BY <2>2
  <2>6. mail[u].key \in Keys
    BY <1>3 DEF Keys
  <2> QED
    BY <2>1, <2>2, <2>3, <2>4, <2>5, <2>6
<1>4. IsFiniteSet(Keys)
  <2>1. IsFiniteSet(Messages)
    BY <1>2, FS_Interval
  <2> DEFINE key == [u \in Messages |-> mail[u].key]
  <2>2. key \in Surjection(Messages, Keys)
    BY DEF Keys, Surjection
  <2> QED
    BY <2>1, <2>2, FS_Surjection
<1> QED
  BY <1>2, <1>3, <1>4
-----------------------------------------------------------------------------
(* What was told stays told. *)

EventsGrow ==
    /\ event' \in [Keys -> EventType]
    /\ \A k \in Keys : event[k].at # "none" => event'[k].at # "none"

Ledgers == [Keys -> [Customers -> {"none", "ignored", "hard", "soft", "blocklisted"}]]

LedgerGrows ==
    /\ ledger' \in Ledgers
    /\ \A k \in Keys, c \in Customers : ledger[k][c] # "none" => ledger'[k][c] # "none"

WaivedGrow == waived \subseteq waived' /\ waived' \subseteq Messages

LEMMA ToldStays ==
    ASSUME mail \in Mailing, mail' = mail, LedgerGrows, WaivedGrow,
           NEW u \in Messages, NEW n \in Int, n <= Len(mail[u].to), Told(u, n)
    PROVE  Told(u, n)'
<1>1. mail[u].key \in Keys /\ \A i \in 1..n : mail[u].to[i] \in Customers
  BY MailFacts
<1> QED
  BY <1>1 DEF Told, LedgerGrows, WaivedGrow

LEMMA CoveredStays ==
    ASSUME mail \in Mailing, mail' = mail, EventsGrow, LedgerGrows, WaivedGrow,
           NEW u \in Messages, Covered(u)
    PROVE  Covered(u)'
<1>1. mail[u].key \in Keys /\ Len(mail[u].to) \in Int
  BY MailFacts
<1>2. CASE IsReport(mail[u])
  <2>1. Told(u, Len(mail[u].to))
    BY <1>2 DEF Covered
  <2>2. PICK n \in Int : n = Len(mail[u].to)
    BY <1>1
  <2>3. Told(u, n)'
    BY <2>1, <2>2, ToldStays
  <2> QED
    BY <1>2, <2>2, <2>3 DEF Covered, IsReport
<1>3. CASE ~IsReport(mail[u])
  BY <1>1, <1>3 DEF Covered, EventsGrow, WaivedGrow, IsReport
<1> QED
  BY <1>2, <1>3

LEMMA CoveredUpToStays ==
    ASSUME mail \in Mailing, mail' = mail, EventsGrow, LedgerGrows, WaivedGrow,
           NEW n, CoveredUpTo(n)
    PROVE  CoveredUpTo(n)'
<1>1. Messages' = Messages
  BY DEF Messages
<1>2. \A u \in Messages : Covered(u) => Covered(u)'
  BY CoveredStays
<1> QED
  BY <1>1, <1>2 DEF CoveredUpTo

\* What a process knows stays true while others work.
LEMMA SoundStays ==
    ASSUME mail \in Mailing, mail' = mail, arrived \in 0..Len(mail), arrived' \in Nat,
           arrived <= arrived', EventsGrow, LedgerGrows, WaivedGrow,
           NEW r \in RunType, Sound(r)
    PROVE  Sound(r)'
<1>1. Messages' = Messages /\ Keys' = Keys
  BY DEF Messages, Keys
<1>2. r.uid \in Nat /\ r.upTo \in Nat /\ r.i \in Nat /\ arrived \in Nat
  BY MailFacts DEF RunType
<1>3. r.conn # "none" => r.conn \in Good
  BY DEF Sound
<1>4. r.at \in Scanning \ {"open"} => r.uid <= arrived' /\ r.upTo <= arrived'
  BY <1>2 DEF Sound
<1>5. r.at \in {"advanced", "handled"} => CoveredUpTo(r.uid)'
  <2>1. CoveredUpTo(r.uid) => CoveredUpTo(r.uid)'
    BY CoveredUpToStays
  <2> QED
    BY <2>1 DEF Sound
<1>6. r.at \in {"fetched", "report", "record"} => CoveredUpTo(r.uid - 1)'
  <2>1. PICK n \in Int : n = r.uid - 1
    BY <1>2
  <2>2. CoveredUpTo(n) => CoveredUpTo(n)'
    BY CoveredUpToStays
  <2> QED
    BY <2>1, <2>2 DEF Sound
<1>7. ASSUME r.at \in {"report", "record"}
      PROVE  /\ IsReport(mail[r.uid])' /\ Told(r.uid, r.i - 1)'
             /\ r.i \in 1..Len(mail'[r.uid].to) + (IF r.at = "report" THEN 1 ELSE 0)
  <2>1. r.uid \in Messages /\ IsReport(mail[r.uid]) /\ Told(r.uid, r.i - 1)
        /\ r.i \in 1..Len(mail[r.uid].to) + (IF r.at = "report" THEN 1 ELSE 0)
    BY <1>7 DEF Sound
  <2>2. Len(mail[r.uid].to) \in Nat
    BY <2>1, MailFacts
  <2>3. PICK n \in Int : n = r.i - 1 /\ n <= Len(mail[r.uid].to)
    <3>1. PICK l \in Nat : l = Len(mail[r.uid].to)
      BY <2>2
    <3>2. r.i \in 1..l + 1
      <4>1. CASE r.at = "report"
        BY <2>1, <3>1, <4>1
      <4>2. CASE r.at = "record"
        BY <2>1, <3>1, <4>2
      <4> QED
        BY <1>7, <4>1, <4>2
    <3> QED
      BY <1>2, <3>1, <3>2
  <2>4. Told(r.uid, n)'
    BY <2>1, <2>3, ToldStays
  <2> QED
    BY <2>1, <2>3, <2>4 DEF IsReport
<1>8. r.at \in {"fetched", "report", "record", "handled"} => r.uid \in Messages'
  BY <1>1 DEF Sound
<1>9. r.at \in Working => r.key \in Keys'
  BY <1>1 DEF Sound
<1>10. r.at = "fetched" => r.i = 1
  BY DEF Sound
<1> QED
  BY <1>3, <1>4, <1>5, <1>6, <1>7, <1>8, <1>9, <1>10 DEF Sound

\* A step of one process.
LEMMA SoundAll ==
    ASSUME WellKept, mail' = mail, arrived' = arrived, EventsGrow, LedgerGrows, WaivedGrow,
           NEW p \in Processes, NEW q \in RunType, run' = [run EXCEPT ![p] = q], Sound(q)'
    PROVE  /\ run' \in [Processes -> RunType]
           /\ \A t \in Processes : Sound(run[t])'
<1>1. /\ mail \in Mailing /\ arrived \in 0..Len(mail) /\ run \in [Processes -> RunType]
      /\ \A t \in Processes : Sound(run[t])
  BY DEF WellKept, TypeOK
<1>2. arrived \in Nat /\ arrived <= arrived'
  BY <1>1, MailFacts
<1>3. \A t \in Processes : run'[t] = IF t = p THEN q ELSE run[t]
  BY <1>1
<1>4. ASSUME NEW t \in Processes
      PROVE  Sound(run[t])'
  <2>1. CASE t = p
    BY <1>3, <2>1
  <2>2. CASE t # p
    <3>1. PICK r \in RunType : r = run[t]
      BY <1>1
    <3>2. Sound(r)'
      BY <1>1, <1>2, <3>1, SoundStays
    <3> QED
      BY <1>3, <2>2, <3>1, <3>2
  <2> QED
    BY <2>1, <2>2
<1> QED
  BY <1>1, <1>4

Counts == \A c \in Customers : customers.hard[c] = Cardinality(Counted(c)) + customers.provider[c]

LEMMA Parts ==
    WellKept <=> /\ TypeOK /\ (mailbox.verified => mailbox.conn \in Good)
                 /\ CoveredUpTo(cursor.uid) /\ (\A p \in Processes : Sound(run[p])) /\ Counts
BY DEF WellKept, Counts

\* A step of one process; what it counts is in the ledger.
LEMMA RunCounts ==
    ASSUME WellKept, UNCHANGED queueVars, left' \in Budget,
           customers' \in CustomersType, Counts',
           \/ UNCHANGED cursor
           \/ /\ cursor' \in [conn : Conns \cup {"none"}, uid : Nat] /\ cursor'.uid <= arrived
              /\ CoveredUpTo(cursor.uid)',
           EventsGrow, LedgerGrows, WaivedGrow,
           NEW p \in Processes, NEW q \in RunType, run' = [run EXCEPT ![p] = q], Sound(q)'
    PROVE  WellKept'
<1>1. TypeOK /\ (mailbox.verified => mailbox.conn \in Good) /\ CoveredUpTo(cursor.uid) /\ Counts
  BY Parts
<1>2. UNCHANGED <<mailbox, owner, leave, rule, settings, test, mail, arrived>>
  BY DEF queueVars
<1>3. Messages' = Messages /\ Keys' = Keys /\ mail \in Mailing
  BY <1>1, <1>2 DEF Messages, Keys, TypeOK
<1>4. run' \in [Processes -> RunType] /\ \A t \in Processes : Sound(run[t])'
  BY <1>2, SoundAll
<1>5. /\ cursor' \in [conn : Conns \cup {"none"}, uid : Nat] /\ cursor'.uid <= arrived
      /\ CoveredUpTo(cursor.uid)'
  <2>1. CASE UNCHANGED cursor
    <3>1. PICK n : n = cursor.uid
      OBVIOUS
    <3>2. CoveredUpTo(n)'
      BY <1>1, <1>2, <1>3, <3>1, CoveredUpToStays
    <3> QED
      BY <1>1, <2>1, <3>1, <3>2 DEF TypeOK
  <2> QED
    BY <2>1
<1>6. TypeOK'
  BY <1>1, <1>2, <1>3, <1>4, <1>5 DEF TypeOK, EventsGrow, LedgerGrows, Ledgers, WaivedGrow
<1> QED
  BY <1>1, <1>2, <1>4, <1>5, <1>6 DEF WellKept, Counts

\* A step of one process that counts no bounce.
LEMMA RunKeeps ==
    ASSUME WellKept, UNCHANGED queueVars, left' \in Budget,
           customers' \in CustomersType, customers'.hard = customers.hard,
           customers'.provider = customers.provider,
           \/ UNCHANGED cursor
           \/ /\ cursor' \in [conn : Conns \cup {"none"}, uid : Nat] /\ cursor'.uid <= arrived
              /\ CoveredUpTo(cursor.uid)',
           EventsGrow, LedgerGrows, WaivedGrow,
           \A k \in Keys, c \in Customers :
              ledger'[k][c] \in {"hard", "blocklisted"} <=> ledger[k][c] \in {"hard", "blocklisted"},
           NEW p \in Processes, NEW q \in RunType, run' = [run EXCEPT ![p] = q], Sound(q)'
    PROVE  WellKept'
<1>1. Counts /\ Keys' = Keys
  BY Parts DEF queueVars, Keys, Messages
<1>2. \A c \in Customers : Counted(c)' = Counted(c)
  BY <1>1 DEF Counted
<1>3. Counts'
  BY <1>1, <1>2 DEF Counts
<1> QED
  BY <1>3, RunCounts

\* One that changes nothing but its own record.
LEMMA RunOnly ==
    ASSUME WellKept, UNCHANGED <<queueVars, customers, cursor, event, ledger, waived>>,
           left' \in Budget,
           NEW p \in Processes, NEW q \in RunType, run' = [run EXCEPT ![p] = q], Sound(q)
    PROVE  WellKept'
<1>1. TypeOK
  BY DEF WellKept
<1>2. UNCHANGED <<mailbox, owner, leave, rule, settings, test, mail, arrived>>
  BY DEF queueVars
<1>3. customers' \in CustomersType /\ EventsGrow /\ LedgerGrows /\ WaivedGrow
  BY <1>1, <1>2 DEF TypeOK, EventsGrow, LedgerGrows, WaivedGrow, Ledgers, Messages, Keys
<1>4. Sound(q)'
  <2>1. arrived \in Nat /\ arrived <= arrived' /\ arrived' \in Nat
    BY <1>1, <1>2, MailFacts DEF TypeOK
  <2> QED
    BY <1>1, <1>2, <1>3, <2>1, SoundStays DEF TypeOK
<1> QED
  BY <1>3, <1>4, RunKeeps
-----------------------------------------------------------------------------
(* The scan. *)

\* What a scan finds: its message and the types around it.
LEMMA RunFacts ==
    ASSUME WellKept, NEW p \in Processes
    PROVE  /\ run[p] \in RunType /\ Sound(run[p]) /\ arrived \in Nat /\ left \in Budget
           /\ run[p].uid \in Nat /\ run[p].i \in Nat /\ run[p].upTo \in Nat
           /\ Messages = 1..Len(mail) /\ arrived <= Len(mail) /\ Len(mail) \in Nat
           /\ cursor.uid \in Nat /\ cursor.uid <= arrived /\ CoveredUpTo(cursor.uid)
           /\ mail \in Mailing
<1>1. TypeOK /\ Sound(run[p]) /\ CoveredUpTo(cursor.uid)
  BY DEF WellKept
<1>2. run[p] \in RunType
  BY <1>1 DEF TypeOK
<1> QED
  BY <1>1, <1>2, MailFacts DEF TypeOK, RunType

LEMMA IdleSound ==
    /\ Idle \in RunType /\ Sound(Idle)
    /\ [Idle EXCEPT !.at = "queue"] \in RunType /\ Sound([Idle EXCEPT !.at = "queue"])
BY DEF Idle, RunType, Sound, Scanning, Working

LEMMA ScanSelectKeeps ==
    ASSUME WellKept, NEW p \in Processes, ScanSelect(p)
    PROVE  WellKept'
<1>1. left' \in Budget
  <2>1. left.scans[p] > 0 /\ left' = [left EXCEPT !.scans[p] = @ - 1] /\ left \in Budget
    BY RunFacts DEF ScanSelect
  <2>2. left.scans \in [Processes -> Nat]
    BY <2>1 DEF Budget
  <2>3. PICK n \in Nat : n = left.scans[p] - 1
    BY <2>1, <2>2
  <2>4. PICK s \in [Processes -> Nat] : s = [left.scans EXCEPT ![p] = n]
    BY <2>2, <2>3
  <2>5. left' = [left EXCEPT !.scans = s]
    BY <2>1, <2>3, <2>4
  <2> QED
    BY <2>1, <2>4, <2>5 DEF Budget
<1>2. UNCHANGED <<queueVars, customers, cursor, event, ledger, waived>>
  BY DEF ScanSelect, queueVars
<1>3. CASE Selected
  <2>1. PICK q : q = [Idle EXCEPT !.at = "open", !.conn = mailbox.conn,
                                  !.ai = Wanted("ai"), !.bounce = Wanted("bounce")]
    OBVIOUS
  <2>2. mailbox.conn \in Good /\ mailbox.conn \in Conns
    BY <1>3 DEF Selected, Readable, WellKept, TypeOK
  <2>3. Wanted("ai") \in BOOLEAN /\ Wanted("bounce") \in BOOLEAN
    BY DEF Wanted
  <2>4. q \in RunType /\ Sound(q)
    BY <2>1, <2>2, <2>3 DEF Idle, RunType, Sound, Scanning, Working
  <2> QED
    BY <1>1, <1>2, <1>3, <2>1, <2>4, RunOnly DEF ScanSelect
<1>4. CASE ~Selected
  BY <1>1, <1>2, <1>4, IdleSound, RunOnly DEF ScanSelect
<1> QED
  BY <1>3, <1>4

\* A step that keeps the bounds too.
LEMMA RunFree ==
    ASSUME WellKept, UNCHANGED <<mailboxVars, cursor, event, ledger, waived>>,
           NEW p \in Processes, NEW q \in RunType, run' = [run EXCEPT ![p] = q], Sound(q)
    PROVE  WellKept'
<1>1. UNCHANGED <<queueVars, customers, cursor, event, ledger, waived>> /\ left' = left
  BY DEF mailboxVars, queueVars
<1> QED
  BY <1>1, RunFacts, RunOnly

LEMMA ScanOpenKeeps ==
    ASSUME WellKept, NEW p \in Processes, ScanOpen(p)
    PROVE  WellKept'
<1>1. PICK last \in Nat : /\ last = IF cursor.conn = run[p].conn THEN cursor.uid ELSE 0
                          /\ last <= arrived /\ CoveredUpTo(last)
  BY RunFacts DEF CoveredUpTo
<1>2. PICK seen \in Nat : /\ seen = IF arrived - last > ScanBatch THEN last + ScanBatch ELSE arrived
                          /\ seen <= arrived
  <2>1. ScanBatch \in Nat
    BY ReplyAssumption
  <2> QED
    BY <1>1, <2>1, RunFacts
<1>3. PICK q : q = [run[p] EXCEPT !.at = "advanced", !.uid = last, !.upTo = seen]
  OBVIOUS
<1>4. run' = [run EXCEPT ![p] = q] /\ run[p].conn \in Good
  BY <1>1, <1>2, <1>3 DEF ScanOpen
<1>5. q \in RunType /\ q.at = "advanced" /\ q.uid = last /\ q.upTo = seen /\ q.conn = run[p].conn
  BY <1>3, RunFacts DEF RunType, Scanning
<1>6. Sound(q)
  BY <1>1, <1>2, <1>4, <1>5 DEF Sound, Working
<1> QED
  BY <1>4, <1>5, <1>6, RunFree DEF ScanOpen

LEMMA ScanDoneKeeps ==
    ASSUME WellKept, NEW p \in Processes, ScanDone(p)
    PROVE  WellKept'
BY IdleSound, RunFree DEF ScanDone

LEMMA ScanNextKeeps ==
    ASSUME WellKept, NEW p \in Processes, ScanNext(p)
    PROVE  WellKept'
<1>1. PICK u \in Nat : u = run[p].uid + 1
  BY RunFacts
<1>2. PICK q : q = [run[p] EXCEPT !.at = "fetched", !.uid = u, !.i = 1]
  OBVIOUS
<1>3. run' = [run EXCEPT ![p] = q] /\ run[p].at = "advanced" /\ run[p].uid < run[p].upTo
  BY <1>1, <1>2 DEF ScanNext
<1>4. run[p].upTo <= arrived /\ CoveredUpTo(run[p].uid) /\ run[p].conn \in Conns \cup {"none"}
      /\ (run[p].conn # "none" => run[p].conn \in Good)
  BY <1>3, RunFacts DEF Sound, Scanning, RunType
<1>5. u \in Messages /\ u <= arrived /\ u - 1 = run[p].uid
  BY <1>1, <1>3, <1>4, RunFacts
<1>6. q \in RunType
  BY <1>2, RunFacts DEF RunType, Scanning
<1>7. q.at = "fetched" /\ q.uid = u /\ q.i = 1 /\ q.conn = run[p].conn /\ q.upTo = run[p].upTo
  BY <1>2, RunFacts DEF RunType
<1>8. Sound(q)
  BY <1>4, <1>5, <1>7 DEF Sound, Working
<1> QED
  BY <1>3, <1>6, <1>8, RunFree DEF ScanNext

LEMMA ReportDoneKeeps ==
    ASSUME WellKept, NEW p \in Processes, ReportDone(p)
    PROVE  WellKept'
<1>1. PICK q : q = [run[p] EXCEPT !.at = "handled"]
  OBVIOUS
<1>2. run' = [run EXCEPT ![p] = q] /\ run[p].at = "report" /\ run[p].i > Len(mail[run[p].uid].to)
  BY <1>1 DEF ReportDone, Current
<1>3. PICK u \in Messages : u = run[p].uid
  BY <1>2, RunFacts DEF Sound
<1>4. /\ IsReport(mail[u]) /\ Told(u, run[p].i - 1) /\ CoveredUpTo(u - 1)
      /\ run[p].i \in 1..Len(mail[u].to) + 1
      /\ run[p].uid <= arrived /\ run[p].upTo <= arrived
      /\ run[p].conn # "none" => run[p].conn \in Good
  BY <1>2, <1>3, RunFacts DEF Sound, Scanning
<1>5. run[p].i - 1 = Len(mail[u].to)
  <2>1. PICK l \in Nat : l = Len(mail[u].to)
    BY RunFacts, MailFacts
  <2>2. PICK i \in Nat : i = run[p].i
    BY RunFacts
  <2>3. i > l
    BY <1>2, <1>3, <2>1, <2>2
  <2>4. i \in 1..l + 1
    BY <1>4, <2>1, <2>2
  <2> QED
    BY <2>1, <2>2, <2>3, <2>4
<1>6. Covered(u)
  BY <1>4, <1>5 DEF Covered
<1>7. CoveredUpTo(u)
  <2>1. \A v \in Messages : v <= u => v <= u - 1 \/ v = u
    BY <1>3, RunFacts
  <2> QED
    BY <1>4, <1>6, <2>1 DEF CoveredUpTo
<1>8. q \in RunType /\ q.at = "handled" /\ q.uid = u /\ q.conn = run[p].conn /\ q.upTo = run[p].upTo
  BY <1>1, <1>3, RunFacts DEF RunType, Scanning
<1>9. Sound(q)
  BY <1>3, <1>4, <1>7, <1>8 DEF Sound, Working
<1> QED
  BY <1>2, <1>8, <1>9, RunFree DEF ReportDone

LEMMA ScanFailsKeeps ==
    ASSUME WellKept, NEW p \in Processes, ScanFails(p)
    PROVE  WellKept'
<1>1. left' \in Budget
  BY RunFacts, SpendKeeps DEF ScanFails
<1>2. UNCHANGED <<queueVars, customers, cursor, event, ledger, waived>>
  BY DEF ScanFails, queueVars
<1> QED
  BY <1>1, <1>2, IdleSound, RunOnly DEF ScanFails

LEMMA IngestMessageKeeps ==
    ASSUME WellKept, NEW p \in Processes, IngestMessage(p)
    PROVE  WellKept'
<1>1. PICK u \in Nat : u = run[p].uid
  BY RunFacts
<1>2. PICK q : q = [run[p] EXCEPT !.at = "handled"]
  OBVIOUS
<1>3. /\ run' = [run EXCEPT ![p] = q] /\ run[p].at = "fetched" /\ ~IsReport(mail[u])
      /\ event' = [event EXCEPT ![mail[u].key] = Inserted(mail[u].key, Row(p))]
      /\ waived' = IF Row(p).at = "none" THEN waived \cup {u} ELSE waived
      /\ UNCHANGED <<mailboxVars, cursor, ledger>>
  BY <1>1, <1>2 DEF IngestMessage, Current
<1>4. /\ u \in Messages /\ CoveredUpTo(u - 1) /\ u <= arrived /\ run[p].upTo <= arrived
      /\ run[p].conn # "none" => run[p].conn \in Good
  BY <1>1, <1>3, RunFacts DEF Sound, Scanning
<1>5. TypeOK /\ mail \in Mailing
  BY RunFacts DEF WellKept
<1>6. UNCHANGED queueVars /\ customers' = customers /\ left' = left /\ mail' = mail /\ arrived' = arrived
  BY <1>3 DEF mailboxVars, queueVars
<1>7. mail[u].key \in Keys /\ (mail[u].kind = "reply" => mail[u].to[1] \in Customers)
  BY <1>4, <1>5, MailFacts
<1>8. Row(p) \in EventType
  <2>1. 0 \in 0..MaxAttempts
    BY ReplyAssumption
  <2>2. NoEvent \in EventType /\ Unread \in EventType
    BY <2>1 DEF NoEvent, Unread, EventType
  <2>3. ASSUME mail[u].kind = "reply"
        PROVE  NewEvent(mail[u]) \in EventType
    <3>1. PICK c \in Customers : c = mail[u].to[1]
      BY <1>7, <2>3
    <3>2. NewEvent(mail[u]) = [NoEvent EXCEPT !.at = "pending", !.due = TRUE, !.body = TRUE, !.from = c]
      BY <3>1 DEF NewEvent
    <3> QED
      BY <2>1, <3>2 DEF NoEvent, EventType
  <2> QED
    BY <1>1, <2>2, <2>3 DEF Row, Current
<1>9. PICK row \in EventType : row = Inserted(mail[u].key, Row(p))
  BY <1>5, <1>7, <1>8 DEF Inserted, TypeOK
<1>10. row.at = "none" => event[mail[u].key].at = "none" /\ Row(p).at = "none"
  BY <1>9 DEF Inserted
<1>11. EventsGrow
  BY <1>3, <1>5, <1>7, <1>9, <1>10 DEF EventsGrow, TypeOK
<1>12. LedgerGrows /\ WaivedGrow
  BY <1>3, <1>4, <1>5 DEF LedgerGrows, Ledgers, WaivedGrow, TypeOK
<1>13. q \in RunType /\ q.at = "handled" /\ q.uid = u /\ q.conn = run[p].conn /\ q.upTo = run[p].upTo
  BY <1>1, <1>2, RunFacts DEF RunType, Scanning
<1>14. Covered(u)'
  <2>1. event'[mail[u].key] = row
    BY <1>3, <1>5, <1>7, <1>9 DEF TypeOK
  <2>2. u \in waived' \/ event'[mail[u].key].at # "none"
    BY <1>3, <1>10, <2>1
  <2> QED
    BY <1>3, <1>6, <2>2 DEF Covered, IsReport
<1>15. CoveredUpTo(u)'
  <2>1. PICK n \in Int : n = u - 1
    BY <1>1
  <2>2. CoveredUpTo(n)'
    BY <1>4, <1>5, <1>6, <1>11, <1>12, <2>1, CoveredUpToStays
  <2>3. \A v \in Messages : v <= u => v <= n \/ v = u
    BY <1>1, <2>1, RunFacts
  <2>4. Messages' = Messages
    BY <1>6 DEF Messages
  <2> QED
    BY <1>14, <2>2, <2>3, <2>4 DEF CoveredUpTo
<1>16. Sound(q)'
  <2>1. Messages' = Messages
    BY <1>6 DEF Messages
  <2> QED
    BY <1>4, <1>6, <1>13, <1>15, <2>1 DEF Sound, Working
<1> QED
  BY <1>3, <1>5, <1>6, <1>11, <1>12, <1>13, <1>16, RunKeeps DEF TypeOK

LEMMA IngestReportKeeps ==
    ASSUME WellKept, NEW p \in Processes, IngestReport(p)
    PROVE  WellKept'
<1>1. PICK u \in Nat : u = run[p].uid
  BY RunFacts
<1>2. PICK q : q = [run[p] EXCEPT !.at = IF run[p].bounce THEN "report" ELSE "handled"]
  OBVIOUS
<1>3. /\ run' = [run EXCEPT ![p] = q] /\ run[p].at = "fetched" /\ IsReport(mail[u])
      /\ waived' = IF run[p].bounce THEN waived ELSE waived \cup {u}
      /\ UNCHANGED <<mailboxVars, cursor, event, ledger>>
  BY <1>1, <1>2 DEF IngestReport, Current
<1>4. q \in RunType
  BY <1>2, RunFacts DEF RunType, Scanning
<1>5. /\ u \in Messages /\ CoveredUpTo(u - 1) /\ u <= arrived /\ run[p].upTo <= arrived
      /\ run[p].i = 1 /\ (run[p].conn # "none" => run[p].conn \in Good)
  BY <1>1, <1>3, RunFacts DEF Sound, Scanning
<1>6. TypeOK /\ mail \in Mailing
  BY RunFacts DEF WellKept
<1>7. UNCHANGED queueVars /\ customers' = customers /\ left' = left /\ mail' = mail /\ arrived' = arrived
  BY <1>3 DEF mailboxVars, queueVars
<1>8. EventsGrow /\ LedgerGrows /\ WaivedGrow
  BY <1>3, <1>5, <1>6 DEF EventsGrow, LedgerGrows, Ledgers, WaivedGrow, TypeOK
<1>9. q.uid = u /\ q.conn = run[p].conn /\ q.upTo = run[p].upTo /\ q.i = 1
      /\ q.at = IF run[p].bounce THEN "report" ELSE "handled"
  BY <1>1, <1>2, <1>5, RunFacts DEF RunType
<1>10. Messages' = Messages
  BY <1>7 DEF Messages
<1>11. PICK n \in Int : n = u - 1
  BY <1>1
<1>12. CoveredUpTo(n)'
  BY <1>5, <1>6, <1>7, <1>8, <1>11, CoveredUpToStays
<1>13. CASE run[p].bounce
  <2>1. Told(u, 1 - 1)'
    BY DEF Told
  <2>2. 1 \in 1..Len(mail[u].to) + 1
    BY <1>5, <1>6, MailFacts
  <2>3. Sound(q)'
    BY <1>3, <1>5, <1>7, <1>9, <1>10, <1>11, <1>12, <1>13, <2>1, <2>2 DEF Sound, Working, IsReport
  <2> QED
    BY <1>3, <1>4, <1>6, <1>7, <1>8, <2>3, RunKeeps DEF TypeOK
<1>14. CASE ~run[p].bounce
  <2>1. Covered(u)'
    BY <1>3, <1>7, <1>14 DEF Covered, Told
  <2>2. \A v \in Messages : v <= u => v <= n \/ v = u
    BY <1>1, <1>11, RunFacts
  <2>3. CoveredUpTo(u)'
    BY <1>10, <1>12, <2>1, <2>2 DEF CoveredUpTo
  <2>4. Sound(q)'
    BY <1>5, <1>7, <1>9, <1>10, <1>14, <2>3 DEF Sound, Working
  <2> QED
    BY <1>3, <1>4, <1>6, <1>7, <1>8, <2>4, RunKeeps DEF TypeOK
<1> QED
  BY <1>13, <1>14

LEMMA ResolveRecipientKeeps ==
    ASSUME WellKept, NEW p \in Processes, ResolveRecipient(p)
    PROVE  WellKept'
<1>1. PICK u \in Nat : u = run[p].uid
  BY RunFacts
<1>2. PICK i \in Nat : i = run[p].i
  BY RunFacts
<1>3. run[p].at = "report" /\ i <= Len(mail[u].to)
  BY <1>1, <1>2 DEF ResolveRecipient, Current
<1>4. /\ u \in Messages /\ CoveredUpTo(u - 1) /\ u <= arrived /\ run[p].upTo <= arrived
      /\ IsReport(mail[u]) /\ Told(u, i - 1) /\ i \in 1..Len(mail[u].to) + 1
      /\ run[p].conn # "none" => run[p].conn \in Good
  BY <1>1, <1>2, <1>3, RunFacts DEF Sound, Scanning
<1>5. TypeOK /\ mail \in Mailing
  BY RunFacts DEF WellKept
<1>6. i \in 1..Len(mail[u].to) /\ mail[u].key \in Keys /\ mail[u].to[i] \in Customers
      /\ Len(mail[u].to) \in Nat
  BY <1>3, <1>4, <1>5, MailFacts
<1>7. PICK k \in Keys, c \in Customers : k = mail[u].key /\ c = mail[u].to[i]
  BY <1>6
<1>8. CASE c \in customers.found
  <2>1. PICK q : q = [run[p] EXCEPT !.at = "record"]
    OBVIOUS
  <2>2. run' = [run EXCEPT ![p] = q] /\ UNCHANGED <<mailboxVars, cursor, event, ledger, waived>>
    BY <1>1, <1>2, <1>7, <1>8, <2>1 DEF ResolveRecipient, Current, Recipient
  <2>3. q \in RunType /\ q.at = "record" /\ q.uid = u /\ q.i = i /\ q.conn = run[p].conn
        /\ q.upTo = run[p].upTo
    BY <1>1, <1>2, <2>1, RunFacts DEF RunType, Scanning
  <2>4. i \in 1..Len(mail[u].to) + 0
    BY <1>6
  <2>5. Sound(q)
    BY <1>4, <2>3, <2>4 DEF Sound, Working
  <2> QED
    BY <2>2, <2>3, <2>5, RunFree
<1>9. CASE c \notin customers.found
  <2>1. PICK j \in Nat : j = i + 1
    BY <1>2
  <2>2. PICK q : q = [run[p] EXCEPT !.i = j]
    OBVIOUS
  <2>3. PICK o : o = IF ledger[k][c] = "none" THEN "ignored" ELSE ledger[k][c]
    OBVIOUS
  <2>4. PICK row : row = [ledger[k] EXCEPT ![c] = o]
    OBVIOUS
  <2>5. run' = [run EXCEPT ![p] = q] /\ ledger' = [ledger EXCEPT ![k][c] = o]
        /\ UNCHANGED <<mailboxVars, cursor, event, waived>>
    BY <1>1, <1>2, <1>7, <1>9, <2>1, <2>2, <2>3 DEF ResolveRecipient, Current, Recipient
  <2>6. ledger' = [ledger EXCEPT ![k] = row]
    BY <2>4, <2>5
  <2>7. ledger \in Ledgers /\ ledger[k][c] \in {"none", "ignored", "hard", "soft", "blocklisted"}
        /\ ledger[k] \in [Customers -> {"none", "ignored", "hard", "soft", "blocklisted"}]
    BY <1>5, <1>7 DEF TypeOK, Ledgers
  <2>8. row \in [Customers -> {"none", "ignored", "hard", "soft", "blocklisted"}]
        /\ row[c] = o /\ \A d \in Customers : d # c => row[d] = ledger[k][d]
    BY <2>3, <2>4, <2>7
  <2>9. ledger' \in Ledgers /\ ledger'[k] = row /\ \A h \in Keys : h # k => ledger'[h] = ledger[h]
    BY <2>6, <2>7, <2>8 DEF Ledgers
  <2>10. LedgerGrows
    BY <2>3, <2>8, <2>9 DEF LedgerGrows
  <2>11. \A h \in Keys, d \in Customers :
            ledger'[h][d] \in {"hard", "blocklisted"} <=> ledger[h][d] \in {"hard", "blocklisted"}
    BY <2>3, <2>8, <2>9
  <2>12. EventsGrow /\ WaivedGrow
    BY <1>5, <2>5 DEF EventsGrow, WaivedGrow, TypeOK
  <2>13. UNCHANGED queueVars /\ customers' = customers /\ left' = left /\ mail' = mail /\ arrived' = arrived
    BY <2>5 DEF mailboxVars, queueVars
  <2>14. q \in RunType /\ q.at = "report" /\ q.uid = u /\ q.i = j /\ q.conn = run[p].conn
         /\ q.upTo = run[p].upTo
    BY <1>1, <1>3, <2>2, RunFacts DEF RunType
  <2>15. Told(u, j - 1)'
    <3>1. PICK n \in Int : n = i - 1 /\ n <= Len(mail[u].to)
      BY <1>2, <1>6
    <3>2. Told(u, n)'
      BY <1>4, <1>5, <2>10, <2>12, <2>13, <3>1, ToldStays
    <3>3. ledger'[k][c] # "none"
      BY <2>3, <2>8, <2>9
    <3>4. \A l \in 1..j - 1 : l \in 1..n \/ l = i
      BY <1>2, <2>1, <3>1
    <3> QED
      BY <1>7, <2>13, <3>2, <3>3, <3>4 DEF Told
  <2>16. CoveredUpTo(u - 1)'
    <3>1. PICK n \in Int : n = u - 1
      BY <1>1
    <3>2. CoveredUpTo(n)'
      BY <1>4, <1>5, <2>10, <2>12, <2>13, <3>1, CoveredUpToStays
    <3> QED
      BY <3>1, <3>2
  <2>17. j \in 1..Len(mail[u].to) + 1
    BY <1>6, <2>1
  <2>18. Sound(q)'
    <3>1. Messages' = Messages
      BY <2>13 DEF Messages
    <3> QED
      BY <1>4, <2>13, <2>14, <2>15, <2>16, <2>17, <3>1 DEF Sound, Working, IsReport
  <2> QED
    BY <1>5, <2>5, <2>10, <2>11, <2>12, <2>13, <2>14, <2>18, RunKeeps DEF TypeOK
<1> QED
  BY <1>8, <1>9

LEMMA ScanAdvanceKeeps ==
    ASSUME WellKept, NEW p \in Processes, ScanAdvance(p)
    PROVE  WellKept'
<1>1. PICK q : q = [run[p] EXCEPT !.at = "advanced"]
  OBVIOUS
<1>2. /\ run' = [run EXCEPT ![p] = q] /\ run[p].at = "handled" /\ cursor' = Advanced(p)
      /\ UNCHANGED <<mailboxVars, event, ledger, waived>>
  BY <1>1 DEF ScanAdvance
<1>3. CoveredUpTo(run[p].uid) /\ run[p].uid <= arrived /\ run[p].upTo <= arrived
      /\ (run[p].conn # "none" => run[p].conn \in Good)
  BY <1>2, RunFacts DEF Sound, Scanning
<1>4. UNCHANGED queueVars /\ customers' = customers /\ left' = left /\ mail' = mail /\ arrived' = arrived
  BY <1>2 DEF mailboxVars, queueVars
<1>5. TypeOK
  BY DEF WellKept
<1>6. EventsGrow /\ LedgerGrows /\ WaivedGrow
  BY <1>2, <1>5 DEF EventsGrow, LedgerGrows, Ledgers, WaivedGrow, TypeOK
<1>7. q \in RunType /\ q.at = "advanced" /\ q.uid = run[p].uid /\ q.conn = run[p].conn
      /\ q.upTo = run[p].upTo
  BY <1>1, RunFacts DEF RunType, Scanning
<1>8. PICK u \in Nat : u = run[p].uid
  BY RunFacts
<1>9. CoveredUpTo(u)'
  BY <1>3, <1>4, <1>6, <1>8, RunFacts, CoveredUpToStays
<1>10. Sound(q)'
  BY <1>3, <1>4, <1>7, <1>8, <1>9 DEF Sound, Working
<1>11. PICK v \in Nat : v = IF cursor.conn = run[p].conn /\ cursor.uid > u THEN cursor.uid ELSE u
  BY RunFacts
<1>12. cursor' = [conn |-> run[p].conn, uid |-> v]
  BY <1>2, <1>8, <1>11 DEF Advanced
<1>13. CoveredUpTo(v) /\ v <= arrived
  BY <1>3, <1>8, <1>11, RunFacts
<1>14. CoveredUpTo(v)'
  BY <1>4, <1>6, <1>13, RunFacts, CoveredUpToStays
<1>15. /\ cursor' \in [conn : Conns \cup {"none"}, uid : Nat] /\ cursor'.uid <= arrived
       /\ CoveredUpTo(cursor.uid)'
  BY <1>12, <1>13, <1>14, RunFacts DEF RunType
<1> QED
  BY <1>2, <1>4, <1>5, <1>6, <1>7, <1>10, <1>15, RunKeeps DEF TypeOK

LEMMA RecordReplyBounceKeeps ==
    ASSUME WellKept, NEW p \in Processes, RecordReplyBounce(p)
    PROVE  WellKept'
<1>1. PICK u \in Nat, i \in Nat : u = run[p].uid /\ i = run[p].i
  BY RunFacts
<1>2. run[p].at = "record"
  BY DEF RecordReplyBounce
<1>3. /\ u \in Messages /\ CoveredUpTo(u - 1) /\ u <= arrived /\ run[p].upTo <= arrived
      /\ IsReport(mail[u]) /\ Told(u, i - 1)
      /\ run[p].conn # "none" => run[p].conn \in Good
  BY <1>1, <1>2, RunFacts DEF Sound, Scanning
<1>4. i \in 1..Len(mail[u].to) + 0
  BY <1>1, <1>2, RunFacts DEF Sound
<1>5. TypeOK /\ mail \in Mailing /\ Counts
  BY RunFacts, Parts
<1>6. i \in 1..Len(mail[u].to) /\ mail[u].key \in Keys /\ mail[u].to[i] \in Customers
      /\ Len(mail[u].to) \in Nat /\ mail[u].kind \in {"hard", "soft"}
  BY <1>3, <1>4, <1>5, MailFacts DEF IsReport
<1>7. PICK k \in Keys, c \in Customers : k = mail[u].key /\ c = mail[u].to[i]
  BY <1>6
<1>8. PICK o : o = Outcome(mail[u], c)
  OBVIOUS
<1>9. PICK counts \in BOOLEAN :
         counts = (o # ledger[k][c] /\ o \in {"hard", "soft", "blocklisted"})
  OBVIOUS
<1>10. PICK j \in Nat : j = i + 1
  OBVIOUS
<1>11. PICK q : q = [run[p] EXCEPT !.at = "report", !.i = j]
  OBVIOUS
<1>12. /\ ledger' = [ledger EXCEPT ![k][c] = o]
       /\ customers' = [customers EXCEPT
              !.hard[c] = IF counts /\ mail[u].kind = "hard" THEN @ + 1 ELSE @,
              !.bounced = IF counts THEN @ \cup {c} ELSE @,
              !.blocked = IF counts /\ o = "blocklisted" THEN @ \cup {c} ELSE @]
       /\ waived' = IF owner.enabled THEN waived ELSE waived \cup {u}
       /\ run' = [run EXCEPT ![p] = q]
       /\ UNCHANGED <<mailbox, owner, leave, rule, settings, test, mail, arrived, left, cursor, event>>
  BY <1>1, <1>7, <1>8, <1>9, <1>10, <1>11 DEF RecordReplyBounce, Current, Recipient
<1>13. UNCHANGED queueVars
  BY <1>12 DEF queueVars
<1>14. ledger \in Ledgers /\ ledger[k][c] \in {"none", "ignored", "hard", "soft", "blocklisted"}
       /\ ledger[k] \in [Customers -> {"none", "ignored", "hard", "soft", "blocklisted"}]
  BY <1>5, <1>7 DEF TypeOK, Ledgers
<1>15. /\ o \in {"none", "ignored", "hard", "soft", "blocklisted"}
       /\ ledger[k][c] # "none" => o = ledger[k][c]
       /\ o = "none" => ~owner.enabled
       /\ counts => ledger[k][c] = "none" /\ o \in {mail[u].kind, "blocklisted"}
       /\ counts /\ o = "blocklisted" => mail[u].kind = "hard"
       /\ ~counts => o = ledger[k][c] \/ o = "ignored"
  BY <1>6, <1>7, <1>8, <1>9, <1>14 DEF Outcome
<1>16. PICK row : row = [ledger[k] EXCEPT ![c] = o]
  OBVIOUS
<1>17. ledger' = [ledger EXCEPT ![k] = row]
  BY <1>12, <1>16
<1>18. row \in [Customers -> {"none", "ignored", "hard", "soft", "blocklisted"}]
       /\ row[c] = o /\ \A d \in Customers : d # c => row[d] = ledger[k][d]
  BY <1>14, <1>15, <1>16
<1>19. ledger' \in Ledgers /\ ledger'[k] = row /\ \A h \in Keys : h # k => ledger'[h] = ledger[h]
  BY <1>14, <1>17, <1>18 DEF Ledgers
<1>20. LedgerGrows
  BY <1>15, <1>18, <1>19 DEF LedgerGrows
<1>21. EventsGrow /\ WaivedGrow
  BY <1>3, <1>5, <1>12 DEF EventsGrow, WaivedGrow, TypeOK
<1>22. PICK n \in Nat : n = IF counts /\ mail[u].kind = "hard" THEN customers.hard[c] + 1 ELSE customers.hard[c]
  BY <1>5 DEF TypeOK, CustomersType
<1>23. PICK B \in SUBSET Customers, C \in SUBSET Customers :
          /\ B = IF counts THEN customers.bounced \cup {c} ELSE customers.bounced
          /\ C = IF counts /\ o = "blocklisted" THEN customers.blocked \cup {c} ELSE customers.blocked
  BY <1>5 DEF TypeOK, CustomersType
<1>24. PICK H \in [Customers -> Nat] : H = [customers.hard EXCEPT ![c] = n]
  BY <1>5, <1>22 DEF TypeOK, CustomersType
<1>25. customers' = [customers EXCEPT !.hard = H, !.bounced = B, !.blocked = C]
  BY <1>12, <1>22, <1>23, <1>24
<1>26. customers' \in CustomersType /\ customers'.hard = H /\ customers'.provider = customers.provider
  BY <1>5, <1>25 DEF TypeOK, CustomersType
<1>27. Keys' = Keys /\ IsFiniteSet(Keys)
  BY <1>5, <1>12, MailFacts DEF Keys, Messages
<1>28. ASSUME NEW d \in Customers
       PROVE  customers'.hard[d] = Cardinality(Counted(d)') + customers'.provider[d]
  <2>1. customers.hard[d] = Cardinality(Counted(d)) + customers.provider[d]
    BY <1>5 DEF Counts
  <2>2. \A h \in Keys : h # k \/ d # c => ledger'[h][d] = ledger[h][d]
    BY <1>18, <1>19
  <2>3. CASE d # c
    <3>1. Counted(d)' = Counted(d)
      BY <1>27, <2>2, <2>3 DEF Counted
    <3>2. H[d] = customers.hard[d]
      BY <1>5, <1>24, <2>3 DEF TypeOK, CustomersType
    <3> QED
      BY <1>26, <2>1, <3>1, <3>2
  <2>4. CASE d = c /\ counts /\ mail[u].kind = "hard"
    <3>1. k \notin Counted(d) /\ ledger'[k][d] \in {"hard", "blocklisted"}
      BY <1>15, <1>18, <1>19, <2>4 DEF Counted
    <3>2. Counted(d)' = Counted(d) \cup {k}
      BY <1>27, <2>2, <3>1 DEF Counted
    <3>3. IsFiniteSet(Counted(d))
      BY <1>27, FS_Subset DEF Counted
    <3>4. Cardinality(Counted(d) \cup {k}) = Cardinality(Counted(d)) + 1 /\ Cardinality(Counted(d)) \in Nat
      BY <3>1, <3>3, FS_AddElement, FS_CardinalityType
    <3>5. H[d] = customers.hard[d] + 1
      BY <1>5, <1>22, <1>24, <2>4 DEF TypeOK, CustomersType
    <3>6. customers.provider[d] \in Nat
      BY <1>5 DEF TypeOK, CustomersType
    <3> QED
      BY <1>26, <2>1, <3>2, <3>4, <3>5, <3>6
  <2>5. CASE d = c /\ ~(counts /\ mail[u].kind = "hard")
    <3>1. ledger'[k][d] \in {"hard", "blocklisted"} <=> ledger[k][d] \in {"hard", "blocklisted"}
      BY <1>6, <1>15, <1>18, <1>19, <2>5
    <3>2. Counted(d)' = Counted(d)
      BY <1>27, <2>2, <3>1 DEF Counted
    <3>3. H[d] = customers.hard[d]
      BY <1>5, <1>22, <1>24, <2>5 DEF TypeOK, CustomersType
    <3> QED
      BY <1>26, <2>1, <3>2, <3>3
  <2> QED
    BY <2>3, <2>4, <2>5
<1>29. Counts'
  BY <1>28 DEF Counts
<1>30. q \in RunType /\ q.at = "report" /\ q.uid = u /\ q.i = j /\ q.conn = run[p].conn
       /\ q.upTo = run[p].upTo
  BY <1>1, <1>11, RunFacts DEF RunType, Scanning
<1>31. Told(u, j - 1)'
  <2>1. PICK l \in Int : l = i - 1 /\ l <= Len(mail[u].to)
    BY <1>6
  <2>2. Told(u, l)'
    BY <1>3, <1>5, <1>12, <1>20, <1>21, <2>1, ToldStays
  <2>3. u \in waived' \/ ledger'[k][c] # "none"
    BY <1>12, <1>15, <1>18, <1>19
  <2>4. \A h \in 1..j - 1 : h \in 1..l \/ h = i
    BY <1>10, <2>1
  <2> QED
    BY <1>7, <1>12, <2>2, <2>3, <2>4 DEF Told
<1>32. CoveredUpTo(u - 1)'
  <2>1. PICK l \in Int : l = u - 1
    OBVIOUS
  <2>2. CoveredUpTo(l)'
    BY <1>3, <1>5, <1>12, <1>20, <1>21, <2>1, CoveredUpToStays
  <2> QED
    BY <2>1, <2>2
<1>33. j \in 1..Len(mail[u].to) + 1
  BY <1>6, <1>10
<1>34. Sound(q)'
  <2>1. Messages' = Messages
    BY <1>12 DEF Messages
  <2> QED
    BY <1>3, <1>12, <1>30, <1>31, <1>32, <1>33, <2>1 DEF Sound, Working, IsReport
<1> QED
  BY <1>5, <1>12, <1>13, <1>20, <1>21, <1>26, <1>29, <1>30, <1>34, RunCounts DEF TypeOK
-----------------------------------------------------------------------------
(* The queue of answers. *)

LEMMA WorkSound ==
    ASSUME WellKept, NEW p \in Processes, run[p].at \in Working, NEW x \in Working
    PROVE  /\ [run[p] EXCEPT !.at = x] \in RunType /\ Sound([run[p] EXCEPT !.at = x])
           /\ run[p].key \in Keys
<1>1. PICK q : q = [run[p] EXCEPT !.at = x]
  OBVIOUS
<1>2. q \in RunType /\ q.at = x /\ q.key = run[p].key /\ q.conn = run[p].conn
  BY <1>1, RunFacts DEF RunType
<1>3. run[p].key \in Keys /\ (run[p].conn # "none" => run[p].conn \in Good)
  BY RunFacts DEF Sound
<1>4. Sound(q)
  BY <1>2, <1>3 DEF Sound, Working, Scanning
<1> QED
  BY <1>1, <1>2, <1>3, <1>4

\* One event is written.
LEMMA EventWritten ==
    ASSUME WellKept, NEW k \in Keys, NEW row \in EventType, row.at # "none",
           event' = [event EXCEPT ![k] = row]
    PROVE  EventsGrow
BY DEF WellKept, TypeOK, EventsGrow

\* A step of a worker that writes its event at most.
LEMMA WorkKeeps ==
    ASSUME WellKept, UNCHANGED <<queueVars, cursor, ledger, waived>>, left' \in Budget,
           customers' \in CustomersType, customers'.hard = customers.hard,
           customers'.provider = customers.provider, EventsGrow,
           NEW p \in Processes, NEW q \in RunType, run' = [run EXCEPT ![p] = q], Sound(q)
    PROVE  WellKept'
<1>1. TypeOK
  BY DEF WellKept
<1>2. LedgerGrows /\ WaivedGrow
  BY <1>1 DEF TypeOK, LedgerGrows, Ledgers, WaivedGrow
<1>3. mail' = mail /\ arrived' = arrived
  BY DEF queueVars
<1>4. Sound(q)'
  BY <1>2, <1>3, RunFacts, SoundStays DEF WellKept, TypeOK
<1> QED
  BY <1>2, <1>4, RunKeeps

LEMMA SameCustomers ==
    ASSUME WellKept, customers' = customers
    PROVE  /\ customers' \in CustomersType /\ customers'.hard = customers.hard
           /\ customers'.provider = customers.provider
BY DEF WellKept, TypeOK

LEMMA ClaimKeeps ==
    ASSUME WellKept, NEW p \in Processes, NEW k \in Keys, Claim(p, k)
    PROVE  WellKept'
<1>1. TypeOK /\ event[k] \in EventType
  BY DEF WellKept, TypeOK
<1>2. MaxAttempts \in Nat /\ event[k].attempts \in 0..MaxAttempts /\ event[k].attempts < MaxAttempts
  BY <1>1, ReplyAssumption DEF Claim, Claimable, EventType
<1>3. PICK n \in 0..MaxAttempts : n = event[k].attempts + 1
  BY <1>2
<1>4. PICK row : row = [event[k] EXCEPT !.at = "processing", !.attempts = n, !.lapsed = FALSE, !.due = FALSE]
  OBVIOUS
<1>5. row \in EventType /\ row.at = "processing"
  BY <1>1, <1>3, <1>4 DEF EventType
<1>6. event' = [event EXCEPT ![k] = row]
  BY <1>1, <1>3, <1>4 DEF Claim, TypeOK
<1>7. PICK q : q = [Idle EXCEPT !.at = "read", !.key = k, !.attempt = n]
  OBVIOUS
<1>8. run' = [run EXCEPT ![p] = q]
  BY <1>3, <1>7 DEF Claim
<1>9. k \in Nat
  BY <1>1, MailFacts DEF Keys, TypeOK
<1>10. q \in RunType /\ Sound(q)
  <2>1. n \in Nat
    BY <1>2
  <2> QED
    BY <1>7, <1>9, <2>1 DEF Idle, RunType, Sound, Scanning, Working
<1>11. UNCHANGED <<queueVars, cursor, ledger, waived>> /\ left' = left /\ customers' = customers
  BY DEF Claim, mailboxVars, queueVars
<1> QED
  BY <1>5, <1>6, <1>8, <1>10, <1>11, RunFacts, SameCustomers, EventWritten, WorkKeeps

\* Those that leave events, ledger and customers alone.
LEMMA QueueIdles ==
    ASSUME WellKept, NEW p \in Processes,
           \/ QueueEmpty(p) \/ ReadEvent(p) \/ Classify(p) \/ WorkFails(p) \/ FailLost(p) \/ Crash(p)
    PROVE  WellKept'
<1>1. left' \in Budget /\ UNCHANGED <<queueVars, customers, cursor, event, ledger, waived>>
  <2>1. left \in Budget
    BY RunFacts
  <2>2. left' = left \/ Spend("faults") \/ Spend("crashes")
    BY DEF QueueEmpty, ReadEvent, Classify, WorkFails, FailLost, Crash, mailboxVars
  <2> QED
    BY <2>1, <2>2, SpendKeeps
       DEF QueueEmpty, ReadEvent, Classify, WorkFails, FailLost, Crash, mailboxVars, queueVars
<1>2. CASE QueueEmpty(p) \/ FailLost(p) \/ Crash(p)
  BY <1>1, <1>2, IdleSound, RunOnly DEF QueueEmpty, FailLost, Crash
<1>3. CASE ReadEvent(p) \/ Classify(p) \/ WorkFails(p)
  <2>1. run[p].at \in Working
    BY <1>3 DEF ReadEvent, Classify, WorkFails, Working
  <2>2. PICK x \in Working : run' = [run EXCEPT ![p].at = x]
    BY <1>3 DEF ReadEvent, Classify, WorkFails, Working
  <2>3. run' = [run EXCEPT ![p] = [run[p] EXCEPT !.at = x]]
    BY <2>2, RunFacts
  <2> QED
    BY <1>1, <2>1, <2>3, WorkSound, RunOnly
<1> QED
  BY <1>2, <1>3

\* Blocking a customer counts no bounce.
LEMMA BlocklistedFacts ==
    ASSUME WellKept, NEW c \in Customers \cup {0}, NEW complaint \in BOOLEAN, c \in customers.found
    PROVE  /\ Blocklisted(c, complaint) \in CustomersType
           /\ Blocklisted(c, complaint).hard = customers.hard
           /\ Blocklisted(c, complaint).provider = customers.provider
<1>1. customers \in CustomersType
  BY DEF WellKept, TypeOK
<1>2. PICK B \in SUBSET Customers, C \in SUBSET Customers :
         /\ B = customers.blocked \cup {c}
         /\ C = IF complaint THEN customers.bounced \cup {c} ELSE customers.bounced
  BY <1>1 DEF CustomersType
<1>3. Blocklisted(c, complaint) = [customers EXCEPT !.blocked = B, !.bounced = C]
  BY <1>2 DEF Blocklisted
<1> QED
  BY <1>1, <1>3 DEF CustomersType

\* Those that write the event they hold.
LEMMA WorkWrites ==
    ASSUME WellKept, NEW p \in Processes,
           ApplyReplyAIAction(p) \/ FinishReplyAIEvent(p) \/ FailReplyAIEvent(p)
    PROVE  WellKept'
<1>1. run[p].at \in Working /\ UNCHANGED <<queueVars, left, cursor, ledger, waived>>
  BY DEF ApplyReplyAIAction, FinishReplyAIEvent, FailReplyAIEvent, Working, mailboxVars, queueVars
<1>2. PICK k \in Keys : k = run[p].key
  BY <1>1, WorkSound
<1>3. TypeOK /\ event[k] \in EventType /\ left' \in Budget
  BY <1>1, RunFacts DEF WellKept, TypeOK
<1>4. EventsGrow
  <2>1. CASE event' = event
    BY <1>3, <2>1 DEF EventsGrow, TypeOK
  <2>2. CASE event' = [event EXCEPT ![k].at = "processed", ![k].body = FALSE]
    <3>1. PICK row : row = [event[k] EXCEPT !.at = "processed", !.body = FALSE]
      OBVIOUS
    <3>2. row \in EventType /\ row.at = "processed" /\ event' = [event EXCEPT ![k] = row]
      BY <1>3, <2>2, <3>1 DEF EventType, TypeOK
    <3> QED
      BY <3>2, EventWritten
  <2>3. CASE event' = [event EXCEPT ![k].at = "ignored", ![k].body = FALSE]
    <3>1. PICK row : row = [event[k] EXCEPT !.at = "ignored", !.body = FALSE]
      OBVIOUS
    <3>2. row \in EventType /\ row.at = "ignored" /\ event' = [event EXCEPT ![k] = row]
      BY <1>3, <2>3, <3>1 DEF EventType, TypeOK
    <3> QED
      BY <3>2, EventWritten
  <2>4. CASE event' = [event EXCEPT ![k].at = "failed", ![k].due = FALSE,
                                    ![k].body = @ /\ event[k].attempts < MaxAttempts]
    <3>1. PICK b \in BOOLEAN : b = (event[k].body /\ event[k].attempts < MaxAttempts)
      OBVIOUS
    <3>2. PICK row : row = [event[k] EXCEPT !.at = "failed", !.due = FALSE, !.body = b]
      OBVIOUS
    <3>3. row \in EventType /\ row.at = "failed"
      BY <1>3, <3>1, <3>2 DEF EventType
    <3>4. event' = [event EXCEPT ![k] = row]
      BY <1>3, <2>4, <3>1, <3>2 DEF TypeOK
    <3> QED
      BY <3>3, <3>4, EventWritten
  <2> QED
    BY <1>2, <2>1, <2>2, <2>3, <2>4 DEF ApplyReplyAIAction, FinishReplyAIEvent, FailReplyAIEvent
<1>5. /\ customers' \in CustomersType /\ customers'.hard = customers.hard
      /\ customers'.provider = customers.provider
  <2>1. CASE customers' = customers
    BY <2>1, SameCustomers
  <2>2. CASE ApplyReplyAIAction(p) /\ customers' # customers
    <3>1. Permitted(k)
      BY <1>2, <2>2 DEF ApplyReplyAIAction
    <3>2. PICK complaint \in BOOLEAN : customers' = Blocklisted(event[k].from, complaint)
      BY <1>2, <2>2 DEF ApplyReplyAIAction
    <3>3. event[k].from \in Customers \cup {0} /\ event[k].from \in customers.found
      BY <1>3, <3>1 DEF EventType, Permitted
    <3> QED
      BY <3>2, <3>3, BlocklistedFacts
  <2> QED
    BY <2>1, <2>2 DEF FinishReplyAIEvent, FailReplyAIEvent, mailboxVars
<1>6. CASE run' = [run EXCEPT ![p] = [Idle EXCEPT !.at = "queue"]]
  BY <1>1, <1>3, <1>4, <1>5, <1>6, IdleSound, WorkKeeps
<1>7. CASE run' = [run EXCEPT ![p].at = "finish"]
  <2>1. run' = [run EXCEPT ![p] = [run[p] EXCEPT !.at = "finish"]] /\ "finish" \in Working
    BY <1>7, RunFacts DEF Working
  <2> QED
    BY <1>1, <1>3, <1>4, <1>5, <2>1, WorkSound, WorkKeeps
<1> QED
  BY <1>6, <1>7 DEF ApplyReplyAIAction, FinishReplyAIEvent, FailReplyAIEvent
-----------------------------------------------------------------------------
(* What happens around the scans and the queue. *)

MailboxType ==
    [conn : Conns, verified : BOOLEAN, scanning : BOOLEAN, ai : BOOLEAN, bounce : BOOLEAN,
     status : {"pending", "active", "disabled", "retained"}]

\* No process moves, and nothing is read.
LEMMA AroundCounts ==
    ASSUME WellKept, UNCHANGED <<run, cursor, ledger, waived, mail>>, EventsGrow,
           arrived' \in 0..Len(mail), arrived <= arrived', left' \in Budget,
           mailbox' \in MailboxType, mailbox'.verified => mailbox'.conn \in Good,
           settings' \in [ai : BOOLEAN, bounce : BOOLEAN],
           rule' \in {"none", "active", "disabled"},
           customers' \in CustomersType, Counts'
    PROVE  WellKept'
<1>1. TypeOK /\ CoveredUpTo(cursor.uid) /\ \A p \in Processes : Sound(run[p])
  BY DEF WellKept
<1>2. mail \in Mailing /\ arrived \in 0..Len(mail) /\ cursor.uid \in Nat /\ cursor.uid <= arrived
      /\ Len(mail) \in Nat /\ arrived \in Nat /\ arrived' \in Nat
  BY <1>1, MailFacts DEF TypeOK
<1>3. Messages' = Messages /\ Keys' = Keys
  BY DEF Messages, Keys
<1>4. LedgerGrows /\ WaivedGrow
  BY <1>1 DEF TypeOK, LedgerGrows, Ledgers, WaivedGrow
<1>5. CoveredUpTo(cursor.uid)'
  <2>1. PICK n : n = cursor.uid
    OBVIOUS
  <2>2. CoveredUpTo(n)'
    BY <1>1, <1>2, <1>4, <2>1, CoveredUpToStays
  <2> QED
    BY <2>1, <2>2
<1>6. ASSUME NEW p \in Processes
      PROVE  Sound(run[p])'
  <2>1. PICK r \in RunType : r = run[p]
    BY <1>1 DEF TypeOK
  <2>2. Sound(r)'
    BY <1>1, <1>2, <1>4, <2>1, SoundStays
  <2> QED
    BY <2>1, <2>2
<1>7. cursor'.uid <= arrived'
  BY <1>2
<1>8. TypeOK'
  BY <1>1, <1>2, <1>3, <1>4, <1>7 DEF TypeOK, EventsGrow, WaivedGrow, MailboxType
<1> QED
  BY <1>5, <1>6, <1>8 DEF WellKept, Counts

\* And nothing is counted.
LEMMA AroundKeeps ==
    ASSUME WellKept, UNCHANGED <<run, cursor, ledger, waived, mail>>, EventsGrow,
           arrived' \in 0..Len(mail), arrived <= arrived', left' \in Budget,
           mailbox' \in MailboxType, mailbox'.verified => mailbox'.conn \in Good,
           settings' \in [ai : BOOLEAN, bounce : BOOLEAN],
           rule' \in {"none", "active", "disabled"},
           customers' \in CustomersType, customers'.hard = customers.hard,
           customers'.provider = customers.provider
    PROVE  WellKept'
<1>1. Counts /\ Keys' = Keys
  BY Parts DEF Keys, Messages
<1>2. \A c \in Customers : Counted(c)' = Counted(c)
  BY <1>1 DEF Counted
<1>3. Counts'
  BY <1>1, <1>2 DEF Counts
<1> QED
  BY <1>3, AroundCounts

\* The state around the scans.
LEMMA AroundFacts ==
    ASSUME WellKept
    PROVE  /\ mailbox \in MailboxType /\ (mailbox.verified => mailbox.conn \in Good)
           /\ settings \in [ai : BOOLEAN, bounce : BOOLEAN]
           /\ rule \in {"none", "active", "disabled"} /\ left \in Budget
           /\ customers \in CustomersType /\ Counts
           /\ arrived \in 0..Len(mail) /\ arrived \in Nat /\ arrived <= arrived /\ Len(mail) \in Nat
<1>1. TypeOK /\ Counts
  BY Parts
<1> QED
  BY <1>1, MailFacts DEF WellKept, TypeOK, MailboxType

LEMMA NoEventWritten ==
    ASSUME WellKept, UNCHANGED event
    PROVE  EventsGrow
BY DEF WellKept, TypeOK, EventsGrow

\* The owner's requests and the rest of what changes the mailbox alone.
LEMMA OwnerKeeps ==
    ASSUME WellKept, UNCHANGED scanVars,
           \/ \E form \in Forms : UpdateReplyMailbox(form)
           \/ TestReplyMailbox \/ TestAnswered \/ DisableReplyMailbox \/ EnableReplyMailbox
           \/ RetainMailbox
    PROVE  WellKept'
<1>1. UNCHANGED <<run, cursor, ledger, waived, mail, arrived, settings, customers, rule>> /\ EventsGrow
  BY NoEventWritten DEF scanVars, UpdateReplyMailbox, TestReplyMailbox, TestAnswered,
     DisableReplyMailbox, EnableReplyMailbox, RetainMailbox
<1>2. left' \in Budget
  <2>1. left' = left \/ Spend("edits") \/ Spend("tests")
    BY DEF UpdateReplyMailbox, TestReplyMailbox, TestAnswered, DisableReplyMailbox,
       EnableReplyMailbox, RetainMailbox
  <2> QED
    BY <2>1, AroundFacts, SpendKeeps
<1>3. mailbox' \in MailboxType /\ (mailbox'.verified => mailbox'.conn \in Good)
  <2>1. ASSUME NEW form \in Forms, UpdateReplyMailbox(form)
        PROVE  mailbox' \in MailboxType /\ (mailbox'.verified => mailbox'.conn \in Good)
    <3>1. form \in [conn : Conns, scanning : BOOLEAN, ai : BOOLEAN, bounce : BOOLEAN]
      BY ReplyAssumption
    <3>2. PICK moved \in BOOLEAN : moved = (form.scanning /\ form.conn # mailbox.conn)
      OBVIOUS
    <3>3. PICK v \in BOOLEAN : v = (mailbox.verified /\ ~moved)
      OBVIOUS
    <3>4. PICK c \in Conns : c = IF form.scanning THEN form.conn ELSE mailbox.conn
      BY <3>1, AroundFacts DEF MailboxType
    <3>5. PICK s \in {"pending", "active", "disabled", "retained"} :
             s = IF mailbox.status \in Kept THEN mailbox.status
                 ELSE IF ~form.scanning THEN "active"
                 ELSE IF moved \/ ~mailbox.verified THEN "pending"
                 ELSE mailbox.status
      BY AroundFacts DEF MailboxType
    <3>6. mailbox' = [conn |-> c, verified |-> v, scanning |-> form.scanning, ai |-> form.ai,
                      bounce |-> form.bounce, status |-> s]
      BY <2>1, <3>2, <3>3, <3>4, <3>5 DEF UpdateReplyMailbox
    <3>7. v => c \in Good
      BY <3>2, <3>3, <3>4, AroundFacts
    <3> QED
      BY <3>1, <3>6, <3>7 DEF MailboxType
  <2>2. CASE TestAnswered
    <3>1. PICK s \in {"pending", "active", "disabled", "retained"} :
             s = IF mailbox.status \in Kept THEN mailbox.status ELSE "active"
      BY AroundFacts DEF MailboxType
    <3>2. mailbox' = IF TestApplies THEN [mailbox EXCEPT !.verified = TRUE, !.status = s] ELSE mailbox
      BY <2>2, <3>1, AroundFacts DEF TestAnswered, MailboxType
    <3> QED
      BY <3>2, AroundFacts DEF MailboxType, TestApplies
  <2>3. CASE TestReplyMailbox
    BY <2>3, AroundFacts DEF TestReplyMailbox
  <2>4. CASE DisableReplyMailbox \/ EnableReplyMailbox \/ RetainMailbox
    BY <2>4, AroundFacts DEF DisableReplyMailbox, EnableReplyMailbox, RetainMailbox, MailboxType
  <2> QED
    BY <2>1, <2>2, <2>3, <2>4
<1> QED
  BY <1>1, <1>2, <1>3, AroundFacts, AroundKeeps

\* Memberships, rules, switches and arrivals.
LEMMA SurroundingsKeep ==
    ASSUME WellKept, UNCHANGED scanVars,
           \/ MemberLeaves \/ CreateRule \/ MemberReturns
           \/ \E status \in {"active", "disabled"} : UpdateReplyForwardRule(status)
           \/ \E name \in {"ai", "bounce"} : SwitchSetting(name)
           \/ SwitchOwner \/ Arrive
    PROVE  WellKept'
<1>1. UNCHANGED <<run, cursor, ledger, waived, mail, mailbox, customers>> /\ EventsGrow
  BY NoEventWritten DEF scanVars, MemberLeaves, CreateRule, MemberReturns,
     UpdateReplyForwardRule, SwitchSetting, SwitchOwner, Arrive
<1>2. left' \in Budget
  <2>1. left' = left \/ Spend("leaves") \/ Spend("rules") \/ Spend("switches")
    BY DEF MemberLeaves, CreateRule, MemberReturns, UpdateReplyForwardRule, SwitchSetting,
       SwitchOwner, Arrive
  <2> QED
    BY <2>1, AroundFacts, SpendKeeps
<1>3. arrived' \in 0..Len(mail) /\ arrived <= arrived'
  <2>1. arrived' = arrived \/ (arrived < Len(mail) /\ arrived' = arrived + 1)
    BY DEF MemberLeaves, CreateRule, MemberReturns, UpdateReplyForwardRule, SwitchSetting,
       SwitchOwner, Arrive
  <2> QED
    BY <2>1, AroundFacts
<1>4. rule' \in {"none", "active", "disabled"}
  BY AroundFacts DEF MemberLeaves, CreateRule, MemberReturns, UpdateReplyForwardRule,
     SwitchSetting, SwitchOwner, Arrive
<1>5. settings' \in [ai : BOOLEAN, bounce : BOOLEAN]
  BY AroundFacts DEF MemberLeaves, CreateRule, MemberReturns, UpdateReplyForwardRule,
     SwitchSetting, SwitchOwner, Arrive
<1> QED
  BY <1>1, <1>2, <1>3, <1>4, <1>5, AroundFacts, AroundKeeps

\* Blocking without counting.
LEMMA BlockingKeeps ==
    ASSUME WellKept, UNCHANGED scanVars,
           \/ \E c \in Customers : DeliveryMoves(c) \/ Unblock(c)
           \/ BlocklistBouncedCustomers
    PROVE  WellKept'
<1>1. /\ UNCHANGED <<run, cursor, ledger, waived, mail, mailbox, arrived, settings, rule>>
      /\ EventsGrow
  BY NoEventWritten DEF scanVars, DeliveryMoves, Unblock, BlocklistBouncedCustomers
<1>2. left' \in Budget
  <2>1. Spend("moves") \/ Spend("unblocks") \/ Spend("provider")
    BY DEF DeliveryMoves, Unblock, BlocklistBouncedCustomers
  <2> QED
    BY <2>1, AroundFacts, SpendKeeps
<1>3. /\ customers' \in CustomersType /\ customers'.hard = customers.hard
      /\ customers'.provider = customers.provider
  <2>1. customers \in CustomersType
    BY AroundFacts
  <2>2. PICK B, F : customers' = [customers EXCEPT !.blocked = B, !.found = F]
                    /\ B \in SUBSET Customers /\ F \in SUBSET Customers
    <3>1. ASSUME NEW c \in Customers, DeliveryMoves(c)
          PROVE  \E F \in SUBSET Customers :
                    customers' = [customers EXCEPT !.blocked = customers.blocked, !.found = F]
      <4>1. PICK F \in SUBSET Customers :
                F = IF c \in customers.found THEN customers.found \ {c} ELSE customers.found \cup {c}
        BY <2>1 DEF CustomersType
      <4>2. customers' = [customers EXCEPT !.found = F]
        BY <3>1, <4>1 DEF DeliveryMoves
      <4> QED
        BY <2>1, <4>2 DEF CustomersType
    <3>2. ASSUME NEW c \in Customers, Unblock(c)
          PROVE  \E B \in SUBSET Customers :
                    customers' = [customers EXCEPT !.blocked = B, !.found = customers.found]
      BY <2>1, <3>2 DEF Unblock, CustomersType
    <3>3. ASSUME BlocklistBouncedCustomers
          PROVE  \E B \in SUBSET Customers :
                    customers' = [customers EXCEPT !.blocked = B, !.found = customers.found]
      BY <2>1, <3>3 DEF BlocklistBouncedCustomers, CustomersType
    <3>4. customers.blocked \in SUBSET Customers /\ customers.found \in SUBSET Customers
      BY <2>1 DEF CustomersType
    <3> QED
      BY <3>1, <3>2, <3>3, <3>4
  <2> QED
    BY <2>1, <2>2 DEF CustomersType
<1> QED
  BY <1>1, <1>2, <1>3, AroundFacts, AroundKeeps

\* A provider's bounce adds one to both counts, or to none.
LEMMA BouncedFacts ==
    ASSUME WellKept, NEW c \in Customers
    PROVE  /\ Bounced(c) \in CustomersType
           /\ \A d \in Customers : Bounced(c).hard[d] - Bounced(c).provider[d]
                                   = customers.hard[d] - customers.provider[d]
<1>1. /\ customers \in CustomersType /\ customers.hard \in [Customers -> Nat]
      /\ customers.provider \in [Customers -> Nat]
  BY AroundFacts DEF CustomersType
<1>2. PICK n \in Nat, m \in Nat : n = customers.hard[c] /\ m = customers.provider[c]
  BY <1>1
<1>3. PICK w \in BOOLEAN : w = (c \notin customers.blocked /\ n + 1 <= Threshold)
  OBVIOUS
<1>4. PICK h \in Nat, q \in Nat : h = (IF w THEN n + 1 ELSE n) /\ q = IF w THEN m + 1 ELSE m
  BY <1>2
<1>5. PICK B \in SUBSET Customers, C \in SUBSET Customers :
         /\ B = IF w THEN customers.bounced \cup {c} ELSE customers.bounced
         /\ C = IF n + 1 >= Threshold THEN customers.blocked \cup {c} ELSE customers.blocked
  BY <1>1 DEF CustomersType
<1>6. PICK H \in [Customers -> Nat], Q \in [Customers -> Nat] :
         H = [customers.hard EXCEPT ![c] = h] /\ Q = [customers.provider EXCEPT ![c] = q]
  BY <1>1, <1>4
<1>7. Bounced(c) = [customers EXCEPT !.hard = H, !.provider = Q, !.bounced = B, !.blocked = C]
  BY <1>1, <1>2, <1>3, <1>4, <1>5, <1>6 DEF Bounced
<1>8. Bounced(c) \in CustomersType /\ Bounced(c).hard = H /\ Bounced(c).provider = Q
  BY <1>1, <1>7 DEF CustomersType
<1>9. h - q = n - m
  BY <1>2, <1>4
<1>10. \A d \in Customers : H[d] - Q[d] = customers.hard[d] - customers.provider[d]
  BY <1>1, <1>2, <1>6, <1>9
<1> QED
  BY <1>8, <1>10

LEMMA ProviderKeeps ==
    ASSUME WellKept, UNCHANGED scanVars, NEW c \in Customers, RecordBounce(c) \/ ResendBounce(c)
    PROVE  WellKept'
<1>1. /\ UNCHANGED <<run, cursor, ledger, waived, mail, mailbox, arrived, settings, rule>>
      /\ EventsGrow
  BY NoEventWritten DEF scanVars, RecordBounce, ResendBounce
<1>2. left' \in Budget
  <2>1. Spend("provider") \/ Spend("resent")
    BY DEF RecordBounce, ResendBounce
  <2> QED
    BY <2>1, AroundFacts, SpendKeeps
<1>3. PICK x \in CustomersType : x = Bounced(c)
  BY BouncedFacts
<1>4. customers' \in CustomersType /\ customers'.hard = x.hard /\ customers'.provider = x.provider
  <2>1. PICK n \in Nat : n = x.told[c] + 1
    BY DEF CustomersType
  <2>2. customers' = x \/ customers' = [x EXCEPT !.told[c] = n]
    BY <1>3, <2>1 DEF RecordBounce, ResendBounce, CustomersType
  <2>3. PICK T \in [Customers -> Nat] : T = [x.told EXCEPT ![c] = n]
    BY DEF CustomersType
  <2>4. customers' = x \/ customers' = [x EXCEPT !.told = T]
    BY <2>2, <2>3 DEF CustomersType
  <2> QED
    BY <2>4 DEF CustomersType
<1>5. Keys' = Keys
  BY <1>1 DEF Keys, Messages
<1>6. ASSUME NEW d \in Customers
      PROVE  customers'.hard[d] = Cardinality(Counted(d)') + customers'.provider[d]
  <2>1. customers.hard[d] = Cardinality(Counted(d)) + customers.provider[d]
    BY AroundFacts DEF Counts
  <2>2. Counted(d)' = Counted(d)
    BY <1>1, <1>5 DEF Counted
  <2>3. x.hard[d] - x.provider[d] = customers.hard[d] - customers.provider[d]
    BY <1>3, BouncedFacts
  <2>4. x.hard[d] \in Nat /\ x.provider[d] \in Nat /\ customers.hard[d] \in Nat
        /\ customers.provider[d] \in Nat
    BY AroundFacts DEF CustomersType
  <2>5. IsFiniteSet(Keys)
    BY MailFacts DEF WellKept, TypeOK
  <2>6. Cardinality(Counted(d)) \in Nat
    BY <2>5, FS_Subset, FS_CardinalityType DEF Counted
  <2> QED
    BY <1>4, <2>1, <2>2, <2>3, <2>4, <2>6
<1>7. Counts'
  BY <1>6 DEF Counts
<1> QED
  BY <1>1, <1>2, <1>4, <1>7, AroundFacts, AroundCounts

\* Two minutes, and five.
LEMMA TimeKeeps ==
    ASSUME WellKept, NEW k \in Keys, Lapse(k) \/ Due(k)
    PROVE  WellKept'
<1>1. /\ UNCHANGED <<run, cursor, ledger, waived, mail, mailbox, arrived, settings, rule, customers>>
  BY DEF Lapse, Due, mailboxVars, queueVars
<1>2. left' \in Budget
  <2>1. left' = left \/ Spend("lapses")
    BY DEF Lapse, Due, mailboxVars
  <2> QED
    BY <2>1, AroundFacts, SpendKeeps
<1>3. event \in [Keys -> EventType] /\ event[k] \in EventType
  BY DEF WellKept, TypeOK
<1>4. PICK row : row = IF Due(k) THEN [event[k] EXCEPT !.due = TRUE] ELSE [event[k] EXCEPT !.lapsed = TRUE]
  OBVIOUS
<1>5. event' = [event EXCEPT ![k] = row] /\ event[k].at # "none"
  <2>1. CASE Due(k)
    BY <1>3, <1>4, <2>1 DEF Due
  <2>2. CASE ~Due(k)
    BY <1>3, <1>4, <2>2 DEF Lapse
  <2> QED
    BY <2>1, <2>2
<1>6. row \in EventType /\ row.at # "none"
  BY <1>3, <1>4, <1>5 DEF EventType
<1>7. EventsGrow
  BY <1>5, <1>6, EventWritten
<1> QED
  BY <1>1, <1>2, <1>7, AroundFacts, AroundKeeps

\* The forwarding touches none of it.
LEMMA RelayKeeps ==
    ASSUME WellKept,
           \/ \E p \in Processes : RelayStep(p)
           \/ \E k \in Keys : Backoff(k) \/ Outlive(k)
    PROVE  WellKept'
<1>1. UNCHANGED <<queueVars, customers, scanVars>>
  BY DEF RelayStep, RelaySelect, RelayDone, RelayClaim, PushMessage, PushFails,
     RecordReplyForwardSuccess, RecordReplyForwardFailure, OutcomeLost, RelayCrash, Backoff,
     Outlive, mailboxVars, queueVars
<1>2. left' \in Budget
  <2>1. \/ left' = left \/ Spend("faults") \/ Spend("crashes")
        \/ left.rounds > 0 /\ left' = [left EXCEPT !.rounds = @ - 1]
    <3>1. ASSUME NEW p \in Processes, RelayStep(p)
          PROVE  \/ left' = left \/ Spend("faults") \/ Spend("crashes")
                 \/ left.rounds > 0 /\ left' = [left EXCEPT !.rounds = @ - 1]
      <4>1. CASE RelayDone(p) \/ PushFails(p) \/ OutcomeLost(p) \/ RelayCrash(p)
        BY <4>1 DEF RelayDone, PushFails, OutcomeLost, RelayCrash
      <4>2. CASE \/ RelayClaim(p) \/ PushMessage(p)
                 \/ RecordReplyForwardSuccess(p) \/ RecordReplyForwardFailure(p)
        BY <4>2 DEF RelayClaim, PushMessage, RecordReplyForwardSuccess, RecordReplyForwardFailure,
           mailboxVars
      <4> QED
        BY <3>1, <4>1, <4>2 DEF RelayStep, RelaySelect
    <3>2. ASSUME NEW k \in Keys, Backoff(k) \/ Outlive(k)
          PROVE  left' = left
      BY <3>2 DEF Backoff, Outlive, mailboxVars
    <3> QED
      BY <3>1, <3>2
  <2>2. CASE left.rounds > 0 /\ left' = [left EXCEPT !.rounds = @ - 1]
    <3>1. PICK n \in Nat : n = left.rounds - 1
      BY <2>2, AroundFacts DEF Budget
    <3> QED
      BY <2>2, <3>1, AroundFacts DEF Budget
  <2> QED
    BY <2>1, <2>2, AroundFacts, SpendKeeps
<1>3. UNCHANGED <<run, cursor, ledger, waived, mail, mailbox, arrived, settings, rule, customers, event>>
  BY <1>1 DEF scanVars, queueVars
<1> QED
  BY <1>2, <1>3, AroundFacts, NoEventWritten, AroundKeeps

LEMMA StutterKeeps ==
    ASSUME WellKept, UNCHANGED vars
    PROVE  WellKept'
<1>1. UNCHANGED <<run, cursor, ledger, waived, mail, mailbox, arrived, settings, rule, customers, event, left>>
  BY DEF vars, mailboxVars, scanVars
<1> QED
  BY <1>1, AroundFacts, NoEventWritten, AroundKeeps

-----------------------------------------------------------------------------
(* The mailbox, the scans and the queue together. *)

LEMMA WellKeptStarts ==
    ASSUME Init
    PROVE  WellKept
<1>1. PICK b \in Bounds : mail = b.mail /\ left = b.left /\ arrived = b.arrived
  BY DEF Init, MailboxInit
<1>2. mail \in Mailing /\ arrived \in 0..Len(mail) /\ left \in Budget
  BY <1>1, ReplyAssumption
<1>3. 0 \in 0..MaxAttempts /\ NoEvent \in EventType
  BY ReplyAssumption DEF NoEvent, EventType
<1>4. (CHOOSE c \in Good : TRUE) \in Good /\ Good \subseteq Conns
  BY ReplyAssumption
<1>5. mailbox.conn \in Good
      /\ mailbox \in [conn : Conns, verified : BOOLEAN, scanning : BOOLEAN, ai : BOOLEAN,
                      bounce : BOOLEAN, status : {"pending", "active", "disabled", "retained"}]
  BY <1>4 DEF Init, MailboxInit
<1>6. customers \in CustomersType
      /\ \A c \in Customers : customers.hard[c] = 0 /\ customers.provider[c] = 0
  BY DEF Init, MailboxInit, CustomersType
<1>7. /\ cursor.uid = 0 /\ cursor \in [conn : Conns \cup {"none"}, uid : Nat]
      /\ event \in [Keys -> EventType]
      /\ ledger \in [Keys -> [Customers -> {"none", "ignored", "hard", "soft", "blocklisted"}]]
      /\ \A k \in Keys, c \in Customers : ledger[k][c] = "none"
      /\ run \in [Processes -> RunType] /\ waived \subseteq Messages
      /\ \A p \in Processes : Sound(run[p])
  BY <1>3, IdleSound DEF Init, ScanInit
<1>8. cursor.uid <= arrived
  <2>1. Len(mail) \in Nat
    BY <1>2, MailFacts
  <2> QED
    BY <1>2, <1>7, <2>1
<1>9. CoveredUpTo(cursor.uid)
  <2>1. \A u \in Messages : u >= 1 /\ u \in Nat
    BY <1>2, MailFacts
  <2> QED
    BY <1>7, <2>1 DEF CoveredUpTo
<1>10. \A c \in Customers : customers.hard[c] = Cardinality(Counted(c)) + customers.provider[c]
  <2>1. \A c \in Customers : Counted(c) = {}
    BY <1>7 DEF Counted
  <2> QED
    BY <1>6, <2>1, FS_EmptySet
<1>11. settings \in [ai : BOOLEAN, bounce : BOOLEAN] /\ rule \in {"none", "active", "disabled"}
  BY DEF Init, MailboxInit
<1>12. TypeOK
  BY <1>2, <1>5, <1>6, <1>7, <1>8, <1>11 DEF TypeOK
<1> QED
  BY <1>5, <1>7, <1>9, <1>10, <1>12 DEF WellKept

LEMMA WellKeptStays ==
    ASSUME WellKept, [Next]_vars
    PROVE  WellKept'
<1>1. CASE MailboxStep /\ UNCHANGED <<scanVars, relayVars>>
  BY <1>1, OwnerKeeps, SurroundingsKeep, BlockingKeeps, ProviderKeeps DEF MailboxStep
<1>2. ASSUME NEW p \in Processes, ScanStep(p)
      PROVE  WellKept'
  BY <1>2, ScanSelectKeeps, ScanOpenKeeps, ScanDoneKeeps, ScanNextKeeps, IngestMessageKeeps,
     IngestReportKeeps, ResolveRecipientKeeps, RecordReplyBounceKeeps, ReportDoneKeeps,
     ScanAdvanceKeeps, ScanFailsKeeps DEF ScanStep
<1>3. ASSUME NEW p \in Processes, QueueStep(p)
      PROVE  WellKept'
  BY <1>3, ClaimKeeps, QueueIdles, WorkWrites DEF QueueStep
<1>4. ASSUME NEW k \in Keys, Lapse(k) \/ Due(k)
      PROVE  WellKept'
  BY <1>4, TimeKeeps
<1>5. CASE (\E p \in Processes : RelayStep(p)) \/ (\E k \in Keys : Backoff(k) \/ Outlive(k))
  BY <1>5, RelayKeeps
<1> QED
  BY <1>1, <1>2, <1>3, <1>4, <1>5, StutterKeeps DEF Next

\* A mailbox is read only under a tested connection, the cursor passes nothing that is not
\* in the database, and bounces are counted once however often a report was read.
THEOREM WellKeptCorrect == Spec => []WellKept
<1>1. Init => WellKept
  BY WellKeptStarts
<1>2. WellKept /\ [Next]_vars => WellKept'
  BY WellKeptStays
<1> QED
  BY <1>1, <1>2, PTL DEF Spec
-----------------------------------------------------------------------------
(* The forwarding. *)

RowType == [at : {"none", "pending", "failed", "forwarded"}, attempts : Nat, ready : BOOLEAN,
            stale : BOOLEAN]
RelayType == [at : {"idle", "visit", "push", "won", "lost"}, uid : Nat, upTo : Nat, attempt : Nat]

LEMMA RelayFacts ==
    ASSUME WellKept, Claimed, NEW p \in Processes
    PROVE  /\ fwd \in [Keys -> RowType] /\ relay \in [Processes -> RelayType]
           /\ handed \in [Keys -> Nat] /\ torn \in [Keys -> Nat]
           /\ relay[p] \in RelayType /\ relay[p].uid <= relay[p].upTo /\ relay[p].upTo <= arrived
           /\ arrived \in Nat /\ arrived <= Len(mail) /\ Len(mail) \in Nat
           /\ Messages = 1..Len(mail) /\ \A u \in Messages : mail[u].key \in Keys
           /\ Relaying(p) =>
                /\ relay[p].uid \in Messages /\ RelayKey(p) \in Keys
                /\ fwd[RelayKey(p)].at = "pending" /\ fwd[RelayKey(p)].attempts = relay[p].attempt
                /\ ~fwd[RelayKey(p)].stale
                /\ \A q \in Processes : Relaying(q) /\ RelayKey(q) = RelayKey(p) => q = p
<1>1. fwd \in [Keys -> RowType] /\ relay \in [Processes -> RelayType]
  BY DEF Claimed, RowType, RelayType
<1>2. /\ arrived \in Nat /\ arrived <= Len(mail) /\ Len(mail) \in Nat
      /\ Messages = 1..Len(mail) /\ \A u \in Messages : mail[u].key \in Keys
  BY AroundFacts, MailFacts DEF WellKept, TypeOK
<1> QED
  BY <1>1, <1>2 DEF Claimed, OwnsRow, RelayKey

\* A step that leaves the rounds where they are.
LEMMA ClaimedAround ==
    ASSUME WellKept, Claimed, mail' = mail, arrived <= arrived', arrived' \in Nat,
           UNCHANGED <<relay, handed, torn>>, fwd' \in [Keys -> RowType],
           \A t \in Processes : Relaying(t) => fwd'[RelayKey(t)] = fwd[RelayKey(t)]
    PROVE  Claimed'
<1>1. Keys' = Keys /\ Messages' = Messages
  BY DEF Keys, Messages
<1>2. ASSUME NEW t \in Processes
      PROVE  /\ relay'[t].uid <= relay'[t].upTo /\ relay'[t].upTo <= arrived'
             /\ Relaying(t)' => /\ relay'[t].uid \in Messages' /\ OwnsRow(t)'
                                /\ ~fwd'[RelayKey(t)'].stale
                                /\ \A q \in Processes : Relaying(q)' /\ RelayKey(q)' = RelayKey(t)' => q = t
  <2>1. relay[t].uid <= relay[t].upTo /\ relay[t].upTo <= arrived'
    BY RelayFacts DEF RelayType
  <2>2. RelayKey(t)' = RelayKey(t) /\ (Relaying(t)' <=> Relaying(t))
    BY DEF RelayKey, Relaying
  <2>3. \A q \in Processes : RelayKey(q)' = RelayKey(q) /\ (Relaying(q)' <=> Relaying(q))
    BY DEF RelayKey, Relaying
  <2>4. Relaying(t) => OwnsRow(t)' /\ ~fwd'[RelayKey(t)'].stale
    BY <2>2, RelayFacts DEF OwnsRow
  <2> QED
    BY <1>1, <2>1, <2>2, <2>3, <2>4, RelayFacts
<1>3. handed \in [Keys -> Nat] /\ torn \in [Keys -> Nat] /\ relay \in [Processes -> RelayType]
  BY DEF Claimed, RelayType
<1> QED
  BY <1>1, <1>2, <1>3 DEF Claimed, RowType, RelayType

\* A step of one round.
LEMMA ClaimedStep ==
    ASSUME WellKept, Claimed, mail' = mail, arrived' = arrived,
           fwd' \in [Keys -> RowType], handed' \in [Keys -> Nat], torn' \in [Keys -> Nat],
           NEW p \in Processes, NEW q \in RelayType, relay' = [relay EXCEPT ![p] = q],
           q.uid <= q.upTo, q.upTo <= arrived,
           q.at \in {"push", "won", "lost"} =>
              /\ q.uid \in Messages /\ fwd'[mail[q.uid].key].at = "pending"
              /\ fwd'[mail[q.uid].key].attempts = q.attempt /\ ~fwd'[mail[q.uid].key].stale
              /\ \A t \in Processes \ {p} : Relaying(t) => RelayKey(t) # mail[q.uid].key,
           \A t \in Processes \ {p} : Relaying(t) => fwd'[RelayKey(t)] = fwd[RelayKey(t)]
    PROVE  Claimed'
<1>1. Keys' = Keys /\ Messages' = Messages
  BY DEF Keys, Messages
<1>2. relay \in [Processes -> RelayType] /\ relay' \in [Processes -> RelayType] /\ relay'[p] = q
      /\ \A t \in Processes \ {p} : relay'[t] = relay[t]
  BY RelayFacts
<1>3. \A t \in Processes \ {p} : RelayKey(t)' = RelayKey(t) /\ (Relaying(t)' <=> Relaying(t))
  BY <1>2 DEF RelayKey, Relaying
<1>4. RelayKey(p)' = mail[q.uid].key /\ (Relaying(p)' <=> q.at \in {"push", "won", "lost"})
  BY <1>2 DEF RelayKey, Relaying
<1>5. ASSUME NEW t \in Processes
      PROVE  /\ relay'[t].uid <= relay'[t].upTo /\ relay'[t].upTo <= arrived'
             /\ Relaying(t)' => /\ relay'[t].uid \in Messages' /\ OwnsRow(t)'
                                /\ ~fwd'[RelayKey(t)'].stale
                                /\ \A s \in Processes : Relaying(s)' /\ RelayKey(s)' = RelayKey(t)' => s = t
  <2>1. CASE t = p
    <3>1. relay'[t].uid <= relay'[t].upTo /\ relay'[t].upTo <= arrived'
      BY <1>2, <2>1
    <3>2. ASSUME Relaying(t)'
          PROVE  /\ relay'[t].uid \in Messages' /\ OwnsRow(t)' /\ ~fwd'[RelayKey(t)'].stale
                 /\ \A s \in Processes : Relaying(s)' /\ RelayKey(s)' = RelayKey(t)' => s = t
      BY <1>1, <1>2, <1>3, <1>4, <2>1, <3>2 DEF OwnsRow
    <3> QED
      BY <3>1, <3>2
  <2>2. CASE t # p
    <3>1. relay'[t].uid <= relay'[t].upTo /\ relay'[t].upTo <= arrived'
      BY <1>2, <2>2, RelayFacts
    <3>2. ASSUME Relaying(t)'
          PROVE  /\ relay'[t].uid \in Messages' /\ OwnsRow(t)' /\ ~fwd'[RelayKey(t)'].stale
                 /\ \A s \in Processes : Relaying(s)' /\ RelayKey(s)' = RelayKey(t)' => s = t
      <4>1. Relaying(t) /\ RelayKey(t)' = RelayKey(t) /\ relay'[t] = relay[t]
        BY <1>2, <1>3, <2>2, <3>2
      <4>2. /\ relay[t].uid \in Messages /\ fwd[RelayKey(t)].at = "pending"
            /\ fwd[RelayKey(t)].attempts = relay[t].attempt /\ ~fwd[RelayKey(t)].stale
            /\ \A s \in Processes : Relaying(s) /\ RelayKey(s) = RelayKey(t) => s = t
        BY <4>1, RelayFacts
      <4>3. fwd'[RelayKey(t)] = fwd[RelayKey(t)]
        BY <2>2, <4>1
      <4>4. ASSUME NEW s \in Processes, Relaying(s)', RelayKey(s)' = RelayKey(t)'
            PROVE  s = t
        <5>1. CASE s = p
          BY <1>4, <2>2, <4>1, <4>4, <5>1
        <5>2. CASE s # p
          BY <1>3, <4>1, <4>2, <4>4, <5>2
        <5> QED
          BY <5>1, <5>2
      <4> QED
        BY <1>1, <4>1, <4>2, <4>3, <4>4 DEF OwnsRow
    <3> QED
      BY <3>1, <3>2
  <2> QED
    BY <2>1, <2>2
<1> QED
  BY <1>1, <1>2, <1>5 DEF Claimed, RowType, RelayType

\* What is counted of a message: handed over, told, or about to be told.
Won(k) == {p \in Processes : relay[p].at = "won" /\ RelayKey(p) = k}

Once(k) == handed[k] = torn[k] + (IF fwd[k].at = "forwarded" THEN 1 ELSE 0) + Cardinality(Won(k))

LEMMA OnceEach == ForwardedOnce <=> Claimed /\ \A k \in Keys : Once(k)
BY DEF ForwardedOnce, Once, Won

LEMMA WonFacts ==
    ASSUME WellKept, Claimed, NEW p \in Processes
    PROVE  /\ relay[p].at = "won" => RelayKey(p) \in Keys /\ Won(RelayKey(p)) = {p}
           /\ relay[p].at \in {"push", "lost"} => RelayKey(p) \in Keys /\ Won(RelayKey(p)) = {}
BY RelayFacts DEF Won, Relaying

LEMMA WonStep ==
    ASSUME WellKept, Claimed, mail' = mail,
           NEW p \in Processes, NEW q \in RelayType, relay' = [relay EXCEPT ![p] = q]
    PROVE  \A k \in Keys : Won(k)' = IF q.at = "won" /\ mail[q.uid].key = k
                                     THEN Won(k) \cup {p} ELSE Won(k) \ {p}
<1>1. relay'[p] = q /\ \A t \in Processes \ {p} : relay'[t] = relay[t]
  BY RelayFacts
<1> QED
  BY <1>1 DEF Won, RelayKey

\* A step of a round in which no message was handed over or has just been.
LEMMA OnceSame ==
    ASSUME WellKept, Claimed, mail' = mail, UNCHANGED <<handed, torn>>,
           NEW p \in Processes, NEW q \in RelayType, relay' = [relay EXCEPT ![p] = q],
           relay[p].at # "won", q.at # "won",
           \A k \in Keys : fwd'[k].at = "forwarded" <=> fwd[k].at = "forwarded",
           \A k \in Keys : Once(k)
    PROVE  \A k \in Keys' : Once(k)'
<1>1. Keys' = Keys
  BY DEF Keys, Messages
<1>2. ASSUME NEW k \in Keys
      PROVE  Won(k)' = Won(k)
  <2>1. p \notin Won(k)
    BY DEF Won
  <2>2. Won(k)' = Won(k) \ {p}
    BY WonStep
  <2> QED
    BY <2>1, <2>2
<1> QED
  BY <1>1, <1>2 DEF Once

\* The claim of a round is the only one of its message.
LEMMA RelayClaimOnce ==
    ASSUME WellKept, ForwardedOnce, NEW p \in Processes, RelayClaim(p)
    PROVE  ForwardedOnce'
<1>1. Claimed /\ \A k \in Keys : Once(k)
  BY OnceEach
<1>2. UNCHANGED <<mail, arrived, handed, torn>> /\ relay[p].at = "visit" /\ relay[p].uid < relay[p].upTo
  BY DEF RelayClaim, mailboxVars
<1>3. PICK u \in Nat : u = relay[p].uid + 1
  BY <1>1, RelayFacts DEF RelayType
<1>4. relay[p].uid \in Nat /\ relay[p].upTo \in Nat /\ relay[p].upTo <= arrived
  BY <1>1, RelayFacts DEF RelayType
<1>5. u \in Messages /\ u <= relay[p].upTo
  BY <1>1, <1>2, <1>3, <1>4, RelayFacts
<1>6. PICK k \in Keys : k = mail[u].key
  BY <1>1, <1>5, RelayFacts
<1>7. PICK mine \in BOOLEAN : mine = (Forwardable(mail[u]) /\ ClaimableRow(k))
  OBVIOUS
<1>8. fwd \in [Keys -> RowType] /\ fwd[k] \in RowType
  BY <1>1, RelayFacts
<1>9. PICK n \in Nat : n = fwd[k].attempts + 1
  BY <1>8 DEF RowType
<1>10. PICK row \in RowType : row = [at |-> "pending", attempts |-> n, ready |-> FALSE, stale |-> FALSE]
  BY DEF RowType
<1>11. PICK x, a : x = (IF mine THEN "push" ELSE "visit") /\ a = IF mine THEN n ELSE 0
  OBVIOUS
<1>12. PICK q : q = [relay[p] EXCEPT !.uid = u, !.at = x, !.attempt = a]
  OBVIOUS
<1>13. relay' = [relay EXCEPT ![p] = q]
       /\ fwd' = IF mine THEN [fwd EXCEPT ![k] = row] ELSE fwd
  BY <1>3, <1>6, <1>7, <1>8, <1>9, <1>10, <1>11, <1>12 DEF RelayClaim
<1>14. q \in RelayType /\ q.at = x /\ q.uid = u /\ q.upTo = relay[p].upTo /\ q.attempt = a
  BY <1>1, <1>9, <1>11, <1>12, RelayFacts DEF RelayType
<1>15. mine => fwd[k].at # "forwarded" /\ \A t \in Processes : Relaying(t) => RelayKey(t) # k
  BY <1>1, <1>7, RelayFacts DEF ClaimableRow
<1>16. fwd' \in [Keys -> RowType] /\ (mine => fwd'[k] = row)
       /\ \A h \in Keys : h # k \/ ~mine => fwd'[h] = fwd[h]
  BY <1>8, <1>13
<1>17. Claimed'
  <2>1. \A t \in Processes \ {p} : Relaying(t) => fwd'[RelayKey(t)] = fwd[RelayKey(t)]
    BY <1>1, <1>15, <1>16, RelayFacts
  <2>2. ~mine => q.at \notin {"push", "won", "lost"}
    BY <1>11, <1>14
  <2>3. mine => /\ q.uid \in Messages /\ fwd'[mail[q.uid].key].at = "pending"
                /\ fwd'[mail[q.uid].key].attempts = q.attempt /\ ~fwd'[mail[q.uid].key].stale
                /\ \A t \in Processes \ {p} : Relaying(t) => RelayKey(t) # mail[q.uid].key
    BY <1>5, <1>6, <1>10, <1>11, <1>14, <1>15, <1>16
  <2>4. handed' \in [Keys -> Nat] /\ torn' \in [Keys -> Nat]
    BY <1>1, <1>2, RelayFacts
  <2> QED
    BY <1>1, <1>2, <1>4, <1>5, <1>13, <1>14, <1>16, <2>1, <2>2, <2>3, <2>4, ClaimedStep
<1>18. \A h \in Keys : fwd'[h].at = "forwarded" <=> fwd[h].at = "forwarded"
  BY <1>10, <1>15, <1>16
<1>19. relay[p].at # "won" /\ q.at # "won"
  BY <1>2, <1>11, <1>14
<1>20. \A h \in Keys' : Once(h)'
  BY <1>1, <1>2, <1>13, <1>14, <1>18, <1>19, OnceSame
<1> QED
  BY <1>17, <1>20 DEF ForwardedOnce, Once, Won

\* The rounds, and the failures of those that have handed nothing over.
LEMMA RelayIdles ==
    ASSUME WellKept, ForwardedOnce, NEW p \in Processes,
           \/ RelaySelect(p) \/ RelayDone(p) \/ PushFails(p)
           \/ RelayCrash(p) /\ relay[p].at # "won"
           \/ OutcomeLost(p) /\ relay[p].at # "won"
    PROVE  ForwardedOnce'
<1>1. Claimed /\ \A k \in Keys : Once(k)
  BY OnceEach
<1>2. /\ UNCHANGED <<mail, arrived, handed, fwd>> /\ relay[p].at # "won"
  BY DEF RelaySelect, RelayDone, PushFails, RelayCrash, OutcomeLost, queueVars
<1>3. UNCHANGED torn
  <2>1. CASE OutcomeLost(p)
    <3>1. torn' = [torn EXCEPT ![RelayKey(p)] = torn[RelayKey(p)]]
      BY <1>2, <2>1 DEF OutcomeLost
    <3>2. torn \in [Keys -> Nat]
      BY <1>1, RelayFacts
    <3> QED
      BY <3>1, <3>2
  <2>2. CASE ~OutcomeLost(p)
    BY <1>2, <2>2 DEF RelaySelect, RelayDone, PushFails, RelayCrash
  <2> QED
    BY <2>1, <2>2
<1>4. PICK q \in RelayType :
         /\ relay' = [relay EXCEPT ![p] = q] /\ q.uid <= q.upTo /\ q.upTo <= arrived /\ q.at # "won"
         /\ q.at = "lost" => q.uid = relay[p].uid /\ q.attempt = relay[p].attempt /\ Relaying(p)
         /\ q.at # "push"
  <2>1. CASE RelaySelect(p)
    <3>1. PICK q : q = [AtRest EXCEPT !.at = "visit", !.upTo = arrived]
      OBVIOUS
    <3>2. arrived \in Nat
      BY <1>1, RelayFacts
    <3>3. q \in RelayType /\ q.uid = 0 /\ q.upTo = arrived /\ q.at = "visit"
      BY <3>1, <3>2 DEF AtRest, RelayType
    <3>4. relay' = [relay EXCEPT ![p] = q]
      BY <2>1, <3>1 DEF RelaySelect
    <3>5. /\ relay' = [relay EXCEPT ![p] = q] /\ q.uid <= q.upTo /\ q.upTo <= arrived /\ q.at # "won"
          /\ q.at = "lost" => q.uid = relay[p].uid /\ q.attempt = relay[p].attempt /\ Relaying(p)
          /\ q.at # "push"
      BY <3>2, <3>3, <3>4
    <3> QED
      BY <3>3, <3>5
  <2>2. CASE RelayDone(p) \/ RelayCrash(p)
    <3>1. arrived \in Nat
      BY <1>1, RelayFacts
    <3>2. AtRest \in RelayType /\ AtRest.uid = 0 /\ AtRest.upTo = 0 /\ AtRest.at = "idle"
      BY DEF AtRest, RelayType
    <3>3. relay' = [relay EXCEPT ![p] = AtRest]
      BY <2>2 DEF RelayDone, RelayCrash
    <3>4. /\ relay' = [relay EXCEPT ![p] = AtRest] /\ AtRest.uid <= AtRest.upTo /\ AtRest.upTo <= arrived /\ AtRest.at # "won"
          /\ AtRest.at = "lost" => AtRest.uid = relay[p].uid /\ AtRest.attempt = relay[p].attempt /\ Relaying(p)
          /\ AtRest.at # "push"
      BY <3>1, <3>2, <3>3
    <3> QED
      BY <3>2, <3>4
  <2>3. CASE PushFails(p) \/ OutcomeLost(p)
    <3>1. PICK x : x = IF PushFails(p) THEN "lost" ELSE "visit"
      OBVIOUS
    <3>2. PICK q : q = [relay[p] EXCEPT !.at = x]
      OBVIOUS
    <3>3. relay' = [relay EXCEPT ![p] = q]
      BY <1>1, <2>3, <3>1, <3>2, RelayFacts DEF PushFails, OutcomeLost
    <3>4. q \in RelayType /\ q.at = x /\ q.uid = relay[p].uid /\ q.upTo = relay[p].upTo
          /\ q.attempt = relay[p].attempt
      BY <1>1, <3>1, <3>2, RelayFacts DEF RelayType
    <3>5. x = "lost" => Relaying(p)
      BY <3>1 DEF PushFails, Relaying
    <3> QED
      BY <1>1, <3>1, <3>3, <3>4, <3>5, RelayFacts
  <2> QED
    BY <2>1, <2>2, <2>3
<1>5. q.at \in {"push", "won", "lost"} =>
         /\ q.uid \in Messages /\ fwd[mail[q.uid].key].at = "pending"
         /\ fwd[mail[q.uid].key].attempts = q.attempt /\ ~fwd[mail[q.uid].key].stale
         /\ \A t \in Processes \ {p} : Relaying(t) => RelayKey(t) # mail[q.uid].key
  BY <1>1, <1>4, RelayFacts DEF RelayKey
<1>6. fwd \in [Keys -> RowType] /\ handed \in [Keys -> Nat] /\ torn \in [Keys -> Nat]
  BY <1>1, RelayFacts
<1>7. Claimed'
  BY <1>1, <1>2, <1>3, <1>4, <1>5, <1>6, ClaimedStep
<1>8. \A k \in Keys' : Once(k)'
  BY <1>1, <1>2, <1>3, <1>4, OnceSame
<1> QED
  BY <1>7, <1>8 DEF ForwardedOnce, Once, Won

\* A message is handed over by the one that holds its claim.
LEMMA PushOnce ==
    ASSUME WellKept, ForwardedOnce, NEW p \in Processes, PushMessage(p)
    PROVE  ForwardedOnce'
<1>1. Claimed /\ \A k \in Keys : Once(k)
  BY OnceEach
<1>2. UNCHANGED <<mail, arrived, torn, fwd>> /\ relay[p].at = "push" /\ Relaying(p)
  BY DEF PushMessage, mailboxVars, Relaying
<1>3. PICK k \in Keys : k = RelayKey(p) /\ Won(k) = {}
  BY <1>1, <1>2, WonFacts
<1>4. PICK q : q = [relay[p] EXCEPT !.at = "won"]
  OBVIOUS
<1>5. handed \in [Keys -> Nat] /\ torn \in [Keys -> Nat] /\ fwd \in [Keys -> RowType]
  BY <1>1, RelayFacts
<1>6. PICK n \in Nat : n = handed[k] + 1
  BY <1>5
<1>7. relay' = [relay EXCEPT ![p] = q] /\ handed' = [handed EXCEPT ![k] = n]
  BY <1>1, <1>3, <1>4, <1>6, RelayFacts DEF PushMessage
<1>8. q \in RelayType /\ q.at = "won" /\ q.uid = relay[p].uid /\ q.upTo = relay[p].upTo
      /\ q.attempt = relay[p].attempt
  BY <1>1, <1>4, RelayFacts DEF RelayType
<1>9. handed' \in [Keys -> Nat] /\ handed'[k] = n /\ \A h \in Keys \ {k} : handed'[h] = handed[h]
  BY <1>5, <1>7
<1>10. mail[q.uid].key = k
  BY <1>3, <1>8 DEF RelayKey
<1>11. Claimed'
  <2>1. q.uid \in Messages /\ q.uid <= q.upTo /\ q.upTo <= arrived
    BY <1>1, <1>2, <1>8, RelayFacts
  <2>2. /\ fwd[k].at = "pending" /\ fwd[k].attempts = q.attempt /\ ~fwd[k].stale
        /\ \A t \in Processes \ {p} : Relaying(t) => RelayKey(t) # k
    BY <1>1, <1>2, <1>3, <1>8, RelayFacts
  <2>3. handed' \in [Keys -> Nat] /\ torn' \in [Keys -> Nat] /\ fwd' \in [Keys -> RowType]
    BY <1>2, <1>5, <1>9
  <2>4. \A t \in Processes \ {p} : Relaying(t) => fwd'[RelayKey(t)] = fwd[RelayKey(t)]
    BY <1>2
  <2> QED
    BY <1>1, <1>2, <1>7, <1>8, <1>10, <2>1, <2>2, <2>3, <2>4, ClaimedStep
<1>12. ASSUME NEW h \in Keys
       PROVE  Once(h)'
  <2>1. Once(h) /\ Won(h)' = IF k = h THEN Won(h) \cup {p} ELSE Won(h) \ {p}
    BY <1>1, <1>2, <1>7, <1>8, <1>10, WonStep
  <2>2. CASE h = k
    <3>1. Won(h)' = {p}
      BY <1>3, <2>1, <2>2
    <3>2. Cardinality({p}) = 1 /\ Cardinality({}) = 0
      BY FS_Singleton, FS_EmptySet
    <3>3. Cardinality(Won(h)) = 0 /\ Cardinality(Won(h)') = 1
      BY <1>3, <2>2, <3>1, <3>2
    <3>4. handed'[h] = handed[h] + 1 /\ torn' = torn /\ fwd' = fwd
      BY <1>2, <1>6, <1>9, <2>2
    <3>5. handed[h] \in Nat /\ torn[h] \in Nat
      BY <1>5
    <3> QED
      BY <2>1, <3>3, <3>4, <3>5 DEF Once
  <2>3. CASE h # k
    <3>1. Won(h)' = Won(h)
      BY <1>2, <1>3, <2>1, <2>3 DEF Won
    <3> QED
      BY <1>2, <1>9, <2>1, <2>3, <3>1 DEF Once
  <2> QED
    BY <2>2, <2>3
<1>13. Keys' = Keys
  BY <1>2 DEF Keys, Messages
<1> QED
  BY <1>11, <1>12, <1>13 DEF ForwardedOnce, Once, Won

\* The outcome of a message that was handed over: it is written, or lost.
LEMMA WonOnce ==
    ASSUME WellKept, ForwardedOnce, NEW p \in Processes, relay[p].at = "won",
           RecordReplyForwardSuccess(p) \/ OutcomeLost(p) \/ RelayCrash(p)
    PROVE  ForwardedOnce'
<1>1. Claimed /\ \A k \in Keys : Once(k)
  BY OnceEach
<1>2. UNCHANGED <<mail, arrived, handed>> /\ Relaying(p)
  BY DEF RecordReplyForwardSuccess, OutcomeLost, RelayCrash, mailboxVars, queueVars, Relaying
<1>3. PICK k \in Keys : k = RelayKey(p) /\ Won(k) = {p}
  BY <1>1, WonFacts
<1>4. handed \in [Keys -> Nat] /\ torn \in [Keys -> Nat] /\ fwd \in [Keys -> RowType]
  BY <1>1, RelayFacts
<1>5. fwd[k] \in RowType /\ fwd[k].at = "pending" /\ OwnsRow(p)
      /\ \A t \in Processes : Relaying(t) /\ RelayKey(t) = k => t = p
  BY <1>1, <1>2, <1>3, <1>4, RelayFacts DEF OwnsRow
<1>6. PICK q \in RelayType :
         /\ relay' = [relay EXCEPT ![p] = q] /\ q.uid <= q.upTo /\ q.upTo <= arrived
         /\ q.at \in {"idle", "visit"}
  <2>1. CASE RelayCrash(p)
    <3>1. arrived \in Nat
      BY <1>1, RelayFacts
    <3>2. AtRest \in RelayType /\ AtRest.uid = 0 /\ AtRest.upTo = 0 /\ AtRest.at = "idle"
      BY DEF AtRest, RelayType
    <3>3. relay' = [relay EXCEPT ![p] = AtRest]
      BY <2>1 DEF RelayCrash
    <3>4. AtRest.uid <= AtRest.upTo /\ AtRest.upTo <= arrived /\ AtRest.at \in {"idle", "visit"}
      BY <3>1, <3>2
    <3> QED
      BY <3>2, <3>3, <3>4
  <2>2. CASE RecordReplyForwardSuccess(p) \/ OutcomeLost(p)
    <3>1. PICK q : q = [relay[p] EXCEPT !.at = "visit"]
      OBVIOUS
    <3>2. relay' = [relay EXCEPT ![p] = q]
      BY <1>1, <2>2, <3>1, RelayFacts DEF RecordReplyForwardSuccess, OutcomeLost
    <3>3. q \in RelayType /\ q.at = "visit" /\ q.uid = relay[p].uid /\ q.upTo = relay[p].upTo
      BY <1>1, <3>1, RelayFacts DEF RelayType
    <3>4. q.uid <= q.upTo /\ q.upTo <= arrived /\ q.at \in {"idle", "visit"}
      BY <1>1, <3>3, RelayFacts
    <3> QED
      BY <3>2, <3>3, <3>4
  <2> QED
    BY <2>1, <2>2
<1>7. PICK told \in BOOLEAN : told = RecordReplyForwardSuccess(p)
  BY DEF RecordReplyForwardSuccess
<1>8. PICK row : row = [fwd[k] EXCEPT !.at = "forwarded"]
  OBVIOUS
<1>9. PICK n \in Nat : n = torn[k] + 1
  BY <1>4
<1>10. /\ told => fwd' = [fwd EXCEPT ![k] = row] /\ torn' = torn
       /\ ~told => fwd' = fwd /\ torn' = [torn EXCEPT ![k] = n]
  BY <1>3, <1>4, <1>5, <1>7, <1>8, <1>9
     DEF RecordReplyForwardSuccess, OutcomeLost, RelayCrash, Outlived
<1>11. row \in RowType /\ row.at = "forwarded"
  BY <1>5, <1>8 DEF RowType
<1>12. /\ fwd' \in [Keys -> RowType] /\ torn' \in [Keys -> Nat] /\ handed' \in [Keys -> Nat]
       /\ \A h \in Keys \ {k} : fwd'[h] = fwd[h] /\ torn'[h] = torn[h]
       /\ told => fwd'[k].at = "forwarded" /\ torn'[k] = torn[k]
       /\ ~told => fwd'[k] = fwd[k] /\ torn'[k] = n
  BY <1>2, <1>4, <1>10, <1>11
<1>13. Claimed'
  <2>1. \A t \in Processes \ {p} : Relaying(t) => fwd'[RelayKey(t)] = fwd[RelayKey(t)]
    BY <1>1, <1>5, <1>12, RelayFacts
  <2>2. q.at \notin {"push", "won", "lost"}
    BY <1>6
  <2> QED
    BY <1>1, <1>2, <1>6, <1>12, <2>1, <2>2, ClaimedStep
<1>14. ASSUME NEW h \in Keys
       PROVE  Once(h)'
  <2>1. Once(h) /\ Won(h)' = Won(h) \ {p}
    BY <1>1, <1>2, <1>6, WonStep
  <2>2. CASE h = k
    <3>1. Won(h)' = {}
      BY <1>3, <2>1, <2>2
    <3>2. Cardinality({p}) = 1 /\ Cardinality({}) = 0
      BY FS_Singleton, FS_EmptySet
    <3>3. Cardinality(Won(h)) = 1 /\ Cardinality(Won(h)') = 0
      BY <1>3, <2>2, <3>1, <3>2
    <3>4. handed[h] \in Nat /\ torn[h] \in Nat /\ handed'[h] = handed[h]
      BY <1>2, <1>4
    <3>5. handed[h] = torn[h] + 0 + 1
      BY <1>5, <2>1, <2>2, <3>3 DEF Once
    <3>6. CASE told
      BY <1>12, <2>2, <3>3, <3>4, <3>5, <3>6 DEF Once
    <3>7. CASE ~told
      BY <1>5, <1>9, <1>12, <2>2, <3>3, <3>4, <3>5, <3>7 DEF Once
    <3> QED
      BY <3>6, <3>7
  <2>3. CASE h # k
    <3>1. Won(h)' = Won(h)
      BY <1>3, <2>1, <2>3 DEF Won
    <3> QED
      BY <1>2, <1>12, <2>1, <2>3, <3>1 DEF Once
  <2> QED
    BY <2>2, <2>3
<1>15. Keys' = Keys
  BY <1>2 DEF Keys, Messages
<1> QED
  BY <1>13, <1>14, <1>15 DEF ForwardedOnce, Once, Won

LEMMA FailureOnce ==
    ASSUME WellKept, ForwardedOnce, NEW p \in Processes, RecordReplyForwardFailure(p)
    PROVE  ForwardedOnce'
<1>1. Claimed /\ \A k \in Keys : Once(k)
  BY OnceEach
<1>2. UNCHANGED <<mail, arrived, handed, torn>> /\ relay[p].at = "lost" /\ Relaying(p)
  BY DEF RecordReplyForwardFailure, mailboxVars, Relaying
<1>3. PICK k \in Keys : k = RelayKey(p)
  BY <1>1, <1>2, RelayFacts
<1>4. handed \in [Keys -> Nat] /\ torn \in [Keys -> Nat] /\ fwd \in [Keys -> RowType]
  BY <1>1, RelayFacts
<1>5. fwd[k] \in RowType /\ fwd[k].at = "pending" /\ OwnsRow(p)
      /\ \A t \in Processes : Relaying(t) /\ RelayKey(t) = k => t = p
  BY <1>1, <1>2, <1>3, <1>4, RelayFacts DEF OwnsRow
<1>6. PICK row : row = [fwd[k] EXCEPT !.at = "failed"]
  OBVIOUS
<1>7. row \in RowType /\ row.at = "failed"
  BY <1>5, <1>6 DEF RowType
<1>8. fwd' = [fwd EXCEPT ![k] = row]
  BY <1>3, <1>4, <1>5, <1>6 DEF RecordReplyForwardFailure, Outlived
<1>9. fwd' \in [Keys -> RowType] /\ fwd'[k] = row /\ \A h \in Keys \ {k} : fwd'[h] = fwd[h]
  BY <1>4, <1>7, <1>8
<1>10. PICK q : q = [relay[p] EXCEPT !.at = "visit"]
  OBVIOUS
<1>11. relay' = [relay EXCEPT ![p] = q]
  BY <1>1, <1>10, RelayFacts DEF RecordReplyForwardFailure
<1>12. q \in RelayType /\ q.at = "visit" /\ q.uid = relay[p].uid /\ q.upTo = relay[p].upTo
  BY <1>1, <1>10, RelayFacts DEF RelayType
<1>13. Claimed'
  <2>1. \A t \in Processes \ {p} : Relaying(t) => fwd'[RelayKey(t)] = fwd[RelayKey(t)]
    BY <1>1, <1>5, <1>9, RelayFacts
  <2>2. q.at \notin {"push", "won", "lost"} /\ q.uid <= q.upTo /\ q.upTo <= arrived
    BY <1>1, <1>12, RelayFacts
  <2> QED
    BY <1>1, <1>2, <1>4, <1>9, <1>11, <1>12, <2>1, <2>2, ClaimedStep
<1>14. \A h \in Keys : fwd'[h].at = "forwarded" <=> fwd[h].at = "forwarded"
  BY <1>5, <1>7, <1>9
<1>15. \A h \in Keys' : Once(h)'
  BY <1>1, <1>2, <1>11, <1>12, <1>14, OnceSame
<1> QED
  BY <1>13, <1>15 DEF ForwardedOnce, Once, Won

\* Time, and everything that is not the forwarding.
LEMMA ElsewhereOnce ==
    ASSUME WellKept, ForwardedOnce, mail' = mail, arrived <= arrived', arrived' \in Nat,
           UNCHANGED <<relay, handed, torn>>, fwd' \in [Keys -> RowType],
           \A t \in Processes : Relaying(t) => fwd'[RelayKey(t)] = fwd[RelayKey(t)],
           \A k \in Keys : fwd'[k].at = "forwarded" <=> fwd[k].at = "forwarded"
    PROVE  ForwardedOnce'
<1>1. Claimed /\ \A k \in Keys : Once(k)
  BY OnceEach
<1>2. Claimed'
  BY <1>1, ClaimedAround
<1>3. Keys' = Keys /\ \A k \in Keys : Won(k)' = Won(k)
  BY DEF Keys, Messages, Won, RelayKey
<1>4. \A k \in Keys : Once(k)'
  BY <1>1, <1>3 DEF Once
<1> QED
  BY <1>2, <1>3, <1>4 DEF ForwardedOnce, Once, Won

LEMMA BackoffOnce ==
    ASSUME WellKept, ForwardedOnce, NEW k \in Keys, Backoff(k) \/ Outlive(k)
    PROVE  ForwardedOnce'
<1>1. Claimed /\ fwd \in [Keys -> RowType] /\ fwd[k] \in RowType
  BY OnceEach, RelayFacts DEF Claimed, RowType
<1>2. UNCHANGED <<mail, arrived, relay, handed, torn>> /\ arrived <= arrived' /\ arrived' \in Nat
  BY AroundFacts DEF Backoff, Outlive, mailboxVars
<1>3. PICK row : row = IF Backoff(k) THEN [fwd[k] EXCEPT !.ready = TRUE] ELSE [fwd[k] EXCEPT !.stale = TRUE]
  OBVIOUS
<1>4. fwd' = [fwd EXCEPT ![k] = row] /\ row \in RowType /\ row.at = fwd[k].at
  BY <1>1, <1>3 DEF Backoff, Outlive, RowType
<1>5. \A t \in Processes : Relaying(t) => RelayKey(t) # k
  <2>1. CASE Backoff(k)
    BY <1>1, <2>1, RelayFacts DEF Backoff
  <2>2. CASE Outlive(k)
    BY <2>2 DEF Outlive, Live, Relaying
  <2> QED
    BY <2>1, <2>2
<1>6. \A h \in Keys : fwd'[h] = IF h = k THEN row ELSE fwd[h]
  BY <1>1, <1>4
<1>7. fwd' \in [Keys -> RowType]
  BY <1>1, <1>4
<1>8. \A t \in Processes : Relaying(t) => fwd'[RelayKey(t)] = fwd[RelayKey(t)]
  BY <1>1, <1>5, <1>6, RelayFacts
<1>9. \A h \in Keys : fwd'[h].at = "forwarded" <=> fwd[h].at = "forwarded"
  BY <1>4, <1>6
<1> QED
  BY <1>2, <1>7, <1>8, <1>9, ElsewhereOnce

\* What is not the forwarding.
LEMMA OthersLeaveRelay ==
    ASSUME WellKept,
           \/ MailboxStep /\ UNCHANGED <<scanVars, relayVars>>
           \/ \E p \in Processes : (ScanStep(p) \/ QueueStep(p)) /\ UNCHANGED relayVars
           \/ \E k \in Keys : (Lapse(k) \/ Due(k)) /\ UNCHANGED relayVars
           \/ UNCHANGED vars
    PROVE  /\ mail' = mail /\ arrived <= arrived' /\ arrived' \in Nat
           /\ UNCHANGED <<fwd, relay, handed, torn>>
<1>1. UNCHANGED <<fwd, relay, handed, torn>>
  BY DEF relayVars, vars
<1>2. mail' = mail /\ (arrived' = arrived \/ Arrive)
  <2>1. CASE MailboxStep
    BY <2>1 DEF MailboxStep, UpdateReplyMailbox, TestReplyMailbox, TestAnswered,
       DisableReplyMailbox, EnableReplyMailbox, MemberLeaves, RetainMailbox, CreateRule,
       MemberReturns, UpdateReplyForwardRule, SwitchSetting, SwitchOwner, DeliveryMoves, Unblock,
       RecordBounce, ResendBounce, BlocklistBouncedCustomers, Arrive
  <2>2. ASSUME NEW p \in Processes, ScanStep(p)
        PROVE  mail' = mail /\ arrived' = arrived
    BY <2>2 DEF ScanStep, ScanSelect, ScanOpen, ScanDone, ScanNext, IngestMessage, IngestReport,
       ResolveRecipient, RecordReplyBounce, ReportDone, ScanAdvance, ScanFails, mailboxVars
  <2>3. ASSUME NEW p \in Processes, QueueStep(p)
        PROVE  mail' = mail /\ arrived' = arrived
    BY <2>3 DEF QueueStep, Claim, QueueEmpty, ReadEvent, Classify, ApplyReplyAIAction,
       FinishReplyAIEvent, WorkFails, FailReplyAIEvent, FailLost, Crash, mailboxVars, queueVars
  <2>4. ASSUME NEW k \in Keys, Lapse(k) \/ Due(k)
        PROVE  mail' = mail /\ arrived' = arrived
    BY <2>4 DEF Lapse, Due, mailboxVars, queueVars
  <2>5. CASE UNCHANGED vars
    BY <2>5 DEF vars, mailboxVars
  <2> QED
    BY <2>1, <2>2, <2>3, <2>4, <2>5
<1>3. arrived \in Nat
  BY AroundFacts
<1> QED
  BY <1>1, <1>2, <1>3 DEF Arrive

LEMMA ForwardedOnceStays ==
    ASSUME WellKept, ForwardedOnce, [Next]_vars
    PROVE  ForwardedOnce'
<1>1. CASE \/ MailboxStep /\ UNCHANGED <<scanVars, relayVars>>
           \/ \E p \in Processes : (ScanStep(p) \/ QueueStep(p)) /\ UNCHANGED relayVars
           \/ \E k \in Keys : (Lapse(k) \/ Due(k)) /\ UNCHANGED relayVars
           \/ UNCHANGED vars
  <2>1. /\ mail' = mail /\ arrived <= arrived' /\ arrived' \in Nat
        /\ UNCHANGED <<fwd, relay, handed, torn>>
    BY <1>1, OthersLeaveRelay
  <2>2. fwd' \in [Keys -> RowType]
    BY <2>1 DEF ForwardedOnce, Claimed, RowType
  <2> QED
    BY <2>1, <2>2, ElsewhereOnce
<1>2. ASSUME NEW p \in Processes, RelayStep(p)
      PROVE  ForwardedOnce'
  <2>1. CASE RelayClaim(p)
    BY <2>1, RelayClaimOnce
  <2>2. CASE PushMessage(p)
    BY <2>2, PushOnce
  <2>3. CASE RelaySelect(p) \/ RelayDone(p) \/ PushFails(p)
    BY <2>3, RelayIdles
  <2>4. CASE RecordReplyForwardSuccess(p)
    BY <2>4, WonOnce DEF RecordReplyForwardSuccess
  <2>5. CASE RecordReplyForwardFailure(p)
    BY <2>5, FailureOnce
  <2>6. CASE OutcomeLost(p) \/ RelayCrash(p)
    BY <2>6, WonOnce, RelayIdles
  <2> QED
    BY <1>2, <2>1, <2>2, <2>3, <2>4, <2>5, <2>6 DEF RelayStep
<1>3. ASSUME NEW k \in Keys, Backoff(k) \/ Outlive(k)
      PROVE  ForwardedOnce'
  BY <1>3, BackoffOnce
<1> QED
  BY <1>1, <1>2, <1>3 DEF Next

LEMMA ForwardedOnceStarts ==
    ASSUME Init
    PROVE  ForwardedOnce
<1>1. arrived \in Nat
  BY WellKeptStarts, AroundFacts
<1>2. fwd \in [Keys -> RowType] /\ \A k \in Keys : fwd[k].at = "none"
  BY DEF Init, RelayInit, NoRow, RowType
<1>3. relay \in [Processes -> RelayType] /\ \A p \in Processes : relay[p] = AtRest
  BY DEF Init, RelayInit, AtRest, RelayType
<1>4. handed \in [Keys -> Nat] /\ torn \in [Keys -> Nat]
      /\ \A k \in Keys : handed[k] = 0 /\ torn[k] = 0
  BY DEF Init, RelayInit
<1>5. Claimed
  BY <1>1, <1>2, <1>3, <1>4 DEF Claimed, RowType, RelayType, AtRest, Relaying
<1>6. \A k \in Keys : Won(k) = {}
  BY <1>3 DEF Won, AtRest
<1>7. \A k \in Keys : Once(k)
  BY <1>2, <1>4, <1>6, FS_EmptySet DEF Once
<1> QED
  BY <1>5, <1>7, OnceEach

\* A message is handed to the sending queue once, and once more for each lost outcome.
THEOREM ForwardedOnceCorrect == Spec => []ForwardedOnce
<1>1. Init => ForwardedOnce
  BY ForwardedOnceStarts
<1>2. WellKept /\ ForwardedOnce /\ [Next]_vars => ForwardedOnce'
  BY ForwardedOnceStays
<1> QED
  BY <1>1, <1>2, WellKeptCorrect, PTL DEF Spec
-----------------------------------------------------------------------------
(* What is decided stays decided. *)

\* A step that decides nothing.
LEMMA NothingDecided ==
    ASSUME UNCHANGED <<event, ledger, fwd>>, BlockedForReason
    PROVE  OutcomesKept
BY DEF OutcomesKept

LEMMA MailboxDecides ==
    ASSUME WellKept, MailboxStep, UNCHANGED <<scanVars, relayVars>>
    PROVE  OutcomesKept
<1>1. UNCHANGED <<event, ledger, fwd>>
  BY DEF scanVars, relayVars
<1>2. CASE \/ \E c \in Customers : RecordBounce(c) \/ ResendBounce(c)
           \/ BlocklistBouncedCustomers
  <2>1. Spend("provider") \/ Spend("resent")
    BY <1>2 DEF RecordBounce, ResendBounce, BlocklistBouncedCustomers
  <2> QED
    BY <1>1, <2>1, AroundFacts, SpendProvider, NothingDecided DEF BlockedForReason
<1>3. CASE \E c \in Customers : DeliveryMoves(c) \/ Unblock(c)
  <2>1. customers'.blocked \subseteq customers.blocked
    BY <1>3, AroundFacts DEF DeliveryMoves, Unblock, CustomersType
  <2> QED
    BY <1>1, <2>1, NothingDecided DEF BlockedForReason
<1>4. CASE \/ \E form \in Forms : UpdateReplyMailbox(form)
           \/ TestReplyMailbox \/ TestAnswered \/ DisableReplyMailbox \/ EnableReplyMailbox
           \/ MemberLeaves \/ RetainMailbox \/ CreateRule \/ MemberReturns
           \/ \E status \in {"active", "disabled"} : UpdateReplyForwardRule(status)
           \/ \E name \in {"ai", "bounce"} : SwitchSetting(name)
           \/ SwitchOwner \/ Arrive
  <2>1. customers' = customers
    BY <1>4 DEF UpdateReplyMailbox, TestReplyMailbox, TestAnswered,
       DisableReplyMailbox, EnableReplyMailbox, MemberLeaves, RetainMailbox, CreateRule,
       MemberReturns, UpdateReplyForwardRule, SwitchSetting, SwitchOwner, Arrive
  <2> QED
    BY <1>1, <2>1, NothingDecided DEF BlockedForReason
<1> QED
  BY <1>2, <1>3, <1>4 DEF MailboxStep

\* A report's outcome is written once, and with it the customer is blocklisted.
LEMMA ReportDecides ==
    ASSUME WellKept, NEW p \in Processes, ResolveRecipient(p) \/ RecordReplyBounce(p),
           UNCHANGED relayVars
    PROVE  OutcomesKept
<1>1. PICK u \in Nat, i \in Nat : u = run[p].uid /\ i = run[p].i
  BY RunFacts
<1>2. u \in Messages /\ i \in 1..Len(mail[u].to)
  <2>1. CASE RecordReplyBounce(p)
    <3>1. u \in Messages /\ i \in 1..Len(mail[u].to) + 0
      BY <1>1, <2>1, RunFacts DEF RecordReplyBounce, Sound
    <3>2. Len(mail[u].to) \in Nat
      BY <3>1, RunFacts, MailFacts
    <3> QED
      BY <3>1, <3>2
  <2>2. CASE ResolveRecipient(p)
    <3>1. u \in Messages /\ i \in 1..Len(mail[u].to) + 1 /\ i <= Len(mail[u].to)
      BY <1>1, <2>2, RunFacts DEF ResolveRecipient, Current, Sound
    <3>2. Len(mail[u].to) \in Nat
      BY <3>1, RunFacts, MailFacts
    <3> QED
      BY <1>1, <3>1, <3>2
  <2> QED
    BY <2>1, <2>2
<1>3. PICK k \in Keys, c \in Customers : k = mail[u].key /\ c = mail[u].to[i]
  BY <1>2, RunFacts, MailFacts
<1>4. /\ ledger \in Ledgers /\ customers \in CustomersType
      /\ ledger[k] \in [Customers -> {"none", "ignored", "hard", "soft", "blocklisted"}]
  BY DEF WellKept, TypeOK, Ledgers
<1>5. UNCHANGED <<event, fwd>>
  BY DEF ResolveRecipient, RecordReplyBounce, relayVars
<1>6. PICK o : /\ ledger' = [ledger EXCEPT ![k][c] = o] \/ (UNCHANGED ledger /\ o = ledger[k][c])
               /\ ledger[k][c] # "none" => o = ledger[k][c]
               /\ o # "blocklisted" \/ ledger[k][c] # "none" => customers'.blocked = customers.blocked
  <2>1. CASE RecordReplyBounce(p)
    <3>1. PICK o : o = Outcome(mail[u], c)
      OBVIOUS
    <3>2. ledger' = [ledger EXCEPT ![k][c] = o]
      BY <1>1, <1>3, <2>1, <3>1 DEF RecordReplyBounce, Current, Recipient
    <3>3. ledger[k][c] # "none" => o = ledger[k][c]
      BY <1>3, <3>1 DEF Outcome
    <3>4. PICK counts \in BOOLEAN :
             counts = (o # ledger[k][c] /\ o \in {"hard", "soft", "blocklisted"})
      OBVIOUS
    <3>5. PICK H, B, C :
             /\ customers' = [customers EXCEPT !.hard = H, !.bounced = B, !.blocked = C]
             /\ C = IF counts /\ o = "blocklisted" THEN customers.blocked \cup {c} ELSE customers.blocked
      <4>1. PICK h : h = IF counts /\ mail[u].kind = "hard" THEN customers.hard[c] + 1 ELSE customers.hard[c]
        OBVIOUS
      <4>2. PICK H : H = [customers.hard EXCEPT ![c] = h]
        OBVIOUS
      <4>3. PICK B : B = IF counts THEN customers.bounced \cup {c} ELSE customers.bounced
        OBVIOUS
      <4>4. PICK C : C = IF counts /\ o = "blocklisted" THEN customers.blocked \cup {c} ELSE customers.blocked
        OBVIOUS
      <4>5. customers' = [customers EXCEPT !.hard = H, !.bounced = B, !.blocked = C]
        BY <1>1, <1>3, <2>1, <3>1, <3>4, <4>1, <4>2, <4>3, <4>4
           DEF RecordReplyBounce, Current, Recipient
      <4> QED
        BY <4>4, <4>5
    <3>6. customers'.blocked = C
      BY <1>4, <3>5 DEF CustomersType
    <3> QED
      BY <3>2, <3>3, <3>4, <3>5, <3>6
  <2>2. CASE ResolveRecipient(p)
    <3>1. PICK o : o = IF Recipient(p) \in customers.found \/ ledger[k][c] # "none" THEN ledger[k][c]
                       ELSE "ignored"
      OBVIOUS
    <3>2. customers' = customers
      BY <2>2 DEF ResolveRecipient, mailboxVars
    <3>3. ledger' = [ledger EXCEPT ![k][c] = o] \/ (UNCHANGED ledger /\ o = ledger[k][c])
      BY <1>1, <1>3, <2>2, <3>1 DEF ResolveRecipient, Current, Recipient
    <3> QED
      BY <3>1, <3>2, <3>3
  <2> QED
    BY <2>1, <2>2
<1>7. \A h \in Keys, d \in Customers : ledger'[h][d] = IF h = k /\ d = c THEN o ELSE ledger[h][d]
  BY <1>4, <1>6 DEF Ledgers
<1>8. \A d \in Settled : ledger'[d[1]][d[2]] = ledger[d[1]][d[2]]
  BY <1>6, <1>7 DEF Settled
<1>9. BlockedForReason
  <2>1. CASE customers'.blocked = customers.blocked
    BY <2>1 DEF BlockedForReason
  <2>2. CASE o = "blocklisted" /\ ledger[k][c] = "none"
    <3>1. <<k, c>> \in (Keys \X Customers) \ Settled
      BY <2>2 DEF Settled
    <3>2. ledger'[<<k, c>>[1]][<<k, c>>[2]] = "blocklisted"
      BY <1>7, <2>2
    <3> QED
      BY <3>1, <3>2 DEF BlockedForReason
  <2> QED
    BY <1>6, <2>1, <2>2
<1> QED
  BY <1>5, <1>8, <1>9 DEF OutcomesKept

\* The rest of a scan.
LEMMA ScanDecides ==
    ASSUME WellKept, NEW p \in Processes, ScanStep(p), UNCHANGED relayVars
    PROVE  OutcomesKept
<1>1. CASE ResolveRecipient(p) \/ RecordReplyBounce(p)
  BY <1>1, ReportDecides
<1>2. CASE IngestMessage(p)
  <2>1. UNCHANGED <<ledger, fwd, customers>>
    BY <1>2 DEF IngestMessage, mailboxVars, relayVars
  <2>2. PICK k, row : event' = [event EXCEPT ![k] = Inserted(k, row)]
    BY <1>2 DEF IngestMessage
  <2>3. event \in [Keys -> EventType]
    BY DEF WellKept, TypeOK
  <2>4. \A h \in Decided : event'[h] = event[h]
    BY <2>2, <2>3 DEF Decided, Inserted
  <2> QED
    BY <2>1, <2>4 DEF OutcomesKept, BlockedForReason, Settled
<1>3. CASE \/ ScanSelect(p) \/ ScanOpen(p) \/ ScanDone(p) \/ ScanNext(p) \/ IngestReport(p)
           \/ ReportDone(p) \/ ScanAdvance(p) \/ ScanFails(p)
  <2>1. UNCHANGED <<event, ledger, fwd, customers>>
    BY <1>3 DEF ScanSelect, ScanOpen, ScanDone, ScanNext, IngestReport, ReportDone, ScanAdvance,
       ScanFails, mailboxVars, relayVars
  <2> QED
    BY <2>1, NothingDecided DEF BlockedForReason
<1> QED
  BY <1>1, <1>2, <1>3 DEF ScanStep

\* One event is written, which was not decided.
LEMMA OneEventDecides ==
    ASSUME WellKept, UNCHANGED <<ledger, fwd>>, BlockedForReason,
           NEW k \in Keys \ Decided, \A h \in Keys \ {k} : event'[h] = event[h]
    PROVE  OutcomesKept
BY DEF OutcomesKept, Decided, Settled

\* A late worker writes nothing.
LEMMA QueueDecides ==
    ASSUME WellKept, NEW p \in Processes, QueueStep(p), UNCHANGED relayVars
    PROVE  OutcomesKept
<1>1. event \in [Keys -> EventType] /\ customers \in CustomersType
  BY DEF WellKept, TypeOK
<1>2. ASSUME NEW k \in Keys, Claim(p, k)
      PROVE  OutcomesKept
  <2>1. k \in Keys \ Decided
    BY <1>2 DEF Claim, Claimable, Decided
  <2>2. UNCHANGED <<ledger, fwd, customers>>
    BY <1>2 DEF Claim, mailboxVars, relayVars
  <2>3. PICK row : event' = [event EXCEPT ![k] = row]
    BY <1>1, <1>2 DEF Claim
  <2>4. \A h \in Keys \ {k} : event'[h] = event[h]
    BY <1>1, <2>3
  <2> QED
    BY <2>1, <2>2, <2>4, OneEventDecides DEF BlockedForReason
<1>3. CASE ApplyReplyAIAction(p) /\ event' # event
  <2>1. PICK k \in Keys : k = run[p].key
    BY <1>3, WorkSound DEF ApplyReplyAIAction, Working
  <2>2. Permitted(k) /\ ~(settings.ai /\ ~Held(p))
        /\ event' = [event EXCEPT ![k].at = "processed", ![k].body = FALSE]
    BY <1>3, <2>1 DEF ApplyReplyAIAction
  <2>3. event[k].at = "processing"
    BY <2>1, <2>2 DEF Permitted, Held
  <2>4. k \in Keys \ Decided
    BY <2>3 DEF Decided
  <2>5. PICK row : row = [event[k] EXCEPT !.at = "processed", !.body = FALSE]
    OBVIOUS
  <2>6. event' = [event EXCEPT ![k] = row] /\ row.at = "processed"
    BY <1>1, <2>2, <2>5 DEF EventType
  <2>7. event'[k].at = "processed" /\ \A h \in Keys \ {k} : event'[h] = event[h]
    BY <1>1, <2>6
  <2>8. BlockedForReason
    BY <2>4, <2>7 DEF BlockedForReason
  <2>9. UNCHANGED <<ledger, fwd>>
    BY <1>3 DEF ApplyReplyAIAction, relayVars
  <2> QED
    BY <2>4, <2>7, <2>8, <2>9, OneEventDecides
<1>4. CASE (FinishReplyAIEvent(p) \/ FailReplyAIEvent(p)) /\ event' # event
  <2>1. PICK k \in Keys : k = run[p].key
    BY <1>4, WorkSound DEF FinishReplyAIEvent, FailReplyAIEvent, Working
  <2>2. Held(p)
    BY <1>4 DEF FinishReplyAIEvent, FailReplyAIEvent
  <2>3. k \in Keys \ Decided
    BY <2>1, <2>2 DEF Held, Decided
  <2>4. UNCHANGED <<ledger, fwd, customers>>
    BY <1>4 DEF FinishReplyAIEvent, FailReplyAIEvent, mailboxVars, relayVars
  <2>5. PICK row : event' = [event EXCEPT ![k] = row]
    <3>1. CASE FinishReplyAIEvent(p)
      BY <1>1, <2>1, <2>2, <3>1 DEF FinishReplyAIEvent
    <3>2. CASE FailReplyAIEvent(p)
      BY <1>1, <2>1, <2>2, <3>2 DEF FailReplyAIEvent
    <3> QED
      BY <1>4, <3>1, <3>2
  <2>6. \A h \in Keys \ {k} : event'[h] = event[h]
    BY <1>1, <2>5
  <2> QED
    BY <2>3, <2>4, <2>6, OneEventDecides DEF BlockedForReason
<1>5. CASE event' = event
  <2>1. UNCHANGED <<ledger, fwd>>
    BY DEF QueueStep, Claim, QueueEmpty, ReadEvent, Classify, ApplyReplyAIAction,
       FinishReplyAIEvent, WorkFails, FailReplyAIEvent, FailLost, Crash, relayVars
  <2>2. customers' = customers \/ (ApplyReplyAIAction(p) /\ customers' # customers)
    BY DEF QueueStep, Claim, QueueEmpty, ReadEvent, Classify, FinishReplyAIEvent, WorkFails,
       FailReplyAIEvent, FailLost, Crash, mailboxVars
  <2>3. ~(ApplyReplyAIAction(p) /\ customers' # customers)
    <3>1. SUFFICES ASSUME ApplyReplyAIAction(p), customers' # customers
                   PROVE  FALSE
      OBVIOUS
    <3>2. PICK k \in Keys : k = run[p].key
      BY <3>1, WorkSound DEF ApplyReplyAIAction, Working
    <3>3. Permitted(k) /\ ~(settings.ai /\ ~Held(p))
          /\ event' = [event EXCEPT ![k].at = "processed", ![k].body = FALSE]
      BY <3>1, <3>2 DEF ApplyReplyAIAction
    <3>4. event[k].at = "processing" /\ event[k] \in EventType
      BY <1>1, <3>2, <3>3 DEF Permitted, Held
    <3>5. event'[k].at = "processed"
      BY <1>1, <3>3, <3>4 DEF EventType
    <3> QED
      BY <1>5, <3>4, <3>5
  <2> QED
    BY <1>5, <2>1, <2>2, <2>3, NothingDecided DEF BlockedForReason
<1>6. event' = event \/ (\E k \in Keys : Claim(p, k)) \/ ApplyReplyAIAction(p)
      \/ FinishReplyAIEvent(p) \/ FailReplyAIEvent(p)
  BY DEF QueueStep, QueueEmpty, ReadEvent, Classify, WorkFails, FailLost, Crash
<1> QED
  BY <1>2, <1>3, <1>4, <1>5, <1>6

LEMMA TimeDecides ==
    ASSUME WellKept, NEW k \in Keys, Lapse(k) \/ Due(k), UNCHANGED relayVars
    PROVE  OutcomesKept
<1>1. k \in Keys \ Decided
  BY DEF Lapse, Due, Decided
<1>2. UNCHANGED <<ledger, fwd, customers>>
  BY DEF Lapse, Due, mailboxVars, relayVars
<1>3. event \in [Keys -> EventType]
  BY DEF WellKept, TypeOK
<1>4. \A h \in Keys \ {k} : event'[h] = event[h]
  BY <1>3 DEF Lapse, Due
<1> QED
  BY <1>1, <1>2, <1>4, OneEventDecides DEF BlockedForReason

\* What was forwarded is not claimed again, and an outcome is that of the claim.
LEMMA RelayDecides ==
    ASSUME WellKept, ForwardedOnce,
           \/ \E p \in Processes : RelayStep(p)
           \/ \E k \in Keys : Backoff(k) \/ Outlive(k)
    PROVE  OutcomesKept
<1>1. Claimed /\ fwd \in [Keys -> RowType]
  BY DEF ForwardedOnce, Claimed, RowType
<1>2. UNCHANGED <<event, ledger, customers>>
  BY DEF RelayStep, RelaySelect, RelayDone, RelayClaim, PushMessage, PushFails,
     RecordReplyForwardSuccess, RecordReplyForwardFailure, OutcomeLost, RelayCrash, Backoff,
     Outlive, mailboxVars, queueVars, scanVars
<1>3. PICK h : /\ h \in Keys => fwd[h].at # "forwarded"
               /\ \A k \in Keys \ {h} : fwd'[k] = fwd[k]
  <2>1. ASSUME NEW p \in Processes, RelayClaim(p)
        PROVE  \E h : /\ h \in Keys => fwd[h].at # "forwarded"
                      /\ \A k \in Keys \ {h} : fwd'[k] = fwd[k]
    <3>1. PICK h : h = mail[relay[p].uid + 1].key
      OBVIOUS
    <3>2. CASE ClaimableRow(h)
      <4>1. \A k \in Keys \ {h} : fwd'[k] = fwd[k]
        BY <1>1, <2>1, <3>1 DEF RelayClaim
      <4> QED
        BY <3>2, <4>1 DEF ClaimableRow
    <3>3. CASE ~ClaimableRow(h)
      <4>1. fwd' = fwd
        BY <2>1, <3>1, <3>3 DEF RelayClaim
      <4> QED
        BY <4>1, NoSetContainsEverything
    <3> QED
      BY <3>2, <3>3
  <2>2. ASSUME NEW p \in Processes, RecordReplyForwardSuccess(p) \/ RecordReplyForwardFailure(p)
        PROVE  \E h : /\ h \in Keys => fwd[h].at # "forwarded"
                      /\ \A k \in Keys \ {h} : fwd'[k] = fwd[k]
    <3>1. PICK h : h = RelayKey(p)
      OBVIOUS
    <3>2. fwd[h].at # "forwarded"
      BY <1>1, <2>2, <3>1, RelayFacts DEF RecordReplyForwardSuccess, RecordReplyForwardFailure, Relaying
    <3>3. \A k \in Keys \ {h} : fwd'[k] = fwd[k]
      BY <1>1, <2>2, <3>1 DEF RecordReplyForwardSuccess, RecordReplyForwardFailure, Outlived
    <3> QED
      BY <3>2, <3>3
  <2>3. ASSUME NEW k \in Keys, Backoff(k) \/ Outlive(k)
        PROVE  \E h : /\ h \in Keys => fwd[h].at # "forwarded"
                      /\ \A g \in Keys \ {h} : fwd'[g] = fwd[g]
    <3>1. fwd[k].at # "forwarded" /\ \A g \in Keys \ {k} : fwd'[g] = fwd[g]
      BY <1>1, <2>3 DEF Backoff, Outlive
    <3> QED
      BY <3>1
  <2>4. ASSUME NEW p \in Processes,
               \/ RelaySelect(p) \/ RelayDone(p) \/ PushMessage(p) \/ PushFails(p)
               \/ OutcomeLost(p) \/ RelayCrash(p)
        PROVE  \E h : /\ h \in Keys => fwd[h].at # "forwarded"
                      /\ \A k \in Keys \ {h} : fwd'[k] = fwd[k]
    <3>1. fwd' = fwd
      BY <2>4 DEF RelaySelect, RelayDone, PushMessage, PushFails, OutcomeLost, RelayCrash
    <3> QED
      BY <3>1, NoSetContainsEverything
  <2> QED
    BY <2>1, <2>2, <2>3, <2>4 DEF RelayStep
<1>4. \A k \in Keys : fwd[k].at = "forwarded" => fwd'[k] = fwd[k]
  BY <1>3
<1> QED
  BY <1>2, <1>4 DEF OutcomesKept, BlockedForReason, Decided, Settled

LEMMA StepDecides ==
    ASSUME WellKept, ForwardedOnce, Next
    PROVE  OutcomesKept
<1>1. CASE MailboxStep /\ UNCHANGED <<scanVars, relayVars>>
  BY <1>1, MailboxDecides
<1>2. CASE \E p \in Processes : ScanStep(p) /\ UNCHANGED relayVars
  BY <1>2, ScanDecides
<1>3. CASE \E p \in Processes : QueueStep(p) /\ UNCHANGED relayVars
  BY <1>3, QueueDecides
<1>4. CASE \E k \in Keys : (Lapse(k) \/ Due(k)) /\ UNCHANGED relayVars
  BY <1>4, TimeDecides
<1>5. CASE (\E p \in Processes : RelayStep(p)) \/ (\E k \in Keys : Backoff(k) \/ Outlive(k))
  BY <1>5, RelayDecides
<1> QED
  BY <1>1, <1>2, <1>3, <1>4, <1>5 DEF Next

\* Late workers change no outcome, and nobody is blocklisted without a reason.
THEOREM DecidedOnceCorrect == Spec => DecidedOnce
<1>1. WellKept /\ ForwardedOnce /\ [Next]_vars => [OutcomesKept]_vars
  BY StepDecides
<1> QED
  BY <1>1, WellKeptCorrect, ForwardedOnceCorrect, PTL DEF Spec, DecidedOnce
=============================================================================
