------------------------ MODULE WebhookIngest_proofs ------------------------
(* Proofs about WebhookIngest, for any number of processes, messages and    *)
(* webhooks, and any webhook bodies.  What a body is taken to say is left    *)
(* open: nothing is used of the normaliser but the addresses it yields.      *)
EXTENDS WebhookIngest, TLAPS

----------------------------------------------------------------------------
(* Types                                                                   *)

Norms == {NormalizeProviderWebhook(raw) : raw \in Payloads}

Notices == [norm : Norms, error : BOOLEAN]

Rows == [live : BOOLEAN, tenant : {"own", "global"}, email : Emails, reason : Reasons,
         marketing : BOOLEAN, transactional : BOOLEAN]

Jobs == [pc : {"idle", "insert", "apply", "write", "event", "locked", "found", "commit", "remove"},
         kind : {"none", "send", "webhook", "manual", "remove", "recompute"},
         ev : Nat, m : Messages \cup {None}, was : Statuses, fresh : BOOLEAN,
         email : Emails \cup {None}, tenant : {"own", "global"}, reason : Reasons \cup {"none"},
         marketing : BOOLEAN, transactional : BOOLEAN, row : Nat, pause : Pauses]

\* The lists, the messages and the pause.
Stores ==
    /\ msg \in [Messages -> [status : Statuses, mid : BOOLEAN]]
    /\ inbox \in Seq(Notices)
    /\ rows \in Seq(Rows)
    /\ unsub \subseteq Emails
    /\ pause \in Pauses
    /\ acts \in 0..MaxActs
    /\ job \in [Procs -> Jobs]

\* The changes of status that end in an event.
Settling == {"delivered", "bounced", "complained", "failed"}

\* A transaction that has written its message: it holds the message's row.
Holding(p) == job[p].kind = "webhook" /\ job[p].pc \in {"locked", "found", "commit"}

\* What a process has in hand at each point: as much of it as no other process
\* can change.
InHand(p) ==
    LET j == job[p] IN
    /\ j.ev \in 0..Len(inbox) /\ j.row \in 0..Len(rows)
    /\ j.pc \in {"apply", "write", "event", "locked"} => j.kind = "webhook"
    /\ j.pc = "remove" => j.kind = "remove"
    /\ j.kind = "none" => j.pc = "idle"
    /\ j.kind = "send" => j.m \in Messages /\ j.pc = "insert" /\ j.was \in {"queued", "suppressed"}
    /\ j.kind = "manual" => j.email \in Emails /\ j.reason = "manual" /\ j.pc = "found"
    /\ j.kind = "remove" => j.row # 0 /\ j.pc = "remove"
    /\ j.kind = "recompute" => j.pc = "commit"
    /\ j.kind = "webhook" =>
         /\ j.pc \in {"apply", "write", "event", "locked", "found", "commit"}
         /\ j.ev # 0 /\ j.tenant = "own"
         /\ j.pc \notin {"found", "commit"} => j.row = 0
         /\ j.pc # "apply" => j.m \in Messages
    /\ j.pc = "event" => EventType(Norm(p)) \notin Settling
    /\ Holding(p) =>
         /\ j.reason \in {"hard_bounce", "complaint"}
         /\ j.email = Address(p) /\ j.marketing /\ (j.reason = "hard_bounce" => j.transactional)
         /\ EventType(Norm(p)) = IF j.reason = "hard_bounce" THEN "bounced" ELSE "complained"
    /\ j.kind \in {"webhook", "manual"} /\ j.row # 0 =>
         /\ rows[j.row].email = j.email /\ rows[j.row].tenant = j.tenant
         /\ rows[j.row].reason = j.reason

Hands == \A p \in Procs : InHand(p)

\* Lists only grow, and what was said or listed keeps its meaning.
Grows ==
    /\ Len(inbox) <= Len(inbox') /\ Len(rows) <= Len(rows')
    /\ \A n \in 1..Len(inbox) : inbox'[n].norm = inbox[n].norm
    /\ \A i \in 1..Len(rows) : /\ rows'[i].email = rows[i].email
                               /\ rows'[i].tenant = rows[i].tenant
                               /\ rows'[i].reason = rows[i].reason

\* The notice a webhook process applies, and the address it concerns, stay.
LEMMA NormStays ==
    ASSUME Stores, Stores', Grows, NEW q \in Procs, job'[q].ev = job[q].ev,
           job[q].ev \in 1..Len(inbox)
    PROVE  Norm(q)' = Norm(q) /\ (job'[q].m = job[q].m => Address(q)' = Address(q))
  <1>1. Norm(q)' = Norm(q)
    BY DEF Grows, Norm
  <1> QED BY <1>1 DEF Address

\* A process that does nothing keeps what it has in hand.
LEMMA InHandStays ==
    ASSUME Stores, Stores', Grows, NEW q \in Procs, InHand(q), job'[q] = job[q]
    PROVE  InHand(q)'
  <1>1. Len(inbox) \in Nat /\ Len(inbox') \in Nat /\ Len(rows) \in Nat /\ Len(rows') \in Nat
    BY DEF Stores
  <1>2. job[q].ev \in Nat /\ job[q].row \in Nat
    BY DEF Stores, Jobs
  <1>3. job[q].kind = "webhook" => Norm(q)' = Norm(q) /\ Address(q)' = Address(q)
    BY <1>1, <1>2, NormStays DEF InHand
  <1>4. job[q].row # 0 => /\ rows'[job[q].row].email = rows[job[q].row].email
                          /\ rows'[job[q].row].tenant = rows[job[q].row].tenant
                          /\ rows'[job[q].row].reason = rows[job[q].row].reason
    BY <1>1, <1>2 DEF InHand, Grows
  <1> QED BY <1>1, <1>2, <1>3, <1>4 DEF InHand, Grows, Holding

\* The notice a webhook process applies, and the address it concerns.
LEMMA NormType ==
    ASSUME Stores, NEW p \in Procs, InHand(p), job[p].kind = "webhook"
    PROVE  /\ job[p].ev \in 1..Len(inbox)
           /\ Norm(p) \in Norms
           /\ Norm(p).to \in Emails \cup {None}
           /\ job[p].m \in Messages => Address(p) \in Emails
  <1>1. job[p].ev \in 1..Len(inbox)
    BY DEF Stores, InHand, Jobs
  <1>2. inbox[job[p].ev] \in Notices
    BY <1>1 DEF Stores
  <1>3. Norm(p) \in Norms
    BY <1>2 DEF Norm, Notices
  <1>4. Norm(p).to \in Emails \cup {None}
    BY <1>3, WebhookAssumption DEF Norms
  <1> QED BY <1>1, <1>3, <1>4, WebhookAssumption DEF Address

\* A list with one more row, or one row changed.
LEMMA SaveRowTypes ==
    ASSUME Stores, NEW j \in Jobs, j.row \in 0..Len(rows),
           j.email \in Emails, j.reason \in Reasons, rows' = SaveRow(j)
    PROVE  /\ rows' \in Seq(Rows)
           /\ Len(rows) <= Len(rows')
           /\ \A i \in 1..Len(rows) :
                /\ rows'[i].email = rows[i].email
                /\ rows'[i].tenant = rows[i].tenant
                /\ rows'[i].reason = rows[i].reason
                /\ rows'[i].live = rows[i].live
                /\ i # j.row => rows'[i] = rows[i]
           /\ j.row # 0 => /\ rows'[j.row].marketing = j.marketing
                           /\ rows'[j.row].transactional = j.transactional
           /\ j.row = 0 => /\ Len(rows') = Len(rows) + 1
                           /\ rows'[Len(rows')] =
                                [live |-> TRUE, tenant |-> j.tenant, email |-> j.email,
                                 reason |-> j.reason, marketing |-> j.marketing,
                                 transactional |-> j.transactional]
  <1>1. rows \in Seq(Rows) /\ Len(rows) \in Nat /\ \A i \in 1..Len(rows) : rows[i] \in Rows
    BY DEF Stores
  <1>2. CASE j.row = 0
    <2> DEFINE r == [live |-> TRUE, tenant |-> j.tenant, email |-> j.email,
                     reason |-> j.reason, marketing |-> j.marketing,
                     transactional |-> j.transactional]
    <2>1. r \in Rows
      BY DEF Rows, Jobs
    <2>2. rows' = Append(rows, r)
      BY <1>2 DEF SaveRow
    <2> HIDE DEF r
    <2>3. rows' \in Seq(Rows) /\ Len(rows') = Len(rows) + 1 /\ rows'[Len(rows) + 1] = r
          /\ \A i \in 1..Len(rows) : rows'[i] = rows[i]
      BY <1>1, <2>1, <2>2
    <2> QED BY <1>1, <1>2, <2>3 DEF r
  <1>3. CASE j.row # 0
    <2> DEFINE r == [rows[j.row] EXCEPT !.marketing = j.marketing,
                                        !.transactional = j.transactional]
    <2>1. j.row \in 1..Len(rows) /\ rows[j.row] \in Rows
      BY <1>1, <1>3
    <2>2. /\ r \in Rows /\ r.email = rows[j.row].email /\ r.tenant = rows[j.row].tenant
          /\ r.reason = rows[j.row].reason /\ r.live = rows[j.row].live
          /\ r.marketing = j.marketing /\ r.transactional = j.transactional
      BY <2>1 DEF Rows, Jobs
    <2>3. rows' = [rows EXCEPT ![j.row] = r]
      BY <1>3 DEF SaveRow
    <2> HIDE DEF r
    <2>4. rows' \in Seq(Rows) /\ Len(rows') = Len(rows)
          /\ \A i \in 1..Len(rows) : rows'[i] = IF i = j.row THEN r ELSE rows[i]
      BY <1>1, <2>1, <2>2, <2>3
    <2> QED BY <1>1, <1>3, <2>1, <2>2, <2>4
  <1> QED BY <1>2, <1>3

\* The automatic pause is a pause.
LEMMA PauseTypes ==
    ASSUME pause \in Pauses, NEW read, NEW status
    PROVE  ApplyAutomatedRiskPause(read, status) \in Pauses
  <1>1. PauseScope(status) \in Scopes \cup {"none"}
    BY DEF PauseScope, Scopes
  <1> HIDE DEF PauseScope
  <1> QED BY <1>1 DEF ApplyAutomatedRiskPause, Pauses

\* A step of one process: types are kept, and the others keep what they have.
Moves(p) ==
    /\ Stores' /\ Grows /\ InHand(p)'
    /\ \A q \in Procs \ {p} : job'[q] = job[q]

\* What is not written stays.
LEMMA GrowsNothing ==
    ASSUME Stores, inbox' = inbox, rows' = rows
    PROVE  Grows
  BY DEF Grows, Stores

\* A step of one process that leaves typed stores behind.
LEMMA MovesTo ==
    ASSUME Stores, NEW p \in Procs, NEW j \in Jobs, job' = [job EXCEPT ![p] = j],
           msg' \in [Messages -> [status : Statuses, mid : BOOLEAN]], inbox' \in Seq(Notices),
           rows' \in Seq(Rows), unsub' \subseteq Emails, pause' \in Pauses,
           acts' \in 0..MaxActs
    PROVE  Stores' /\ job'[p] = j /\ \A q \in Procs \ {p} : job'[q] = job[q]
  <1>1. job' \in [Procs -> Jobs]
    BY DEF Stores
  <1> QED BY <1>1 DEF Stores

\* A step that changes only the process's own job.
LEMMA OnlyJob ==
    ASSUME Stores, NEW p \in Procs, NEW j \in Jobs, job' = [job EXCEPT ![p] = j],
           msg' = msg, inbox' = inbox, rows' = rows, unsub' = unsub, pause' = pause,
           acts' \in 0..MaxActs
    PROVE  Stores' /\ Grows /\ job'[p] = j /\ \A q \in Procs \ {p} : job'[q] = job[q]
  <1>1. Grows
    BY GrowsNothing
  <1> QED BY <1>1, MovesTo DEF Stores

\* A request makes one act of those that are left.
LEMMA ActTypes ==
    ASSUME Stores, Act
    PROVE  acts' \in 0..MaxActs
  BY WebhookAssumption DEF Stores, Act

\* A process at rest is a process, and a pause that is off has no source.
LEMMA IdleType == Idle \in Jobs /\ Idle.pause \in Pauses /\ Idle.pause.source = "none"
  BY DEF Idle, Jobs, Pauses, Scopes, Statuses

\* A process that is done, or gives up.
LEMMA IdleInHand ==
    ASSUME Stores', NEW p \in Procs, job'[p] = Idle
    PROVE  InHand(p)' /\ ~Holding(p)' /\ job'[p].kind = "none" /\ job'[p].pc = "idle"
  <1>1. Len(inbox') \in Nat /\ Len(rows') \in Nat
    BY DEF Stores
  <1> QED BY <1>1 DEF InHand, Idle, Holding

\* A notice is stored: the process goes on to apply it, or is done with a body
\* that is not JSON.
LEMMA ReceiveMoves ==
    ASSUME Stores, Hands, NEW p \in Procs, NEW raw \in Payloads, Receive(p, raw)
    PROVE  /\ Moves(p) /\ job'[p].kind \in {"none", "webhook"} /\ ~Holding(p)'
           /\ job'[p].kind = "webhook" => job'[p].pc = "apply"
  <1> DEFINE n == [norm |-> NormalizeProviderWebhook(raw), error |-> ~raw.json]
             j == [Idle EXCEPT !.pc = "apply", !.kind = "webhook", !.ev = Len(inbox) + 1]
  <1>1. n \in Notices
    BY DEF Notices, Norms
  <1>2. inbox' = Append(inbox, n)
    BY DEF Receive
  <1>3. /\ inbox' \in Seq(Notices) /\ Len(inbox) \in Nat /\ Len(inbox') = Len(inbox) + 1
        /\ \A k \in 1..Len(inbox) : inbox'[k] = inbox[k]
    <2> HIDE DEF n
    <2> QED BY <1>1, <1>2 DEF Stores
  <1>4. Grows /\ Len(rows) \in Nat
    BY <1>3 DEF Grows, Receive, Stores
  <1>5. j \in Jobs
    <2>1. Len(inbox) + 1 \in Nat
      BY <1>3
    <2> QED BY <2>1, IdleType, ZenonT(60) DEF Jobs, Idle, Pauses, Scopes, Statuses
  <1>6. job' = [job EXCEPT ![p] = j] \/ job' = [job EXCEPT ![p] = Idle]
    BY DEF Receive
  <1>7. /\ Stores' /\ (job'[p] = j \/ job'[p] = Idle)
        /\ \A q \in Procs \ {p} : job'[q] = job[q]
    <2> HIDE DEF j
    <2> QED BY <1>3, <1>5, <1>6, IdleType, MovesTo DEF Stores, Receive
  <1>8. CASE job'[p] = j
    <2>1. j.pc = "apply" /\ j.kind = "webhook" /\ j.ev = Len(inbox) + 1 /\ j.row = 0
          /\ j.tenant = "own"
      BY DEF Idle
    <2> HIDE DEF j
    <2>2. rows' = rows
      BY DEF Receive
    <2>3. InHand(p)'
      BY <1>3, <1>4, <1>8, <2>1, <2>2 DEF InHand, Holding
    <2> QED BY <1>4, <1>7, <1>8, <2>1, <2>3 DEF Moves, Holding
  <1>9. CASE job'[p] = Idle
    BY <1>4, <1>7, <1>9, IdleInHand DEF Moves
  <1> QED BY <1>7, <1>8, <1>9

\* The first queries: the notice is used up, or the message it names is known and
\* was handed over.
LEMMA LookUpMoves ==
    ASSUME Stores, Hands, NEW p \in Procs, LookUp(p)
    PROVE  /\ Moves(p) /\ job'[p].kind \in {"none", "webhook"} /\ ~Holding(p)'
           /\ job'[p].kind = "webhook" => job'[p].m \in Messages /\ msg[job'[p].m].mid
  <1>1. CASE Finish(p)
    <2>1. Stores' /\ Grows /\ job'[p] = Idle /\ \A q \in Procs \ {p} : job'[q] = job[q]
      BY <1>1, OnlyJob, IdleType DEF LookUp, Finish, Stores
    <2> QED BY <2>1, IdleInHand DEF Moves
  <1>2. CASE ~Finish(p)
    <2> DEFINE j == [job[p] EXCEPT !.pc = "write", !.m = Norm(p).mid,
                                   !.was = msg[Norm(p).mid].status]
    <2>1. /\ Norm(p).mid \in Messages /\ msg[Norm(p).mid].mid
          /\ job' = [job EXCEPT ![p] = j] /\ inbox' = inbox
      BY <1>2 DEF LookUp, Stores
    <2>2. job[p] \in Jobs /\ msg[Norm(p).mid].status \in Statuses
      BY <2>1 DEF Stores
    <2>3. /\ j \in Jobs /\ j.kind = job[p].kind /\ j.pc = "write" /\ j.ev = job[p].ev
          /\ j.row = job[p].row /\ j.m = Norm(p).mid /\ j.tenant = job[p].tenant
          /\ j.email = job[p].email /\ j.reason = job[p].reason
      BY <2>1, <2>2 DEF Jobs
    <2> HIDE DEF j
    <2>4. Stores' /\ Grows /\ job'[p] = j /\ \A q \in Procs \ {p} : job'[q] = job[q]
      BY <2>1, <2>3, OnlyJob DEF LookUp, Stores
    <2>5. InHand(p) /\ job[p].pc = "apply" /\ rows' = rows /\ msg' = msg
      BY DEF Hands, LookUp
    <2>6. InHand(p)' /\ ~Holding(p)'
      BY <2>1, <2>3, <2>4, <2>5 DEF InHand, Holding
    <2> QED BY <2>1, <2>3, <2>4, <2>5, <2>6 DEF Moves, InHand
  <1> QED BY <1>1, <1>2

\* The end of what a process was doing.
Ends(p) == Moves(p) /\ ~Holding(p)' /\ job'[p].kind = "none" /\ job'[p].pc = "idle"

\* What a process that ends has to leave behind.
LEMMA EndsType ==
    ASSUME Stores, NEW p \in Procs, job' = [job EXCEPT ![p] = Idle], Grows,
           msg' \in [Messages -> [status : Statuses, mid : BOOLEAN]], inbox' \in Seq(Notices),
           rows' \in Seq(Rows), unsub' \subseteq Emails, pause' \in Pauses,
           acts' \in 0..MaxActs
    PROVE  Ends(p)
  <1>1. Stores' /\ job'[p] = Idle /\ \A q \in Procs \ {p} : job'[q] = job[q]
    BY MovesTo, IdleType
  <1> QED BY <1>1, IdleInHand DEF Ends, Moves

\* The events of notices that change no status, and of those that do.
LEMMA KeepTypes ==
    ASSUME NEW p \in Procs, StatusFor(p) = "keep"
    PROVE  EventType(Norm(p)) \notin Settling
  BY DEF StatusFor, EventType, Settling

\* Notices that settle a status without a suppression.
LEMMA SettleTypes ==
    ASSUME NEW p \in Procs, StatusFor(p) # "keep",
           \/ Norm(p).type \in {"delivered", "failed"}
           \/ Norm(p).type = "bounced" /\ Norm(p).bounce = "soft"
    PROVE  /\ StatusFor(p) \in {"delivered", "failed", "deferred"}
           /\ EventType(Norm(p)) \in {"delivered", "failed", "deferred"}
  BY DEF StatusFor, EventType

\* A status is changed: the messages keep their type.
LEMMA StatusTypes ==
    ASSUME Stores, NEW m \in Messages, NEW status \in Statuses,
           msg' = [msg EXCEPT ![m].status = status]
    PROVE  /\ msg' \in [Messages -> [status : Statuses, mid : BOOLEAN]]
           /\ msg'[m].status = status /\ msg'[m].mid = msg[m].mid
           /\ \A k \in Messages \ {m} : msg'[k] = msg[k]
  BY DEF Stores

\* A status is settled: one of the process's message, which then ends.
LEMMA SettleStatusMoves ==
    ASSUME Stores, Hands, NEW p \in Procs, SettleStatus(p)
    PROVE  /\ Ends(p) /\ job[p].kind = "webhook" /\ job[p].m \in Messages
           /\ \E status \in {"delivered", "failed", "deferred"} :
                msg' = [msg EXCEPT ![job[p].m].status = status]
           /\ EventType(Norm(p)) \in {"delivered", "failed", "deferred"}
  <1>1. InHand(p) /\ job[p].pc = "write" /\ job[p].kind = "webhook" /\ job[p].m \in Messages
    BY DEF Hands, SettleStatus, InHand
  <1>2. /\ StatusFor(p) \in {"delivered", "failed", "deferred"}
        /\ EventType(Norm(p)) \in {"delivered", "failed", "deferred"}
    BY SettleTypes DEF SettleStatus
  <1>3. msg' = [msg EXCEPT ![job[p].m].status = StatusFor(p)]
    BY DEF SettleStatus
  <1>4. StatusFor(p) \in Statuses
    BY <1>2 DEF Statuses
  <1>5. msg' \in [Messages -> [status : Statuses, mid : BOOLEAN]]
    BY <1>1, <1>3, <1>4, StatusTypes
  <1>6. Ends(p)
    BY <1>5, EndsType, GrowsNothing DEF SettleStatus, Finish, Stores
  <1> QED BY <1>1, <1>2, <1>3, <1>6

\* The notice, its message and the list's row stay in hand.
Goes(p) ==
    /\ Moves(p) /\ inbox' = inbox /\ msg' = msg /\ rows' = rows /\ pause' = pause
    /\ job[p].kind = "webhook" /\ job'[p].kind = "webhook"
    /\ job'[p].ev = job[p].ev /\ job'[p].m = job[p].m /\ job[p].m \in Messages
    /\ Norm(p)' = Norm(p) /\ Address(p)' = Address(p)

\* What a process that goes on with its notice has to leave behind.
LEMMA GoesTo ==
    ASSUME Stores, Hands, NEW p \in Procs, NEW j \in Jobs, job' = [job EXCEPT ![p] = j],
           j.ev = job[p].ev, j.m = job[p].m, j.kind = job[p].kind, job[p].kind = "webhook",
           job[p].pc # "apply",
           UNCHANGED <<msg, inbox, rows, unsub, pause, acts>>,
           InHand(p)'
    PROVE  Goes(p) /\ job'[p] = j
  <1>1. Stores' /\ Grows /\ job'[p] = j /\ \A q \in Procs \ {p} : job'[q] = job[q]
    BY OnlyJob DEF Stores
  <1>2. InHand(p) /\ job[p].ev \in 1..Len(inbox)
    BY NormType DEF Hands
  <1>3. Norm(p)' = Norm(p) /\ Address(p)' = Address(p)
    BY <1>1, <1>2, NormStays
  <1> QED BY <1>1, <1>2, <1>3 DEF Goes, Moves, InHand

\* An open, a click or a delay: the check before the insertion.
LEMMA CheckEventMoves ==
    ASSUME Stores, Hands, NEW p \in Procs, CheckEvent(p)
    PROVE  Goes(p) /\ job'[p].pc = "event" /\ ~Holding(p)'
  <1> DEFINE new == CreateMessageEventIdempotent(p, job[p].m, Norm(p)) # {}
             j == [job[p] EXCEPT !.pc = "event", !.fresh = new]
  <1>1. job' = [job EXCEPT ![p] = j]
    BY DEF CheckEvent
  <1>2. job[p] \in Jobs /\ new \in BOOLEAN
    BY DEF Stores
  <1>3. InHand(p) /\ job[p].pc = "write" /\ job[p].kind = "webhook"
    BY DEF Hands, CheckEvent, InHand
  <1> HIDE DEF new
  <1>4. /\ j \in Jobs /\ j.kind = job[p].kind /\ j.ev = job[p].ev /\ j.m = job[p].m
        /\ j.pc = "event" /\ j.row = job[p].row /\ j.tenant = job[p].tenant
        /\ j.email = job[p].email /\ j.reason = job[p].reason
    BY <1>2 DEF Jobs
  <1> HIDE DEF j
  <1>5. Stores' /\ Grows /\ job'[p] = j /\ inbox' = inbox /\ rows' = rows
    BY <1>1, <1>4, OnlyJob DEF CheckEvent, Stores
  <1>6. Norm(p)' = Norm(p)
    BY <1>3, <1>4, <1>5, NormStays, NormType
  <1>7. EventType(Norm(p)') \notin Settling
    BY <1>6, KeepTypes DEF CheckEvent
  <1>8. InHand(p)' /\ ~Holding(p)'
    BY <1>3, <1>4, <1>5, <1>7 DEF InHand, Holding
  <1> QED BY <1>1, <1>3, <1>4, <1>5, <1>8, GoesTo DEF CheckEvent

\* The event of a notice that settles no status is added.
LEMMA InsertEventMoves ==
    ASSUME Stores, Hands, NEW p \in Procs, InsertEvent(p)
    PROVE  /\ Ends(p) /\ job[p].kind = "webhook" /\ job[p].m \in Messages
           /\ EventType(Norm(p)) \notin Settling
  <1>1. Ends(p)
    BY EndsType, GrowsNothing DEF InsertEvent, Finish, Stores
  <1> QED BY <1>1 DEF Hands, InsertEvent, InHand

\* A hard bounce or a complaint takes the message's row, which was free.
LEMMA WriteMessageMoves ==
    ASSUME Stores, Hands, NEW p \in Procs, WriteMessage(p)
    PROVE  /\ Goes(p) /\ job[p].pc = "write" /\ Unlocked(job[p].m)
           /\ job'[p].pc = "locked" /\ job'[p].row = job[p].row
           /\ job'[p].fresh = (CreateMessageEventIdempotent(p, job[p].m, Norm(p)) # {})
  <1> DEFINE n == Norm(p)
             hard == n.type = "bounced"
             new == CreateMessageEventIdempotent(p, job[p].m, n) # {}
             j == [job[p] EXCEPT !.pc = "locked", !.email = Address(p), !.fresh = new,
                                 !.reason = IF hard THEN "hard_bounce" ELSE "complaint",
                                 !.marketing = TRUE, !.transactional = hard]
  <1>1. /\ job' = [job EXCEPT ![p] = j]
        /\ n.type = "complained" \/ (hard /\ n.bounce = "hard")
    BY DEF WriteMessage
  <1>a. UNCHANGED <<msg, inbox, rows, unsub, pause, acts>>
    BY DEF WriteMessage
  <1>2. /\ InHand(p) /\ job[p].pc = "write" /\ job[p].kind = "webhook" /\ job[p].m \in Messages
        /\ job[p].row = 0
    BY DEF Hands, WriteMessage, InHand
  <1>3. job[p] \in Jobs /\ new \in BOOLEAN /\ Address(p) \in Emails /\ hard \in BOOLEAN
    BY <1>2, NormType DEF Stores
  <1>4. EventType(n) = IF hard THEN "bounced" ELSE "complained"
    BY <1>1 DEF EventType
  <1> HIDE DEF new, n, hard
  <1>5. /\ j \in Jobs /\ j.kind = job[p].kind /\ j.ev = job[p].ev /\ j.m = job[p].m
        /\ j.pc = "locked" /\ j.row = job[p].row /\ j.tenant = job[p].tenant
        /\ j.email = Address(p) /\ j.reason = (IF hard THEN "hard_bounce" ELSE "complaint")
        /\ j.marketing = TRUE /\ j.transactional = hard /\ j.fresh = new
    <2> DEFINE reason == IF hard THEN "hard_bounce" ELSE "complaint"
    <2>1. reason \in Reasons \cup {"none"}
      BY DEF Reasons
    <2> HIDE DEF reason
    <2>2. j \in Jobs
      BY <1>3, <2>1, ZenonT(60) DEF Jobs, reason
    <2>3. /\ j.kind = job[p].kind /\ j.ev = job[p].ev /\ j.m = job[p].m
          /\ j.row = job[p].row /\ j.tenant = job[p].tenant
      BY <1>3 DEF Jobs
    <2>4. /\ j.pc = "locked" /\ j.email = Address(p) /\ j.reason = reason
          /\ j.marketing = TRUE /\ j.transactional = hard /\ j.fresh = new
      BY <1>3 DEF Jobs, reason
    <2> QED BY <2>2, <2>3, <2>4 DEF reason
  <1> HIDE DEF j
  <1>6. Stores' /\ Grows /\ job'[p] = j /\ inbox' = inbox /\ rows' = rows
    BY <1>1, <1>a, <1>5, OnlyJob DEF Stores
  <1>7. Norm(p)' = n /\ Address(p)' = Address(p)
    BY <1>2, <1>5, <1>6, NormStays, NormType DEF n
  <1>8. InHand(p)'
    BY <1>2, <1>4, <1>5, <1>6, <1>7 DEF InHand, Holding
  <1> QED BY <1>1, <1>2, <1>5, <1>8, GoesTo DEF WriteMessage, new, n, hard

\* Queries while the row is held change only what was read.
LEMMA FindRowMoves ==
    ASSUME Stores, Hands, NEW p \in Procs, FindRow(p)
    PROVE  /\ Goes(p) /\ Holding(p) /\ Holding(p)' /\ job'[p].fresh = job[p].fresh
           /\ job'[p].row # 0 => rows[job'[p].row].live
  <1> DEFINE found == IF RowsLike(job[p]) = {} THEN {0} ELSE RowsLike(job[p])
  <1>1. PICK i \in found : job' = [job EXCEPT ![p] = [job[p] EXCEPT !.pc = "found", !.row = i]]
    BY DEF FindRow
  <1>2. /\ i \in 0..Len(rows) /\ i \in Nat
        /\ i # 0 => /\ rows[i].email = job[p].email /\ rows[i].tenant = job[p].tenant
                    /\ rows[i].reason = job[p].reason /\ rows[i].live
    BY DEF RowsLike, Live, Stores
  <1> HIDE DEF found
  <1> DEFINE j == [job[p] EXCEPT !.pc = "found", !.row = i]
  <1>3. InHand(p) /\ job[p].pc = "locked" /\ job[p].kind = "webhook" /\ job[p] \in Jobs
    BY DEF Hands, FindRow, InHand, Stores
  <1>4. /\ j \in Jobs /\ j.kind = job[p].kind /\ j.ev = job[p].ev /\ j.m = job[p].m
        /\ j.pc = "found" /\ j.row = i /\ j.tenant = job[p].tenant
        /\ j.email = job[p].email /\ j.reason = job[p].reason /\ j.fresh = job[p].fresh
        /\ j.marketing = job[p].marketing /\ j.transactional = job[p].transactional
    <2>1. i \in Nat /\ job[p] \in Jobs
      BY <1>2, <1>3
    <2> QED BY <2>1 DEF Jobs
  <1>5. job' = [job EXCEPT ![p] = j]
    BY <1>1
  <1> HIDE DEF j
  <1>6. Stores' /\ Grows /\ job'[p] = j /\ inbox' = inbox /\ rows' = rows
    BY <1>4, <1>5, OnlyJob DEF FindRow, Stores
  <1>7. Norm(p)' = Norm(p) /\ Address(p)' = Address(p)
    BY <1>3, <1>4, <1>6, NormStays, NormType
  <1>8. InHand(p)'
    BY <1>2, <1>3, <1>4, <1>6, <1>7 DEF InHand, Holding
  <1>9. Goes(p) /\ job'[p] = j
    BY <1>3, <1>4, <1>5, <1>8, GoesTo DEF FindRow
  <1> QED BY <1>2, <1>3, <1>4, <1>9 DEF Holding

\* The row is written and the tenant is read: nothing else is disturbed.
LEMMA ReadTenantMoves ==
    ASSUME Stores, Hands, NEW p \in Procs, ReadTenant(p)
    PROVE  /\ Goes(p) /\ Holding(p) /\ Holding(p)' /\ job'[p].fresh = job[p].fresh
           /\ job'[p].row = job[p].row
  <1> DEFINE j == [job[p] EXCEPT !.pc = "commit", !.pause = pause]
  <1>1. job' = [job EXCEPT ![p] = j]
    BY DEF ReadTenant
  <1>2. InHand(p) /\ job[p].pc = "found" /\ job[p].kind = "webhook" /\ job[p] \in Jobs
        /\ pause \in Pauses
    BY DEF Hands, ReadTenant, Stores
  <1>3. /\ j \in Jobs /\ j.kind = job[p].kind /\ j.ev = job[p].ev /\ j.m = job[p].m
        /\ j.pc = "commit" /\ j.row = job[p].row /\ j.tenant = job[p].tenant
        /\ j.email = job[p].email /\ j.reason = job[p].reason /\ j.fresh = job[p].fresh
        /\ j.marketing = job[p].marketing /\ j.transactional = job[p].transactional
    BY <1>2 DEF Jobs
  <1> HIDE DEF j
  <1>4. Stores' /\ Grows /\ job'[p] = j /\ inbox' = inbox /\ rows' = rows
    BY <1>1, <1>3, OnlyJob DEF ReadTenant, Stores
  <1>5. Norm(p)' = Norm(p) /\ Address(p)' = Address(p)
    BY <1>2, <1>3, <1>4, NormStays, NormType
  <1>6. InHand(p)'
    BY <1>2, <1>3, <1>4, <1>5 DEF InHand, Holding
  <1>7. Goes(p) /\ job'[p] = j
    BY <1>1, <1>2, <1>3, <1>6, GoesTo DEF ReadTenant
  <1> QED BY <1>2, <1>3, <1>7 DEF Holding

\* What is saved of the list's row, whoever saves it.
Listed(j) ==
    /\ rows' = SaveRow(j)
    /\ Len(rows) <= Len(rows')
    /\ \A i \in 1..Len(rows) :
         /\ rows'[i].live = rows[i].live
         /\ i # j.row => rows'[i] = rows[i]
    /\ j.row # 0 => /\ j.row \in 1..Len(rows) /\ rows'[j.row].marketing = j.marketing
                    /\ rows'[j.row].transactional = j.transactional
    /\ j.row = 0 => /\ Len(rows') = Len(rows) + 1
                    /\ rows'[Len(rows')] =
                         [live |-> TRUE, tenant |-> j.tenant, email |-> j.email,
                          reason |-> j.reason, marketing |-> j.marketing,
                          transactional |-> j.transactional]

\* A transaction ends: one message, one row of the list and the records are written.
LEMMA CommitMoves ==
    ASSUME Stores, Hands, NEW p \in Procs, Commit(p)
    PROVE  /\ Ends(p) /\ Holding(p) /\ inbox' = inbox
           /\ job[p].m \in Messages /\ job[p].ev \in 1..Len(inbox) /\ Address(p) \in Emails
           /\ \E status \in {"bounced", "complained"} :
                msg' = [msg EXCEPT ![job[p].m].status = status]
           /\ Listed(job[p])
  <1>1. InHand(p) /\ Holding(p) /\ job[p] \in Jobs /\ job[p].m \in Messages
        /\ job[p].pc = "commit" /\ job[p].kind = "webhook"
    BY DEF Hands, Commit, InHand, Holding, Stores
  <1>2. job[p].ev \in 1..Len(inbox) /\ Address(p) \in Emails
    BY <1>1, NormType
  <1>3. job[p].reason \in Reasons /\ job[p].email \in Emails /\ job[p].row \in 0..Len(rows)
    BY <1>1, <1>2 DEF InHand, Reasons
  <1> DEFINE status == IF job[p].reason = "hard_bounce" THEN "bounced" ELSE "complained"
  <1>4. msg' = [msg EXCEPT ![job[p].m].status = status] /\ status \in {"bounced", "complained"}
    BY DEF Commit
  <1>5. msg' \in [Messages -> [status : Statuses, mid : BOOLEAN]]
    <2>1. status \in Statuses
      BY DEF Statuses
    <2> HIDE DEF status
    <2> QED BY <1>1, <1>4, <2>1, StatusTypes
  <1> HIDE DEF status
  <1>6. rows' = SaveRow(job[p]) /\ inbox' = inbox
    BY DEF Commit, Finish
  <1>7. rows' \in Seq(Rows) /\ Listed(job[p])
        /\ \A i \in 1..Len(rows) : /\ rows'[i].email = rows[i].email
                                   /\ rows'[i].tenant = rows[i].tenant
                                   /\ rows'[i].reason = rows[i].reason
    <2>1. job[p].row # 0 => job[p].row \in 1..Len(rows)
      BY <1>3
    <2> QED BY <1>1, <1>3, <1>6, <2>1, SaveRowTypes DEF Listed
  <1>8. Grows
    BY <1>6, <1>7 DEF Grows, Listed, Stores
  <1>9. pause' \in Pauses
    BY PauseTypes DEF Commit, Stores
  <1>10. Ends(p)
    BY <1>5, <1>6, <1>7, <1>8, <1>9, EndsType DEF Commit, Finish, Stores
  <1> QED BY <1>1, <1>2, <1>4, <1>6, <1>7, <1>10

\* A process that gives up has written nothing but its notice's error.
LEMMA FailMoves ==
    ASSUME Stores, Hands, NEW p \in Procs, Fail(p)
    PROVE  Ends(p) /\ Len(inbox') = Len(inbox)
  <1>1. job[p].ev \in 1..Len(inbox)
    BY NormType DEF Hands, Fail
  <1>2. PICK noted \in BOOLEAN : inbox' = [inbox EXCEPT ![job[p].ev].error = noted]
    BY DEF Fail
  <1> DEFINE n == [inbox[job[p].ev] EXCEPT !.error = noted]
  <1>3. inbox[job[p].ev] \in Notices
    BY <1>1 DEF Stores
  <1>4. n \in Notices /\ n.norm = inbox[job[p].ev].norm
    BY <1>3 DEF Notices
  <1>5. inbox' = [inbox EXCEPT ![job[p].ev] = n]
    BY <1>2
  <1> HIDE DEF n
  <1>6. /\ inbox' \in Seq(Notices) /\ Len(inbox') = Len(inbox) /\ Len(inbox) \in Nat
        /\ \A k \in 1..Len(inbox) : inbox'[k].norm = inbox[k].norm
    BY <1>1, <1>4, <1>5 DEF Stores
  <1>7. Grows
    BY <1>6 DEF Grows, Fail, Stores
  <1> QED BY <1>6, <1>7, EndsType DEF Fail, Stores

\* A process that begins, or that saves and ends, keeps what it does.
LEMMA CheckSendMoves ==
    ASSUME Stores, Hands, NEW p \in Procs, NEW m \in Messages, CheckSend(p, m)
    PROVE  /\ Moves(p) /\ ~Holding(p)' /\ job'[p].kind = "send" /\ job'[p].m = m
           /\ job'[p].pc = "insert"
           /\ job'[p].was = (IF ShouldSuppress(ToEmail[m], TypeOf[m]) THEN "suppressed"
                             ELSE "queued")
  <1> DEFINE was == IF ShouldSuppress(ToEmail[m], TypeOf[m]) THEN "suppressed" ELSE "queued"
             j == [Idle EXCEPT !.pc = "insert", !.kind = "send", !.m = m, !.was = was]
  <1>1. job' = [job EXCEPT ![p] = j]
    BY DEF CheckSend
  <1>2. UNCHANGED <<msg, inbox, rows, unsub, pause, acts>>
    BY DEF CheckSend
  <1>3. was \in {"queued", "suppressed"}
    OBVIOUS
  <1> HIDE DEF was
  <1>4. was \in Statuses
    BY <1>3 DEF Statuses
  <1>5. j \in Jobs
    BY <1>4, IdleType DEF Jobs, Idle, Pauses, Scopes
  <1>6. j.pc = "insert" /\ j.kind = "send" /\ j.m = m /\ j.was = was /\ j.row = 0 /\ j.ev = 0
    BY DEF Idle
  <1> HIDE DEF j
  <1>7. Stores' /\ Grows /\ job'[p] = j /\ \A q \in Procs \ {p} : job'[q] = job[q]
    BY <1>1, <1>2, <1>5, OnlyJob DEF Stores
  <1>8. Len(inbox') \in Nat /\ Len(rows') \in Nat
    BY <1>7 DEF Stores
  <1>9. InHand(p)'
    BY <1>3, <1>6, <1>7, <1>8 DEF InHand, Holding
  <1> QED BY <1>6, <1>7, <1>9 DEF Moves, Holding, was

\* A message is made, as the check of the list decided.
LEMMA InsertMessageMoves ==
    ASSUME Stores, Hands, NEW p \in Procs, InsertMessage(p)
    PROVE  /\ Ends(p) /\ job[p].kind = "send" /\ job[p].m \in Messages
           /\ job[p].was \in {"queued", "suppressed"}
           /\ msg'[job[p].m] = [status |-> job[p].was, mid |-> FALSE]
           /\ \A k \in Messages \ {job[p].m} : msg'[k] = msg[k]
  <1>1. InHand(p) /\ job[p].kind = "send" /\ job[p].m \in Messages
        /\ job[p].was \in {"queued", "suppressed"}
    BY DEF Hands, InsertMessage, InHand
  <1>2. job[p].was \in Statuses
    BY <1>1 DEF Statuses
  <1>3. /\ msg' \in [Messages -> [status : Statuses, mid : BOOLEAN]]
        /\ msg'[job[p].m] = [status |-> job[p].was, mid |-> FALSE]
        /\ \A k \in Messages \ {job[p].m} : msg'[k] = msg[k]
    BY <1>1, <1>2 DEF InsertMessage, Stores
  <1>4. Ends(p)
    BY <1>3, EndsType, GrowsNothing DEF InsertMessage, Stores
  <1> QED BY <1>1, <1>3, <1>4

\* A suppression by hand: the row it will write is one of its own reason.
LEMMA BeginSuppressionMoves ==
    ASSUME Stores, Hands, NEW p \in Procs, NEW tenant \in {"own", "global"},
           BeginSuppression(p, tenant)
    PROVE  /\ Moves(p) /\ ~Holding(p)' /\ job'[p].kind = "manual" /\ job'[p].pc = "found"
           /\ UNCHANGED <<msg, inbox, events, feedback, rows, removed, unsub, pause>>
  <1>1. UNCHANGED <<msg, inbox, events, feedback, rows, removed, unsub, pause>>
    BY DEF BeginSuppression
  <1>2. acts' \in 0..MaxActs
    BY ActTypes DEF BeginSuppression
  <1> DEFINE J(email, marketing, transactional) ==
        [Idle EXCEPT !.pc = "found", !.kind = "manual", !.email = email, !.tenant = tenant,
                     !.reason = "manual", !.marketing = marketing,
                     !.transactional = transactional]
  <1>3. PICK email \in Emails, marketing \in BOOLEAN, transactional \in BOOLEAN :
            /\ ChannelChosen(marketing, transactional)
            /\ \E i \in IF RowsLike(J(email, marketing, transactional)) = {} THEN {0}
                        ELSE RowsLike(J(email, marketing, transactional)) :
                 job' = [job EXCEPT ![p] = [J(email, marketing, transactional) EXCEPT !.row = i]]
    BY Zenon DEF BeginSuppression
  <1> DEFINE j == J(email, marketing, transactional)
  <1>4. PICK i \in IF RowsLike(j) = {} THEN {0} ELSE RowsLike(j) :
            job' = [job EXCEPT ![p] = [j EXCEPT !.row = i]]
    BY <1>3
  <1>5. /\ j \in Jobs /\ j.pc = "found" /\ j.kind = "manual" /\ j.email = email
        /\ j.tenant = tenant /\ j.reason = "manual" /\ j.ev = 0
    BY ZenonT(60) DEF Idle, Jobs, Pauses, Scopes, Statuses, Reasons
  <1> HIDE DEF j, J
  <1>6. /\ i \in 0..Len(rows) /\ i \in Nat
        /\ i # 0 => /\ rows[i].email = email /\ rows[i].tenant = tenant
                    /\ rows[i].reason = "manual"
    BY <1>5 DEF RowsLike, Stores
  <1> DEFINE k == [j EXCEPT !.row = i]
  <1>7. /\ k \in Jobs /\ k.pc = "found" /\ k.kind = "manual" /\ k.email = email
        /\ k.tenant = tenant /\ k.reason = "manual" /\ k.ev = 0 /\ k.row = i
    BY <1>5, <1>6 DEF Jobs
  <1>8. job' = [job EXCEPT ![p] = k]
    BY <1>4
  <1> HIDE DEF k
  <1>9. Stores' /\ Grows /\ job'[p] = k /\ \A q \in Procs \ {p} : job'[q] = job[q]
    BY <1>1, <1>2, <1>7, <1>8, OnlyJob DEF Stores
  <1>10. Len(inbox') \in Nat /\ Len(rows') = Len(rows) /\ rows' = rows
    BY <1>1, <1>9 DEF Stores
  <1>11. InHand(p)'
    BY <1>6, <1>7, <1>9, <1>10 DEF InHand, Holding
  <1> QED BY <1>1, <1>7, <1>9, <1>11 DEF Moves, Holding

\* A row saved by hand is new, or one of the manual reason.
LEMMA SaveManualMoves ==
    ASSUME Stores, Hands, NEW p \in Procs, SaveManual(p)
    PROVE  /\ Ends(p) /\ Listed(job[p]) /\ job[p].kind = "manual"
           /\ job[p].row # 0 => rows[job[p].row].reason = "manual"
  <1>1. InHand(p) /\ job[p] \in Jobs /\ job[p].kind = "manual"
    BY DEF Hands, SaveManual, Stores
  <1>2. job[p].reason \in Reasons /\ job[p].email \in Emails /\ job[p].row \in 0..Len(rows)
    BY <1>1 DEF InHand, Reasons
  <1>3. rows' = SaveRow(job[p]) /\ inbox' = inbox
    BY DEF SaveManual
  <1>4. rows' \in Seq(Rows) /\ Listed(job[p])
        /\ \A i \in 1..Len(rows) : /\ rows'[i].email = rows[i].email
                                   /\ rows'[i].tenant = rows[i].tenant
                                   /\ rows'[i].reason = rows[i].reason
    <2>1. job[p].row # 0 => job[p].row \in 1..Len(rows)
      BY <1>2
    <2> QED BY <1>1, <1>2, <1>3, <2>1, SaveRowTypes DEF Listed
  <1>5. Grows
    BY <1>3, <1>4 DEF Grows, Listed, Stores
  <1>6. Ends(p)
    BY <1>4, <1>5, EndsType DEF SaveManual, Stores
  <1>7. job[p].row # 0 => rows[job[p].row].reason = "manual"
    BY <1>1 DEF InHand
  <1> QED BY <1>1, <1>4, <1>6, <1>7

\* A removal begins with a row that is there.
LEMMA LoadRowMoves ==
    ASSUME Stores, Hands, NEW p \in Procs, NEW i \in DOMAIN rows, LoadRow(p, i)
    PROVE  /\ Moves(p) /\ ~Holding(p)' /\ job'[p].kind = "remove"
           /\ UNCHANGED <<msg, inbox, events, feedback, rows, removed, unsub, pause>>
  <1> DEFINE j == [Idle EXCEPT !.pc = "remove", !.kind = "remove", !.row = i]
  <1>1. job' = [job EXCEPT ![p] = j] /\ acts' \in 0..MaxActs
        /\ UNCHANGED <<msg, inbox, events, feedback, rows, removed, unsub, pause>>
    BY ActTypes DEF LoadRow
  <1>2. i \in 1..Len(rows) /\ i \in Nat /\ Len(rows) \in Nat /\ Len(inbox) \in Nat
    BY DEF Stores
  <1>3. j \in Jobs
    BY <1>2, IdleType DEF Jobs, Idle, Pauses, Scopes, Statuses
  <1>4. j.pc = "remove" /\ j.kind = "remove" /\ j.row = i /\ j.ev = 0
    BY DEF Idle
  <1> HIDE DEF j
  <1>5. Stores' /\ Grows /\ job'[p] = j /\ \A q \in Procs \ {p} : job'[q] = job[q]
    BY <1>1, <1>3, OnlyJob DEF Stores
  <1>6. InHand(p)'
    BY <1>1, <1>2, <1>4, <1>5 DEF InHand, Holding
  <1> QED BY <1>1, <1>4, <1>5, <1>6 DEF Moves, Holding

\* The row is taken off the list, and stays in it as it was otherwise.
LEMMA RemoveMoves ==
    ASSUME Stores, Hands, NEW p \in Procs, RemoveSuppression(p)
    PROVE  /\ Ends(p) /\ job[p].row \in 1..Len(rows) /\ Len(rows') = Len(rows)
           /\ \A i \in 1..Len(rows) : i # job[p].row => rows'[i] = rows[i]
  <1>1. InHand(p) /\ job[p].kind = "remove" /\ job[p].row # 0
    BY DEF Hands, RemoveSuppression, InHand
  <1>2. job[p].row \in 1..Len(rows)
    BY <1>1 DEF InHand, Stores, Jobs
  <1> DEFINE r == [rows[job[p].row] EXCEPT !.live = FALSE]
  <1>3. rows[job[p].row] \in Rows
    BY <1>2 DEF Stores
  <1>4. /\ r \in Rows /\ r.email = rows[job[p].row].email
        /\ r.tenant = rows[job[p].row].tenant /\ r.reason = rows[job[p].row].reason
    BY <1>3 DEF Rows
  <1>5. rows' = [rows EXCEPT ![job[p].row] = r]
    BY DEF RemoveSuppression
  <1> HIDE DEF r
  <1>6. /\ rows' \in Seq(Rows) /\ Len(rows') = Len(rows) /\ Len(rows) \in Nat
        /\ \A i \in 1..Len(rows) : rows'[i] = IF i = job[p].row THEN r ELSE rows[i]
    BY <1>2, <1>4, <1>5 DEF Stores
  <1>7. Grows
    BY <1>2, <1>4, <1>6 DEF Grows, RemoveSuppression, Stores
  <1>8. Ends(p)
    BY <1>6, <1>7, EndsType DEF RemoveSuppression, Stores
  <1> QED BY <1>2, <1>6, <1>8

\* A recomputation begins with the pause as it is.
LEMMA RecomputeMoves ==
    ASSUME Stores, Hands, NEW p \in Procs, Recompute(p)
    PROVE  /\ Moves(p) /\ ~Holding(p)' /\ job'[p].kind = "recompute"
           /\ UNCHANGED <<msg, inbox, events, feedback, rows, removed, unsub, pause>>
  <1> DEFINE j == [Idle EXCEPT !.pc = "commit", !.kind = "recompute", !.pause = pause]
  <1>1. job' = [job EXCEPT ![p] = j] /\ acts' \in 0..MaxActs
        /\ UNCHANGED <<msg, inbox, events, feedback, rows, removed, unsub, pause>>
    BY ActTypes DEF Recompute
  <1>2. pause \in Pauses /\ Len(rows) \in Nat /\ Len(inbox) \in Nat
    BY DEF Stores
  <1>3. j \in Jobs
    BY <1>2, IdleType DEF Jobs, Idle, Statuses
  <1>4. j.pc = "commit" /\ j.kind = "recompute" /\ j.row = 0 /\ j.ev = 0
    BY DEF Idle
  <1> HIDE DEF j
  <1>5. Stores' /\ Grows /\ job'[p] = j /\ \A q \in Procs \ {p} : job'[q] = job[q]
    BY <1>1, <1>3, OnlyJob DEF Stores
  <1>6. InHand(p)'
    BY <1>1, <1>2, <1>4, <1>5 DEF InHand, Holding
  <1> QED BY <1>1, <1>4, <1>5, <1>6 DEF Moves, Holding

\* A recomputation ends with the pause its metrics call for.
LEMMA SaveRecomputedMoves ==
    ASSUME Stores, Hands, NEW p \in Procs, SaveRecomputed(p)
    PROVE  Ends(p)
  <1>1. pause' \in Pauses
    BY PauseTypes DEF SaveRecomputed, Stores
  <1> QED BY <1>1, EndsType, GrowsNothing DEF SaveRecomputed, Stores

\* Steps in which no process takes part.
Rests ==
    \/ \E m \in Messages : HandOver(m) \/ SaveSent(m)
    \/ \E email \in Emails : Unsubscribe(email)
    \/ \E scope \in Scopes : PauseSending(scope)
    \/ ResumeSending
    \/ UNCHANGED vars

\* Steps of no process: they leave the lists, the records and all jobs alone.
LEMMA RestsTypes ==
    ASSUME Stores, Rests
    PROVE  Stores' /\ Grows /\ job' = job /\ inbox' = inbox /\ rows' = rows
           /\ events' = events /\ feedback' = feedback /\ removed' = removed
  <1>1. ASSUME NEW m \in Messages, HandOver(m) \/ SaveSent(m)
        PROVE  Stores'
    <2>1. PICK row \in [status : Statuses, mid : BOOLEAN] : msg' = [msg EXCEPT ![m] = row]
      <3>1. msg \in [Messages -> [status : Statuses, mid : BOOLEAN]]
        BY DEF Stores
      <3>2. CASE HandOver(m)
        <4>1. [msg[m] EXCEPT !.status = "sending"] \in [status : Statuses, mid : BOOLEAN]
          BY <3>1 DEF Statuses
        <4>2. msg' = [msg EXCEPT ![m] = [msg[m] EXCEPT !.status = "sending"]]
          BY <3>1, <3>2 DEF HandOver
        <4> QED BY <4>1, <4>2
      <3>3. CASE SaveSent(m)
        <4>1. [msg[m] EXCEPT !.status = "sent", !.mid = TRUE] \in [status : Statuses, mid : BOOLEAN]
          BY <3>1 DEF Statuses
        <4>2. msg' = [msg EXCEPT ![m] = [msg[m] EXCEPT !.status = "sent", !.mid = TRUE]]
          BY <3>1, <3>3 DEF SaveSent
        <4> QED BY <4>1, <4>2
      <3> QED BY <1>1, <3>2, <3>3
    <2>2. msg' \in [Messages -> [status : Statuses, mid : BOOLEAN]]
      BY <2>1 DEF Stores
    <2> QED BY <1>1, <2>2 DEF HandOver, SaveSent, Stores
  <1>2. ASSUME NEW email \in Emails, Unsubscribe(email)
        PROVE  Stores'
    BY <1>2, ActTypes DEF Unsubscribe, Stores
  <1>3. ASSUME NEW scope \in Scopes, PauseSending(scope)
        PROVE  Stores'
    <2>1. pause' \in Pauses
      BY <1>3 DEF PauseSending, Pauses
    <2> QED BY <1>3, <2>1, ActTypes DEF PauseSending, Stores
  <1>4. ASSUME ResumeSending
        PROVE  Stores'
    <2>1. pause' \in Pauses
      BY <1>4, IdleType DEF ResumeSending
    <2> QED BY <1>4, <2>1 DEF ResumeSending, Stores
  <1>5. ASSUME UNCHANGED vars
        PROVE  Stores'
    BY <1>5 DEF Stores, vars
  <1>6. Stores'
    BY <1>1, <1>2, <1>3, <1>4, <1>5 DEF Rests
  <1>7. UNCHANGED <<job, inbox, rows, events, feedback, removed>>
    BY DEF Rests, HandOver, SaveSent, Unsubscribe, PauseSending, ResumeSending, vars
  <1> QED BY <1>6, <1>7, GrowsNothing

----------------------------------------------------------------------------
(* The steps, by what they can disturb                                     *)

\* Nothing but the process's job and the pause is written, and no row is held.
Quiet(p) ==
    /\ Moves(p) /\ ~Holding(p)'
    /\ UNCHANGED <<msg, events, feedback, rows, removed>>
    /\ job'[p].kind = "webhook" /\ job'[p].pc # "apply" =>
         \/ msg[job'[p].m].mid
         \/ job[p].kind = "webhook" /\ job[p].pc # "apply" /\ job'[p].m = job[p].m
    /\ job'[p].kind = "send" => CheckSend(p, job'[p].m)

\* Queries of a transaction that holds a row.
Reads(p) ==
    /\ Goes(p) /\ Holding(p) /\ Holding(p)' /\ job'[p].fresh = job[p].fresh
    /\ job'[p].row # job[p].row => job'[p].row = 0 \/ rows[job'[p].row].live
    /\ UNCHANGED <<events, feedback, removed>>

\* The quiet steps are quiet.
LEMMA QuietSteps ==
    ASSUME Stores, Hands, NEW p \in Procs,
           \/ \E raw \in Payloads : Receive(p, raw)
           \/ LookUp(p) \/ CheckEvent(p) \/ Fail(p)
           \/ \E m \in Messages : CheckSend(p, m)
           \/ \E tenant \in {"own", "global"} : BeginSuppression(p, tenant)
           \/ \E i \in DOMAIN rows : LoadRow(p, i)
           \/ Recompute(p) \/ SaveRecomputed(p)
    PROVE  Quiet(p)
  <1>1. ASSUME NEW raw \in Payloads, Receive(p, raw)
        PROVE  Quiet(p)
    BY <1>1, ReceiveMoves DEF Quiet, Receive
  <1>2. CASE LookUp(p)
    <2>1. UNCHANGED <<msg, events, feedback, rows, removed>>
      BY <1>2, Zenon DEF LookUp
    <2> QED BY <1>2, <2>1, LookUpMoves DEF Quiet
  <1>3. CASE CheckEvent(p)
    <2>1. UNCHANGED <<msg, events, feedback, rows, removed>> /\ job[p].pc = "write"
      BY <1>3 DEF CheckEvent
    <2>2. Goes(p) /\ job'[p].pc = "event" /\ ~Holding(p)'
      BY <1>3, CheckEventMoves
    <2>3. /\ Moves(p) /\ job[p].kind = "webhook" /\ job'[p].kind = "webhook"
          /\ job'[p].m = job[p].m
      BY <2>2 DEF Goes
    <2> QED BY <2>1, <2>2, <2>3 DEF Quiet
  <1>4. CASE Fail(p)
    BY <1>4, FailMoves DEF Quiet, Fail, Ends
  <1>5. ASSUME NEW m \in Messages, CheckSend(p, m)
        PROVE  Quiet(p)
    <2>1. UNCHANGED <<msg, events, feedback, rows, removed>>
      BY <1>5 DEF CheckSend
    <2> QED BY <1>5, <2>1, CheckSendMoves DEF Quiet
  <1>6. ASSUME NEW tenant \in {"own", "global"}, BeginSuppression(p, tenant)
        PROVE  Quiet(p)
    BY <1>6, BeginSuppressionMoves DEF Quiet
  <1>7. ASSUME NEW i \in DOMAIN rows, LoadRow(p, i)
        PROVE  Quiet(p)
    BY <1>7, LoadRowMoves DEF Quiet
  <1>8. CASE Recompute(p)
    BY <1>8, RecomputeMoves DEF Quiet
  <1>9. CASE SaveRecomputed(p)
    BY <1>9, SaveRecomputedMoves DEF Quiet, SaveRecomputed, Ends
  <1> QED BY <1>1, <1>2, <1>3, <1>4, <1>5, <1>6, <1>7, <1>8, <1>9

\* The queries of a transaction that holds a row read only.
LEMMA ReadSteps ==
    ASSUME Stores, Hands, NEW p \in Procs, FindRow(p) \/ ReadTenant(p)
    PROVE  Reads(p)
  <1>1. CASE FindRow(p)
    BY <1>1, FindRowMoves DEF Reads, FindRow
  <1>2. CASE ReadTenant(p)
    BY <1>2, ReadTenantMoves DEF Reads, ReadTenant
  <1> QED BY <1>1, <1>2

Writes(p) ==
    \/ WriteMessage(p) \/ SettleStatus(p) \/ InsertEvent(p) \/ Commit(p)
    \/ InsertMessage(p) \/ SaveManual(p) \/ RemoveSuppression(p)

\* There are no other steps.
LEMMA StepCases ==
    ASSUME Stores, Hands, [Next]_vars
    PROVE  Rests \/ \E p \in Procs : Quiet(p) \/ Reads(p) \/ Writes(p)
  <1>1. CASE UNCHANGED vars
    BY <1>1 DEF Rests
  <1>2. ASSUME NEW p \in Procs, \E tenant \in {"own", "global"} : BeginSuppression(p, tenant)
        PROVE  Quiet(p)
    BY <1>2, QuietSteps
  <1>3. ASSUME NEW p \in Procs, NEW i \in DOMAIN rows,
               OperatorRemoval(p, i) \/ PortalRemoval(p, i) \/ ApiRemoval(p, i)
        PROVE  Quiet(p)
    BY <1>3, QuietSteps DEF OperatorRemoval, PortalRemoval, ApiRemoval
  <1>4. CASE Next
    BY <1>2, <1>3, <1>4, QuietSteps, ReadSteps
       DEF Next, Writes, Rests, OperatorSuppression, PortalSuppression, ApiSuppression
  <1> QED BY <1>1, <1>4

\* Every step keeps the stores and what the processes have in hand.
LEMMA TypedStep ==
    ASSUME Stores, Hands, [Next]_vars
    PROVE  Stores' /\ Hands' /\ Grows
  <1>1. CASE Rests
    <2>1. Stores' /\ Grows /\ job' = job
      BY <1>1, RestsTypes
    <2> QED BY <2>1, InHandStays DEF Hands
  <1>2. ASSUME NEW p \in Procs, Moves(p)
        PROVE  Stores' /\ Hands' /\ Grows
    BY <1>2, InHandStays DEF Moves, Hands
  <1>3. ASSUME NEW p \in Procs, Writes(p)
        PROVE  Moves(p)
    BY <1>3, WriteMessageMoves, SettleStatusMoves, InsertEventMoves, CommitMoves,
       InsertMessageMoves, SaveManualMoves, RemoveMoves DEF Writes, Ends, Goes
  <1> QED BY <1>1, <1>2, <1>3, StepCases DEF Quiet, Reads, Goes

----------------------------------------------------------------------------
(* Records: events, feedback and removals                                  *)

EventOK(e) == e.msg \in Messages /\ e.ev \in 1..Len(inbox)

FeedbackOK(f) ==
    /\ f.kind \in Kinds /\ f.email \in Emails /\ f.msg \in Messages
    /\ f.ev \in 1..Len(inbox) /\ f.earlier \subseteq Messages

RemovalOK(x) == x.row \in 1..Len(rows) /\ x.upto \in 0..Len(inbox)

\* A pause is on when it has a source.
Sourced(x) == x.on = (x.source # "none")

Records ==
    /\ \A e \in events : EventOK(e)
    /\ \A f \in feedback : FeedbackOK(f)
    /\ \A x \in removed : RemovalOK(x)
    /\ Sourced(pause)

\* What is on record stays in order; what is new has to be looked at.
LEMMA RecordsGrow ==
    ASSUME Stores, Stores', Grows, Records,
           \A e \in events' : e \in events \/ EventOK(e)',
           \A f \in feedback' : f \in feedback \/ FeedbackOK(f)',
           \A x \in removed' : x \in removed \/ RemovalOK(x)',
           Sourced(pause)'
    PROVE  Records'
  <1>1. /\ Len(inbox) \in Nat /\ Len(inbox') \in Nat /\ Len(inbox) <= Len(inbox')
        /\ Len(rows) \in Nat /\ Len(rows') \in Nat /\ Len(rows) <= Len(rows')
    BY DEF Stores, Grows
  <1>2. ASSUME NEW e, EventOK(e)
        PROVE  EventOK(e)'
    BY <1>1, <1>2 DEF EventOK
  <1>3. ASSUME NEW f, FeedbackOK(f)
        PROVE  FeedbackOK(f)'
    BY <1>1, <1>3 DEF FeedbackOK
  <1>4. ASSUME NEW x, RemovalOK(x)
        PROVE  RemovalOK(x)'
    BY <1>1, <1>4 DEF RemovalOK
  <1> QED BY <1>2, <1>3, <1>4 DEF Records

\* The event and the feedback of a notice.
LEMMA NewRecords ==
    ASSUME Stores, Hands, NEW p \in Procs, job[p].kind = "webhook", job[p].m \in Messages,
           NEW kind \in Kinds
    PROVE  /\ EventOK(NewEvent(p, job[p].m, Norm(p)))
           /\ NewEvent(p, job[p].m, Norm(p)).msg = job[p].m
           /\ NewEvent(p, job[p].m, Norm(p)).type = EventType(Norm(p))
           /\ NewEvent(p, job[p].m, Norm(p)).eid = Norm(p).eid
           /\ FeedbackOK(NewFeedback(p, kind))
           /\ NewFeedback(p, kind).kind = kind /\ NewFeedback(p, kind).email = Address(p)
           /\ NewFeedback(p, kind).ev = job[p].ev /\ NewFeedback(p, kind).earlier = Checked
  <1>1. job[p].ev \in 1..Len(inbox) /\ Address(p) \in Emails
    BY NormType DEF Hands
  <1>2. Checked \subseteq Messages
    BY DEF Checked, Hands, InHand
  <1> QED BY <1>1, <1>2 DEF NewEvent, NewFeedback, EventOK, FeedbackOK

\* The check for an event finds it, or allows exactly that one.
LEMMA EventChecked ==
    ASSUME NEW p \in Procs, NEW m, NEW n
    PROVE  /\ CreateMessageEventIdempotent(p, m, n) \subseteq {NewEvent(p, m, n)}
           /\ CreateMessageEventIdempotent(p, m, n) # {} /\ n.eid # <<>> =>
                ~\E e \in events : e.msg = m /\ e.type = EventType(n) /\ e.eid = n.eid
  BY DEF CreateMessageEventIdempotent, EventFor

\* Who writes the pause.
LEMMA PauseWriters ==
    ASSUME [Next]_vars
    PROVE  \/ pause' = pause \/ ResumeSending \/ \E scope \in Scopes : PauseSending(scope)
           \/ \E p \in Procs : Commit(p) \/ SaveRecomputed(p)
  <1>1. ASSUME NEW p \in Procs,
               \/ \E raw \in Payloads : Receive(p, raw)
               \/ LookUp(p) \/ SettleStatus(p) \/ CheckEvent(p) \/ InsertEvent(p)
               \/ WriteMessage(p) \/ FindRow(p) \/ ReadTenant(p) \/ Fail(p)
        PROVE  pause' = pause
    BY <1>1 DEF Receive, LookUp, SettleStatus, CheckEvent, InsertEvent, WriteMessage, FindRow,
                ReadTenant, Fail
  <1>2. ASSUME NEW p \in Procs,
               \/ \E m \in Messages : CheckSend(p, m)
               \/ InsertMessage(p) \/ SaveManual(p) \/ RemoveSuppression(p) \/ Recompute(p)
        PROVE  pause' = pause
    BY <1>2 DEF CheckSend, InsertMessage, SaveManual, RemoveSuppression, Recompute
  <1>3. ASSUME NEW p \in Procs,
               OperatorSuppression(p) \/ PortalSuppression(p) \/ ApiSuppression(p)
        PROVE  pause' = pause
    BY <1>3 DEF OperatorSuppression, PortalSuppression, ApiSuppression, BeginSuppression
  <1>4. ASSUME NEW p \in Procs, NEW i \in DOMAIN rows,
               OperatorRemoval(p, i) \/ PortalRemoval(p, i) \/ ApiRemoval(p, i)
        PROVE  pause' = pause
    BY <1>4 DEF OperatorRemoval, PortalRemoval, ApiRemoval, LoadRow
  <1>5. ASSUME \/ \E m \in Messages : HandOver(m) \/ SaveSent(m)
               \/ \E email \in Emails : Unsubscribe(email)
               \/ UNCHANGED vars
        PROVE  pause' = pause
    BY <1>5 DEF HandOver, SaveSent, Unsubscribe, vars
  <1> QED BY <1>1, <1>2, <1>3, <1>4, <1>5 DEF Next

\* Whoever writes the pause gives it a source just when it is on.
LEMMA PauseStep ==
    ASSUME Sourced(pause), [Next]_vars
    PROVE  Sourced(pause)'
  <1>1. ASSUME NEW read, NEW status, pause' = ApplyAutomatedRiskPause(read, status)
        PROVE  Sourced(pause)'
    <2>1. CASE pause' = pause
      BY <2>1 DEF Sourced
    <2>2. CASE pause' = [on |-> TRUE, scope |-> PauseScope(status), source |-> "auto"]
      <3>1. pause'.on = TRUE /\ pause'.source = "auto"
        BY <2>2
      <3> QED BY <3>1 DEF Sourced
    <2> QED BY <1>1, <2>1, <2>2 DEF ApplyAutomatedRiskPause
  <1>2. ASSUME NEW p \in Procs, Commit(p) \/ SaveRecomputed(p)
        PROVE  Sourced(pause)'
    BY <1>1, <1>2 DEF Commit, SaveRecomputed
  <1>3. ASSUME NEW scope \in Scopes, PauseSending(scope)
        PROVE  Sourced(pause)'
    BY <1>3 DEF PauseSending, Sourced
  <1>4. CASE ResumeSending
    BY <1>4 DEF ResumeSending, Idle, Sourced
  <1>5. CASE pause' = pause
    BY <1>5 DEF Sourced
  <1> QED BY <1>2, <1>3, <1>4, <1>5, PauseWriters

\* Every step keeps the records in order.
LEMMA RecordsStep ==
    ASSUME Stores, Hands, Records, [Next]_vars
    PROVE  Records'
  <1>1. Stores' /\ Hands' /\ Grows /\ Sourced(pause)'
    BY TypedStep, PauseStep DEF Records
  <1>2. Len(inbox) \in Nat /\ Len(rows) \in Nat
    BY DEF Stores
  <1> DEFINE Goal == /\ \A e \in events' : e \in events \/ EventOK(e)'
                     /\ \A f \in feedback' : f \in feedback \/ FeedbackOK(f)'
                     /\ \A x \in removed' : x \in removed \/ RemovalOK(x)'
  <1>3. CASE UNCHANGED <<events, feedback, removed>>
    BY <1>1, <1>3, RecordsGrow
  <1>4. ASSUME NEW p \in Procs, SettleStatus(p) \/ InsertEvent(p) \/ Commit(p)
        PROVE  Goal
    <2>1. job[p].kind = "webhook" /\ job[p].m \in Messages /\ inbox' = inbox
      BY <1>4, SettleStatusMoves, InsertEventMoves, CommitMoves
         DEF SettleStatus, InsertEvent, Commit, Finish
    <2>2. \A e \in events' : e \in events \/ e = NewEvent(p, job[p].m, Norm(p))
      BY <1>4, EventChecked DEF SettleStatus, InsertEvent, Commit
    <2>3. \A f \in feedback' : f \in feedback \/ \E kind \in Kinds : f = NewFeedback(p, kind)
      BY <1>4 DEF SettleStatus, InsertEvent, Commit, Kinds
    <2>4. ASSUME NEW e, EventOK(e)
          PROVE  EventOK(e)'
      BY <2>1, <2>4 DEF EventOK
    <2>5. ASSUME NEW f, FeedbackOK(f)
          PROVE  FeedbackOK(f)'
      BY <2>1, <2>5 DEF FeedbackOK
    <2>6. removed' = removed
      BY <1>4 DEF SettleStatus, InsertEvent, Commit
    <2>7. \A e \in events' : e \in events \/ EventOK(e)'
      BY <2>1, <2>2, <2>4, NewRecords DEF Kinds
    <2>8. \A f \in feedback' : f \in feedback \/ FeedbackOK(f)'
      BY <2>1, <2>3, <2>5, NewRecords
    <2> QED BY <2>6, <2>7, <2>8
  <1>5. ASSUME NEW p \in Procs, RemoveSuppression(p)
        PROVE  Goal
    <2>1. job[p].row \in 1..Len(rows) /\ Len(rows') = Len(rows) /\ inbox' = inbox
      BY <1>5, RemoveMoves DEF RemoveSuppression
    <2>2. removed' = removed \cup {[row |-> job[p].row, upto |-> Len(inbox)]}
          /\ events' = events /\ feedback' = feedback
      BY <1>5 DEF RemoveSuppression
    <2> QED BY <1>2, <2>1, <2>2 DEF RemovalOK
  <1>6. \/ UNCHANGED <<events, feedback, removed>>
        \/ \E p \in Procs : SettleStatus(p) \/ InsertEvent(p) \/ Commit(p) \/ RemoveSuppression(p)
    <2>1. CASE Rests
      BY <2>1, RestsTypes
    <2>2. ASSUME NEW p \in Procs, Quiet(p) \/ Reads(p)
          PROVE  UNCHANGED <<events, feedback, removed>>
      BY <2>2 DEF Quiet, Reads
    <2>3. ASSUME NEW p \in Procs, WriteMessage(p) \/ InsertMessage(p) \/ SaveManual(p)
          PROVE  UNCHANGED <<events, feedback, removed>>
      BY <2>3 DEF WriteMessage, InsertMessage, SaveManual
    <2> QED BY <2>1, <2>2, <2>3, StepCases DEF Writes
  <1> HIDE DEF Goal
  <1> QED BY <1>1, <1>3, <1>4, <1>5, <1>6, RecordsGrow DEF Goal

----------------------------------------------------------------------------
(* StatusEventOnce: one transaction at a time holds a message, and what it  *)
(* found missing stays missing until it ends                                *)

LockInv ==
    \A p, q \in Procs : Holding(p) /\ Holding(q) /\ job[p].m = job[q].m => p = q

Known(p) ==
    \E e \in events : /\ e.msg = job[p].m /\ e.type = EventType(Norm(p))
                      /\ e.eid = Norm(p).eid

FreshInv == \A p \in Procs : Holding(p) /\ job[p].fresh /\ Norm(p).eid # <<>> => ~Known(p)

OnceInv == LockInv /\ FreshInv /\ StatusEventOnce

\* A process that holds a row and does nothing knows what it knew.
LEMMA HolderStays ==
    ASSUME Stores, Stores', Hands, Grows, NEW q \in Procs, job'[q] = job[q]
    PROVE  /\ Holding(q)' = Holding(q)
           /\ Holding(q) => Norm(q)' = Norm(q) /\ job[q].m \in Messages
                            /\ EventType(Norm(q)) \in {"bounced", "complained"}
  <1>1. Holding(q)' = Holding(q)
    BY DEF Holding
  <1>2. Holding(q) => job[q].ev \in 1..Len(inbox) /\ InHand(q)
    BY NormType DEF Holding, Hands
  <1> QED BY <1>1, <1>2, NormStays DEF InHand, Holding

\* Events of no status, or of one that holds no row: no holder's event, and not
\* twice what is there.
LEMMA OnceWhenAdded ==
    ASSUME Stores, Stores', Hands, Grows, OnceInv, NEW p \in Procs, ~Holding(p)',
           \A q \in Procs \ {p} : job'[q] = job[q],
           \A e \in events' \ events :
             /\ e.type \notin {"bounced", "complained"}
             /\ \A f \in events' : e.msg = f.msg /\ e.type = f.type /\ e.eid = f.eid
                    /\ e.eid # <<>> /\ e.type \in Settling => e = f
    PROVE  OnceInv'
  <1>1. LockInv'
    BY HolderStays DEF OnceInv, LockInv
  <1>2. FreshInv'
    <2> SUFFICES ASSUME NEW q \in Procs, Holding(q)', job'[q].fresh, Norm(q)'.eid # <<>>,
                        Known(q)'
                 PROVE  FALSE
      BY DEF FreshInv
    <2>1. q # p /\ job'[q] = job[q] /\ Holding(q) /\ Norm(q)' = Norm(q)
          /\ EventType(Norm(q)) \in {"bounced", "complained"}
      BY HolderStays
    <2>2. PICK e \in events' : /\ e.msg = job[q].m /\ e.type = EventType(Norm(q))
                               /\ e.eid = Norm(q).eid
      BY <2>1 DEF Known
    <2>3. e \in events
      BY <2>1, <2>2
    <2> QED BY <2>1, <2>2, <2>3 DEF OnceInv, FreshInv, Known
  <1>3. StatusEventOnce'
    BY DEF OnceInv, StatusEventOnce, Settling
  <1> QED BY <1>1, <1>2, <1>3 DEF OnceInv

\* Every step keeps what StatusEventOnce needs.
LEMMA OnceStep ==
    ASSUME Stores, Hands, Records, OnceInv, [Next]_vars
    PROVE  OnceInv'
  <1>1. Stores' /\ Hands' /\ Grows
    BY TypedStep
  <1>2. CASE Rests
    <2>1. job' = job /\ events' = events
      BY <1>2, RestsTypes
    <2>2. LockInv'
      BY <1>1, <2>1, HolderStays DEF OnceInv, LockInv
    <2>3. FreshInv'
      BY <1>1, <2>1, HolderStays DEF OnceInv, FreshInv, Known
    <2> QED BY <2>1, <2>2, <2>3 DEF OnceInv, StatusEventOnce
  <1>3. ASSUME NEW p \in Procs,
               Quiet(p) \/ InsertMessage(p) \/ SaveManual(p) \/ RemoveSuppression(p)
        PROVE  OnceInv'
    <2>1. events' = events /\ ~Holding(p)' /\ \A q \in Procs \ {p} : job'[q] = job[q]
      BY <1>3, InsertMessageMoves, SaveManualMoves, RemoveMoves
         DEF Quiet, InsertMessage, SaveManual, RemoveSuppression, Ends, Moves
    <2> QED BY <1>1, <2>1, OnceWhenAdded
  <1>4. ASSUME NEW p \in Procs, Reads(p)
        PROVE  OnceInv'
    <2>1. /\ events' = events /\ Holding(p) /\ Holding(p)' /\ job'[p].m = job[p].m
          /\ job'[p].fresh = job[p].fresh /\ Norm(p)' = Norm(p)
          /\ \A q \in Procs \ {p} : job'[q] = job[q]
      BY <1>4 DEF Reads, Goes, Moves
    <2>2. LockInv'
      BY <1>1, <2>1, HolderStays DEF OnceInv, LockInv
    <2>3. FreshInv'
      <3> SUFFICES ASSUME NEW q \in Procs, Holding(q)', job'[q].fresh, Norm(q)'.eid # <<>>,
                          Known(q)'
                   PROVE  FALSE
        BY DEF FreshInv
      <3>1. /\ Holding(q) /\ job'[q].fresh = job[q].fresh /\ job'[q].m = job[q].m
            /\ Norm(q)' = Norm(q)
        BY <1>1, <2>1, HolderStays
      <3>2. Known(q)
        BY <2>1, <3>1 DEF Known
      <3> QED BY <3>1, <3>2 DEF OnceInv, FreshInv
    <2> QED BY <2>1, <2>2, <2>3 DEF OnceInv, StatusEventOnce
  <1>5. ASSUME NEW p \in Procs, WriteMessage(p)
        PROVE  OnceInv'
    <2>1. /\ Goes(p) /\ Unlocked(job[p].m) /\ job'[p].m = job[p].m /\ Norm(p)' = Norm(p)
          /\ job'[p].fresh = (CreateMessageEventIdempotent(p, job[p].m, Norm(p)) # {})
          /\ \A q \in Procs \ {p} : job'[q] = job[q]
      BY <1>5, WriteMessageMoves DEF Goes, Moves
    <2>2. events' = events
      BY <1>5 DEF WriteMessage
    <2>3. \A q \in Procs : Holding(q) => job[q].m # job[p].m
      BY <2>1 DEF Unlocked, Holding
    <2>4. LockInv'
      BY <1>1, <2>1, <2>3, HolderStays DEF OnceInv, LockInv
    <2>5. FreshInv'
      <3> SUFFICES ASSUME NEW q \in Procs, Holding(q)', job'[q].fresh, Norm(q)'.eid # <<>>,
                          Known(q)'
                   PROVE  FALSE
        BY DEF FreshInv
      <3>1. CASE q = p
        <4>1. ~\E e \in events : /\ e.msg = job[p].m /\ e.type = EventType(Norm(p))
                                 /\ e.eid = Norm(p).eid
          BY <2>1, <3>1, EventChecked
        <4> QED BY <2>1, <2>2, <3>1, <4>1 DEF Known
      <3>2. CASE q # p
        <4>1. Holding(q) /\ job'[q] = job[q] /\ Norm(q)' = Norm(q)
          BY <1>1, <2>1, <3>2, HolderStays
        <4>2. Known(q)
          BY <2>2, <4>1 DEF Known
        <4> QED BY <4>1, <4>2 DEF OnceInv, FreshInv
      <3> QED BY <3>1, <3>2
    <2> QED BY <2>2, <2>4, <2>5 DEF OnceInv, StatusEventOnce
  <1>6. ASSUME NEW p \in Procs, SettleStatus(p)
        PROVE  OnceInv'
    <2> DEFINE new == CreateMessageEventIdempotent(p, job[p].m, Norm(p))
               e == NewEvent(p, job[p].m, Norm(p))
    <2>1. /\ Ends(p) /\ job[p].kind = "webhook" /\ job[p].m \in Messages
          /\ EventType(Norm(p)) \in {"delivered", "failed", "deferred"}
      BY <1>6, SettleStatusMoves
    <2>2. events' = events \cup new
      BY <1>6 DEF SettleStatus
    <2>3. e.msg = job[p].m /\ e.type = EventType(Norm(p)) /\ e.eid = Norm(p).eid
      BY <2>1, NewRecords DEF Kinds
    <2>4. new \subseteq {e}
      BY EventChecked
    <2>5. ASSUME NEW f \in events, e \in new, e.msg = f.msg, e.type = f.type, e.eid = f.eid
          PROVE  e.eid = <<>>
      BY <2>3, <2>5, EventChecked
    <2> HIDE DEF new, e
    <2> QED BY <1>1, <2>1, <2>2, <2>3, <2>4, <2>5, OnceWhenAdded DEF Ends, Moves
  <1>7. ASSUME NEW p \in Procs, InsertEvent(p)
        PROVE  OnceInv'
    <2> DEFINE e == NewEvent(p, job[p].m, Norm(p))
    <2>1. /\ Ends(p) /\ job[p].kind = "webhook" /\ job[p].m \in Messages
          /\ EventType(Norm(p)) \notin Settling
      BY <1>7, InsertEventMoves
    <2>2. events' \subseteq events \cup {e}
      BY <1>7 DEF InsertEvent
    <2>3. e.type = EventType(Norm(p))
      BY <2>1, NewRecords DEF Kinds
    <2> HIDE DEF e
    <2> QED BY <1>1, <2>1, <2>2, <2>3, OnceWhenAdded DEF Ends, Moves, Settling
  <1>8. ASSUME NEW p \in Procs, Commit(p)
        PROVE  OnceInv'
    <2> DEFINE e == NewEvent(p, job[p].m, Norm(p))
    <2>1. /\ Ends(p) /\ Holding(p) /\ job[p].m \in Messages /\ ~Holding(p)'
          /\ \A q \in Procs \ {p} : job'[q] = job[q]
      BY <1>8, CommitMoves DEF Ends, Moves
    <2>2. events' = events \cup IF job[p].fresh THEN {e} ELSE {}
      BY <1>8 DEF Commit
    <2>3. e.msg = job[p].m /\ e.type = EventType(Norm(p)) /\ e.eid = Norm(p).eid
      BY <2>1, NewRecords DEF Kinds, Holding
    <2> HIDE DEF e
    <2>4. job[p].fresh /\ Norm(p).eid # <<>> =>
            ~\E f \in events : f.msg = e.msg /\ f.type = e.type /\ f.eid = e.eid
      BY <2>1, <2>3 DEF OnceInv, FreshInv, Known
    <2>5. LockInv'
      BY <1>1, <2>1, HolderStays DEF OnceInv, LockInv
    <2>6. FreshInv'
      <3> SUFFICES ASSUME NEW q \in Procs, Holding(q)', job'[q].fresh, Norm(q)'.eid # <<>>,
                          Known(q)'
                   PROVE  FALSE
        BY DEF FreshInv
      <3>1. q # p /\ Holding(q) /\ job'[q] = job[q] /\ Norm(q)' = Norm(q)
        BY <1>1, <2>1, HolderStays
      <3>2. job[q].m # job[p].m
        BY <2>1, <3>1 DEF OnceInv, LockInv
      <3>3. Known(q)
        BY <2>2, <2>3, <3>1, <3>2 DEF Known
      <3> QED BY <3>1, <3>3 DEF OnceInv, FreshInv
    <2>7. StatusEventOnce'
      BY <2>2, <2>3, <2>4 DEF OnceInv, StatusEventOnce
    <2> QED BY <2>5, <2>6, <2>7 DEF OnceInv
  <1> QED BY <1>2, <1>3, <1>4, <1>5, <1>6, <1>7, <1>8, StepCases DEF Writes

----------------------------------------------------------------------------
(* FeedbackKeepsOut: what a transaction found on the list is on it when it  *)
(* ends, or somebody has taken it off after the notice came in              *)

GoneInv ==
    \A p \in Procs : Holding(p) /\ job[p].row # 0 /\ ~rows[job[p].row].live =>
        \E x \in removed : x.row = job[p].row /\ x.upto >= job[p].ev

\* A row that keeps an address out for a reason.
Backed(f) ==
    \E i \in DOMAIN rows :
        /\ rows[i].live /\ rows[i].tenant = "own" /\ rows[i].email = f.email
        /\ rows[i].reason = Reason(f.kind)
        /\ rows[i].marketing /\ (f.kind = "hard" => rows[i].transactional)

BackedInv == GoneInv /\ FeedbackKeepsOut

\* FeedbackKeepsOut, by the row that backs each record.
LEMMA Backing ==
    FeedbackKeepsOut <=> \A f \in feedback : f.kind # "soft" => (Lifted(f) \/ Backed(f))
  BY Zenon DEF FeedbackKeepsOut, Backed

\* The same of the state after a step.
LEMMA BackingNext ==
    FeedbackKeepsOut' <=> \A f \in feedback' : f.kind # "soft" => (Lifted(f)' \/ Backed(f)')
  BY Zenon DEF FeedbackKeepsOut, Backed

\* What was lifted stays so.
LEMMA LiftedStays ==
    ASSUME Stores, Grows, Records, removed \subseteq removed', NEW f, Lifted(f)
    PROVE  Lifted(f)'
  <1>1. PICK x \in removed : /\ x.upto >= f.ev /\ rows[x.row].email = f.email
                             /\ rows[x.row].reason = Reason(f.kind)
    BY DEF Lifted
  <1>2. x \in removed' /\ x.row \in 1..Len(rows)
    BY <1>1 DEF Records, RemovalOK
  <1>3. rows'[x.row].email = rows[x.row].email /\ rows'[x.row].reason = rows[x.row].reason
    BY <1>2 DEF Grows
  <1> QED BY <1>1, <1>2, <1>3 DEF Lifted

\* A row that is saved by hand backs nothing; one that a notice saves goes on backing.
LEMMA BackedStays ==
    ASSUME Stores, Stores', Grows, NEW j, Listed(j), NEW f, Backed(f),
           j.row # 0 => \/ rows[j.row].reason = "manual"
                        \/ j.marketing /\ (rows[j.row].reason = "hard_bounce" => j.transactional)
    PROVE  Backed(f)'
  <1>1. Len(rows) \in Nat /\ Len(rows') \in Nat /\ Len(rows) <= Len(rows')
    BY DEF Stores, Grows
  <1>2. PICK i \in 1..Len(rows) :
            /\ rows[i].live /\ rows[i].tenant = "own" /\ rows[i].email = f.email
            /\ rows[i].reason = Reason(f.kind)
            /\ rows[i].marketing /\ (f.kind = "hard" => rows[i].transactional)
    <2>1. DOMAIN rows = 1..Len(rows)
      BY DEF Stores
    <2> QED BY <2>1, Zenon DEF Backed
  <1>3. i \in DOMAIN rows'
    BY <1>1, <1>2 DEF Stores
  <1>4. /\ rows'[i].live
        /\ rows'[i].tenant = "own" /\ rows'[i].email = f.email
        /\ rows'[i].reason = Reason(f.kind)
    BY <1>2 DEF Grows, Listed
  <1>5. rows'[i].marketing /\ (f.kind = "hard" => rows'[i].transactional)
    <2>1. CASE i # j.row
      BY <1>2, <2>1 DEF Listed
    <2>2. CASE i = j.row
      <3>1. j.row # 0
        BY <1>2, <2>2
      <3> QED BY <1>2, <2>2, <3>1 DEF Listed, Reason
    <2> QED BY <2>1, <2>2
  <1> QED BY <1>3, <1>4, <1>5 DEF Backed

\* No row is taken off: a holder's row is as it was.
LEMMA GoneStays ==
    ASSUME Stores, Stores', Hands, Grows, BackedInv, removed \subseteq removed',
           \A i \in 1..Len(rows) : rows'[i].live = rows[i].live,
           NEW q \in Procs, job'[q] = job[q]
    PROVE  Holding(q)' /\ job'[q].row # 0 /\ ~rows'[job'[q].row].live =>
             \E x \in removed' : x.row = job'[q].row /\ x.upto >= job'[q].ev
  <1>1. job[q].row # 0 => job[q].row \in 1..Len(rows)
    BY DEF Hands, InHand, Stores, Jobs
  <1> QED BY <1>1, HolderStays DEF BackedInv, GoneInv

\* Every step keeps what FeedbackKeepsOut needs.
LEMMA BackedStep ==
    ASSUME Stores, Hands, Records, BackedInv, [Next]_vars
    PROVE  BackedInv'
  <1>1. Stores' /\ Hands' /\ Grows
    BY TypedStep
  <1>2. ASSUME UNCHANGED <<rows, removed>>,
               \A f \in feedback' \ feedback : f.kind = "soft"
        PROVE  FeedbackKeepsOut'
    <2>1. \A f \in feedback : f.kind # "soft" => (Lifted(f) \/ Backed(f))
      BY Backing DEF BackedInv
    <2>2. \A f : (Lifted(f)' <=> Lifted(f)) /\ (Backed(f)' <=> Backed(f))
      BY <1>2 DEF Lifted, Backed
    <2>3. \A f \in feedback' : f.kind # "soft" => (Lifted(f)' \/ Backed(f)')
      BY <1>2, <2>1, <2>2
    <2> QED BY <2>3, BackingNext
  <1>3. CASE Rests
    <2>1. job' = job /\ UNCHANGED <<rows, removed, feedback>>
      BY <1>3, RestsTypes
    <2>2. GoneInv'
      BY <1>1, <2>1, GoneStays DEF GoneInv
    <2> QED BY <1>2, <2>1, <2>2 DEF BackedInv
  <1>4. ASSUME NEW p \in Procs, Quiet(p) \/ InsertMessage(p) \/ SettleStatus(p) \/ InsertEvent(p)
        PROVE  BackedInv'
    <2>1. /\ ~Holding(p)' /\ \A q \in Procs \ {p} : job'[q] = job[q]
          /\ rows' = rows /\ removed' = removed
          /\ \A f \in feedback' \ feedback : f.kind = "soft"
      <3>1. CASE Quiet(p)
        BY <3>1 DEF Quiet, Moves
      <3>2. CASE InsertMessage(p)
        BY <3>2, InsertMessageMoves DEF InsertMessage, Ends, Moves
      <3>3. CASE SettleStatus(p)
        <4>1. \A f \in feedback' \ feedback : f = NewFeedback(p, "soft")
          BY <3>3 DEF SettleStatus
        <4>2. \A f \in feedback' \ feedback : f.kind = "soft"
          BY <4>1 DEF NewFeedback
        <4>3. rows' = rows /\ removed' = removed
          BY <3>3 DEF SettleStatus
        <4> QED BY <3>3, <4>2, <4>3, SettleStatusMoves DEF Ends, Moves
      <3>4. CASE InsertEvent(p)
        BY <3>4, InsertEventMoves DEF InsertEvent, Ends, Moves
      <3> QED BY <1>4, <3>1, <3>2, <3>3, <3>4
    <2>2. GoneInv'
      BY <1>1, <2>1, GoneStays DEF GoneInv
    <2> QED BY <1>2, <2>1, <2>2 DEF BackedInv
  <1>5. ASSUME NEW p \in Procs, Reads(p) \/ WriteMessage(p)
        PROVE  BackedInv'
    <2>1. /\ job'[p].row # 0 /\ ~rows[job'[p].row].live =>
                Holding(p) /\ job'[p].row = job[p].row /\ job'[p].ev = job[p].ev
          /\ \A q \in Procs \ {p} : job'[q] = job[q]
          /\ rows' = rows /\ removed' = removed /\ feedback' = feedback
      <3>1. CASE Reads(p)
        BY <3>1 DEF Reads, Goes, Moves
      <3>2. CASE WriteMessage(p)
        <4>1. InHand(p) /\ job[p].pc = "write"
          BY <3>2 DEF Hands, WriteMessage
        <4>2. job[p].row = 0
          BY <4>1 DEF InHand
        <4>3. rows' = rows /\ removed' = removed /\ feedback' = feedback
          BY <3>2 DEF WriteMessage
        <4> QED BY <3>2, <4>2, <4>3, WriteMessageMoves DEF Goes, Moves
      <3> QED BY <1>5, <3>1, <3>2
    <2>2. GoneInv'
      <3>1. ASSUME NEW q \in Procs \ {p}, Holding(q)', job'[q].row # 0, ~rows'[job'[q].row].live
            PROVE  \E x \in removed' : x.row = job'[q].row /\ x.upto >= job'[q].ev
        BY <1>1, <2>1, <3>1, GoneStays
      <3>2. ASSUME job'[p].row # 0, ~rows'[job'[p].row].live
            PROVE  \E x \in removed' : x.row = job'[p].row /\ x.upto >= job'[p].ev
        BY <2>1, <3>2 DEF BackedInv, GoneInv
      <3> QED BY <3>1, <3>2 DEF GoneInv
    <2> QED BY <1>2, <2>1, <2>2 DEF BackedInv
  <1>6. ASSUME NEW p \in Procs, SaveManual(p)
        PROVE  BackedInv'
    <2>1. /\ ~Holding(p)' /\ \A q \in Procs \ {p} : job'[q] = job[q]
          /\ Listed(job[p]) /\ (job[p].row # 0 => rows[job[p].row].reason = "manual")
      BY <1>6, SaveManualMoves DEF Ends, Moves
    <2>2. removed' = removed /\ feedback' = feedback
      BY <1>6 DEF SaveManual
    <2>3. GoneInv'
      BY <1>1, <2>1, <2>2, GoneStays DEF GoneInv, Listed
    <2>4. \A f \in feedback : f.kind # "soft" => (Lifted(f) \/ Backed(f))
      BY Backing DEF BackedInv
    <2>5. \A f \in feedback' : f.kind # "soft" => (Lifted(f)' \/ Backed(f)')
      BY <1>1, <2>1, <2>2, <2>4, LiftedStays, BackedStays
    <2>6. FeedbackKeepsOut'
      BY <2>5, BackingNext
    <2> QED BY <2>3, <2>6 DEF BackedInv
  <1>7. ASSUME NEW p \in Procs, RemoveSuppression(p)
        PROVE  BackedInv'
    <2> DEFINE x == [row |-> job[p].row, upto |-> Len(inbox)]
    <2>1. /\ ~Holding(p)' /\ \A q \in Procs \ {p} : job'[q] = job[q]
          /\ job[p].row \in 1..Len(rows) /\ Len(rows') = Len(rows)
          /\ \A i \in 1..Len(rows) : i # job[p].row => rows'[i] = rows[i]
      BY <1>7, RemoveMoves DEF Ends, Moves
    <2>2. removed' = removed \cup {x} /\ feedback' = feedback
      BY <1>7 DEF RemoveSuppression
    <2>3. x.row = job[p].row /\ x.upto = Len(inbox) /\ Len(inbox) \in Nat
      BY DEF Stores
    <2> HIDE DEF x
    <2>4. GoneInv'
      <3> SUFFICES ASSUME NEW q \in Procs, Holding(q)', job'[q].row # 0,
                          ~rows'[job'[q].row].live
                   PROVE  \E y \in removed' : y.row = job'[q].row /\ y.upto >= job'[q].ev
        BY DEF GoneInv
      <3>1. job'[q] = job[q] /\ Holding(q)
        BY <1>1, <2>1, HolderStays
      <3>4. job[q].ev \in 0..Len(inbox) /\ job[q].row \in 0..Len(rows)
        BY DEF Hands, InHand
      <3>5. job[q].ev <= Len(inbox) /\ job[q].row \in 1..Len(rows)
        BY <2>3, <3>1, <3>4
      <3>2. CASE job[q].row = job[p].row
        BY <2>2, <2>3, <3>1, <3>2, <3>5
      <3>3. CASE job[q].row # job[p].row
        BY <2>1, <2>2, <3>1, <3>3, <3>5 DEF BackedInv, GoneInv
      <3> QED BY <3>2, <3>3
    <2>5. ASSUME NEW f \in feedback, f.kind # "soft"
          PROVE  Lifted(f)' \/ Backed(f)'
      <3>1. CASE Lifted(f)
        BY <1>1, <2>2, <3>1, LiftedStays
      <3>2. CASE Backed(f)
        <4>1. PICK i \in 1..Len(rows) :
                /\ rows[i].live /\ rows[i].tenant = "own" /\ rows[i].email = f.email
                /\ rows[i].reason = Reason(f.kind)
                /\ rows[i].marketing /\ (f.kind = "hard" => rows[i].transactional)
          BY <3>2 DEF Backed, Stores
        <4>2. CASE i = job[p].row
          <5>1. rows'[i].email = f.email /\ rows'[i].reason = Reason(f.kind)
            BY <1>1, <4>1 DEF Grows
          <5>2. Len(inbox) >= f.ev
            BY <2>3 DEF Records, FeedbackOK
          <5> QED BY <2>2, <2>3, <4>2, <5>1, <5>2 DEF Lifted
        <4>3. CASE i # job[p].row
          <5>1. rows'[i] = rows[i] /\ i \in DOMAIN rows'
            BY <1>1, <2>1, <4>1, <4>3 DEF Stores
          <5> QED BY <4>1, <5>1 DEF Backed
        <4> QED BY <4>2, <4>3
      <3> QED BY <2>5, <3>1, <3>2, Backing DEF BackedInv
    <2>6. FeedbackKeepsOut'
      BY <2>2, <2>5, BackingNext
    <2> QED BY <2>4, <2>6 DEF BackedInv
  <1>8. ASSUME NEW p \in Procs, Commit(p)
        PROVE  BackedInv'
    <2>a. PICK kind : kind = IF job[p].reason = "hard_bounce" THEN "hard" ELSE "complaint"
      OBVIOUS
    <2>b. PICK f : f = NewFeedback(p, kind)
      OBVIOUS
    <2>1. /\ ~Holding(p)' /\ \A q \in Procs \ {p} : job'[q] = job[q]
          /\ Holding(p) /\ job[p].m \in Messages /\ Listed(job[p])
      BY <1>8, CommitMoves DEF Ends, Moves
    <2>2. /\ InHand(p) /\ job[p].reason \in {"hard_bounce", "complaint"}
          /\ job[p].email = Address(p) /\ job[p].marketing /\ job[p].tenant = "own"
          /\ (job[p].reason = "hard_bounce" => job[p].transactional)
      BY <2>1 DEF Hands, InHand, Holding
    <2>3. removed' = removed /\ feedback' = feedback \cup {f}
      BY <1>8, <2>a, <2>b, <2>2 DEF Commit
    <2>4. kind \in Kinds /\ Reason(kind) = job[p].reason /\ kind # "soft"
      BY <2>a, <2>2 DEF Kinds, Reason
    <2>5. f.kind = kind /\ f.email = Address(p) /\ f.ev = job[p].ev
      BY <2>b, <2>1, <2>4, NewRecords DEF Holding
    <2>6. kind = "hard" => job[p].reason = "hard_bounce"
      BY <2>a
    <2>7. job[p].row # 0 => /\ job[p].row \in 1..Len(rows)
                            /\ rows[job[p].row].email = job[p].email
                            /\ rows[job[p].row].tenant = job[p].tenant
                            /\ rows[job[p].row].reason = job[p].reason
      BY <2>1, <2>2 DEF Listed, InHand, Holding
    <2>8. GoneInv'
      BY <1>1, <2>1, <2>3, GoneStays DEF GoneInv, Listed
    <2>9. Lifted(f)' \/ Backed(f)'
      <3>1. CASE job[p].row = 0
        <4>1. Len(rows') = Len(rows) + 1 /\ Len(rows) \in Nat
          BY <2>1, <3>1 DEF Listed, Stores
        <4>2. Len(rows') \in DOMAIN rows'
          BY <1>1, <4>1 DEF Stores
        <4>3. rows'[Len(rows')] =
                [live |-> TRUE, tenant |-> job[p].tenant, email |-> job[p].email,
                 reason |-> job[p].reason, marketing |-> job[p].marketing,
                 transactional |-> job[p].transactional]
          BY <2>1, <3>1 DEF Listed
        <4>4. LET r == rows'[Len(rows')] IN
                /\ r.live /\ r.tenant = "own" /\ r.email = f.email
                /\ r.reason = Reason(f.kind) /\ r.marketing
                /\ (f.kind = "hard" => r.transactional)
          BY <2>2, <2>4, <2>5, <2>6, <4>3
        <4> QED BY <4>2, <4>4 DEF Backed
      <3>2. CASE job[p].row # 0 /\ rows[job[p].row].live
        <4>1. job[p].row \in DOMAIN rows'
          BY <1>1, <2>1, <2>7, <3>2 DEF Listed, Stores
        <4>2. /\ rows'[job[p].row].live /\ rows'[job[p].row].tenant = "own"
              /\ rows'[job[p].row].email = f.email /\ rows'[job[p].row].reason = Reason(f.kind)
          BY <1>1, <2>1, <2>2, <2>4, <2>5, <2>7, <3>2 DEF Listed, Grows
        <4>3. rows'[job[p].row].marketing /\ (f.kind = "hard" => rows'[job[p].row].transactional)
          BY <2>1, <2>2, <2>5, <2>6, <3>2 DEF Listed
        <4> QED BY <4>1, <4>2, <4>3 DEF Backed
      <3>3. CASE job[p].row # 0 /\ ~rows[job[p].row].live
        <4>1. PICK x \in removed : x.row = job[p].row /\ x.upto >= job[p].ev
          BY <2>1, <3>3 DEF BackedInv, GoneInv
        <4>2. /\ rows'[job[p].row].email = f.email /\ rows'[job[p].row].reason = Reason(f.kind)
          BY <1>1, <2>2, <2>4, <2>5, <2>7, <3>3 DEF Grows
        <4> QED BY <2>3, <2>5, <4>1, <4>2 DEF Lifted
      <3> QED BY <3>1, <3>2, <3>3
    <2>10. \A g \in feedback : g.kind # "soft" => (Lifted(g) \/ Backed(g))
      BY Backing DEF BackedInv
    <2>11. \A g \in feedback : g.kind # "soft" => (Lifted(g)' \/ Backed(g)')
      BY <1>1, <2>1, <2>2, <2>3, <2>7, <2>10, LiftedStays, BackedStays
    <2>12. \A g \in feedback' : g.kind # "soft" => (Lifted(g)' \/ Backed(g)')
      BY <2>3, <2>9, <2>11
    <2>13. FeedbackKeepsOut'
      BY <2>12, BackingNext
    <2> QED BY <2>8, <2>13 DEF BackedInv
  <1> QED BY <1>3, <1>4, <1>5, <1>6, <1>7, <1>8, StepCases DEF Writes

----------------------------------------------------------------------------
(* FeedbackIsHeeded: a message is made by a request whose check the feedback *)
(* knows of, or that has found the row that backs the feedback              *)

Unmade == {"none", "suppressed"}

Concerns(f, m) ==
    /\ f.kind = "hard" \/ (f.kind = "complaint" /\ Marketing(TypeOf[m]))
    /\ ToEmail[m] = f.email

\* Only messages that were handed over have a provider's id; a notice is
\* applied to one of them, and a request makes one that is not there yet.
SendInv ==
    /\ \A m \in Messages : msg[m].mid => msg[m].status \notin Unmade
    /\ \A p \in Procs : job[p].kind = "webhook" /\ job[p].pc # "apply" => msg[job[p].m].mid
    /\ \A p \in Procs : job[p].kind = "send" => msg[job[p].m].status = "none"
    /\ \A p, q \in Procs :
         job[p].kind = "send" /\ job[q].kind = "send" /\ job[p].m = job[q].m => p = q

\* A request that has found its address free.
RequestsHeed ==
    \A p \in Procs : job[p].kind = "send" /\ job[p].was = "queued" =>
        \A f \in feedback : Concerns(f, job[p].m) => (job[p].m \in f.earlier \/ Lifted(f))

HeedInv == SendInv /\ RequestsHeed /\ FeedbackIsHeeded

\* Messages go on from status to status; none is made.
GoOn ==
    \A m \in Messages :
        /\ (msg'[m].status \in Unmade <=> msg[m].status \in Unmade)
        /\ (msg[m].status = "none" => msg'[m].status = "none")
        /\ (msg[m].mid => msg'[m].mid)
        /\ (msg'[m].mid => msg[m].mid \/ msg'[m].status = "sent")

\* A notice changes the status of a message that was made before it: none is made.
LEMMA GoesOn ==
    ASSUME Stores, SendInv, NEW m \in Messages, msg[m].mid,
           NEW status \in Statuses \ Unmade, msg' = [msg EXCEPT ![m].status = status]
    PROVE  GoOn
  <1>1. /\ msg'[m].status = status /\ msg'[m].mid = msg[m].mid
        /\ \A k \in Messages \ {m} : msg'[k] = msg[k]
    BY StatusTypes
  <1>2. msg[m].status \notin Unmade
    BY DEF SendInv
  <1> QED BY <1>1, <1>2 DEF GoOn, Unmade

\* Steps that make no message and begin no request; feedback they record knows
\* every request and message there is.
LEMMA HeedStays ==
    ASSUME Stores, Stores', Hands, Grows, Records, HeedInv, GoOn, removed \subseteq removed',
           \A f \in feedback' \ feedback : f.earlier = Checked,
           \A q \in Procs :
             \/ job'[q] = job[q]
             \/ /\ job'[q].kind # "send"
                /\ (job'[q].kind = "webhook" /\ job'[q].pc # "apply" => msg'[job'[q].m].mid)
    PROVE  HeedInv'
  <1>1. ASSUME NEW q \in Procs, job'[q].kind = "send"
        PROVE  job'[q] = job[q] /\ job[q].m \in Messages /\ job[q].m \in Checked
    <2>1. job'[q] = job[q] /\ job[q].kind = "send"
      BY <1>1
    <2> QED BY <2>1 DEF Hands, InHand, Checked
  <1>2. ASSUME NEW f \in feedback'
        PROVE  \/ f \in feedback /\ (Lifted(f) => Lifted(f)')
               \/ f.earlier = Checked
    BY LiftedStays
  <1>3. \A m \in Messages : msg'[m].mid => msg'[m].status \notin Unmade
    BY DEF HeedInv, SendInv, GoOn, Unmade
  <1>4. ASSUME NEW q \in Procs, job'[q].kind = "webhook", job'[q].pc # "apply"
        PROVE  msg'[job'[q].m].mid
    <2>1. CASE job'[q] = job[q]
      <3>1. job[q].m \in Messages /\ msg[job[q].m].mid
        BY <1>4, <2>1 DEF Hands, InHand, HeedInv, SendInv
      <3> QED BY <2>1, <3>1 DEF GoOn
    <2> QED BY <1>4, <2>1
  <1>5. ASSUME NEW q \in Procs, job'[q].kind = "send"
        PROVE  msg'[job'[q].m].status = "none"
    BY <1>1, <1>5 DEF HeedInv, SendInv, GoOn
  <1>6. ASSUME NEW q \in Procs, NEW r \in Procs, job'[q].kind = "send", job'[r].kind = "send",
               job'[q].m = job'[r].m
        PROVE  q = r
    BY <1>1, <1>6 DEF HeedInv, SendInv
  <1>7. SendInv'
    BY <1>3, <1>4, <1>5, <1>6 DEF SendInv
  <1>8. RequestsHeed'
    <2> SUFFICES ASSUME NEW q \in Procs, job'[q].kind = "send", job'[q].was = "queued",
                        NEW f \in feedback', Concerns(f, job'[q].m)
                 PROVE  job'[q].m \in f.earlier \/ Lifted(f)'
      BY DEF RequestsHeed, Concerns
    <2> QED BY <1>1, <1>2 DEF HeedInv, RequestsHeed
  <1>9. FeedbackIsHeeded'
    <2> SUFFICES ASSUME NEW f \in feedback', NEW m \in Messages, Concerns(f, m),
                        msg'[m].status \notin Unmade
                 PROVE  m \in f.earlier \/ Lifted(f)'
      BY DEF FeedbackIsHeeded, Concerns, Unmade
    <2>1. msg[m].status \notin Unmade
      BY DEF GoOn
    <2>2. m \in Checked
      BY <2>1 DEF Checked, Unmade
    <2>3. f \in feedback => (m \in f.earlier \/ Lifted(f))
      BY <2>1 DEF HeedInv, FeedbackIsHeeded, Concerns, Unmade
    <2> QED BY <1>2, <2>2, <2>3
  <1> QED BY <1>7, <1>8, <1>9 DEF HeedInv

\* A request that finds its address free: whatever feedback concerns it is lifted.
LEMMA CheckHeeds ==
    ASSUME Stores, FeedbackKeepsOut, NEW m \in Messages, ~ShouldSuppress(ToEmail[m], TypeOf[m]),
           NEW f \in feedback, Concerns(f, m)
    PROVE  Lifted(f)
  <1>1. Lifted(f) \/ Backed(f)
    BY Backing DEF Concerns
  <1>2. ASSUME Backed(f)
        PROVE  FALSE
    <2>1. PICK i \in DOMAIN rows :
            /\ rows[i].live /\ rows[i].email = ToEmail[m] /\ rows[i].marketing
            /\ (f.kind = "hard" => rows[i].transactional)
      BY <1>2 DEF Backed, Concerns
    <2>2. ~Marketing(TypeOf[m]) => rows[i].transactional
      BY <2>1 DEF Concerns
    <2>3. IsTenantSuppressed(ToEmail[m], Marketing(TypeOf[m]))
      BY <2>1, <2>2 DEF IsTenantSuppressed, Live
    <2> QED BY <2>3 DEF ShouldSuppress
  <1> QED BY <1>1, <1>2

\* A request that begins has looked at the list as it is.
LEMMA CheckSendHeeds ==
    ASSUME Stores, Hands, Records, BackedInv, HeedInv, NEW p \in Procs, NEW m \in Messages,
           CheckSend(p, m)
    PROVE  HeedInv'
  <1>1. /\ job'[p].kind = "send" /\ job'[p].m = m
        /\ (job'[p].was = "queued" => ~ShouldSuppress(ToEmail[m], TypeOf[m]))
        /\ \A q \in Procs \ {p} : job'[q] = job[q]
    BY CheckSendMoves DEF Moves
  <1>2. /\ msg[m].status = "none" /\ \A q \in Procs : job[q].kind = "send" => job[q].m # m
        /\ UNCHANGED <<msg, feedback, rows, removed>>
    BY DEF CheckSend
  <1>3. \A f : Lifted(f)' <=> Lifted(f)
    BY <1>2 DEF Lifted
  <1>4. SendInv'
    BY <1>1, <1>2 DEF HeedInv, SendInv
  <1>5. RequestsHeed'
    <2> SUFFICES ASSUME NEW q \in Procs, job'[q].kind = "send", job'[q].was = "queued",
                        NEW f \in feedback', Concerns(f, job'[q].m)
                 PROVE  job'[q].m \in f.earlier \/ Lifted(f)'
      BY DEF RequestsHeed, Concerns
    <2>1. CASE q = p
      BY <1>1, <1>2, <1>3, <2>1, CheckHeeds DEF BackedInv
    <2>2. CASE q # p
      BY <1>1, <1>2, <1>3, <2>2 DEF HeedInv, RequestsHeed
    <2> QED BY <2>1, <2>2
  <1>6. FeedbackIsHeeded'
    BY <1>2, <1>3 DEF HeedInv, FeedbackIsHeeded
  <1> QED BY <1>4, <1>5, <1>6 DEF HeedInv

\* The message a request makes is one whose check knew of all feedback, or one that
\* the feedback has counted as earlier.
LEMMA InsertHeeds ==
    ASSUME Stores, Hands, Records, HeedInv, NEW p \in Procs, InsertMessage(p)
    PROVE  HeedInv'
  <1>1. /\ Moves(p) /\ job'[p].kind = "none" /\ job[p].kind = "send" /\ job[p].m \in Messages
        /\ job[p].was \in {"queued", "suppressed"}
        /\ msg'[job[p].m] = [status |-> job[p].was, mid |-> FALSE]
        /\ \A k \in Messages \ {job[p].m} : msg'[k] = msg[k]
        /\ \A q \in Procs \ {p} : job'[q] = job[q]
    BY InsertMessageMoves DEF Ends, Moves
  <1>2. UNCHANGED <<feedback, rows, removed>>
    BY DEF InsertMessage
  <1>3. \A f : Lifted(f)' <=> Lifted(f)
    BY <1>2 DEF Lifted
  <1>4. msg[job[p].m].status = "none" /\ ~msg[job[p].m].mid
    BY <1>1 DEF HeedInv, SendInv, Unmade, Stores
  <1>5. ASSUME NEW q \in Procs, job'[q].kind # "none"
        PROVE  q # p /\ job'[q] = job[q]
    BY <1>1, <1>5
  <1>6. \A m \in Messages : msg'[m].mid => msg'[m].status \notin Unmade
    BY <1>1 DEF HeedInv, SendInv
  <1>7. ASSUME NEW q \in Procs, job'[q].kind = "webhook", job'[q].pc # "apply"
        PROVE  msg'[job'[q].m].mid
    <2>1. job'[q] = job[q] /\ job[q].m \in Messages /\ msg[job[q].m].mid
      BY <1>5, <1>7 DEF Hands, InHand, HeedInv, SendInv
    <2> QED BY <1>1, <1>4, <2>1
  <1>8. ASSUME NEW q \in Procs, job'[q].kind = "send"
        PROVE  msg'[job'[q].m].status = "none"
    <2>1. q # p /\ job'[q] = job[q] /\ job[q].m \in Messages /\ msg[job[q].m].status = "none"
      BY <1>5, <1>8 DEF Hands, InHand, HeedInv, SendInv
    <2>2. job[q].m # job[p].m
      BY <1>1, <1>8, <2>1 DEF HeedInv, SendInv
    <2> QED BY <1>1, <2>1, <2>2
  <1>9. SendInv'
    BY <1>5, <1>6, <1>7, <1>8 DEF HeedInv, SendInv
  <1>10. RequestsHeed'
    BY <1>2, <1>3, <1>5 DEF HeedInv, RequestsHeed
  <1>11. FeedbackIsHeeded'
    <2> SUFFICES ASSUME NEW f \in feedback, NEW m \in Messages, Concerns(f, m),
                        msg'[m].status \notin Unmade
                 PROVE  m \in f.earlier \/ Lifted(f)
      BY <1>2, <1>3 DEF FeedbackIsHeeded, Concerns, Unmade
    <2>1. CASE m = job[p].m
      BY <1>1, <2>1 DEF HeedInv, RequestsHeed, Unmade
    <2>2. CASE m # job[p].m
      BY <1>1, <2>2 DEF HeedInv, FeedbackIsHeeded, Concerns, Unmade
    <2> QED BY <2>1, <2>2
  <1> QED BY <1>9, <1>10, <1>11 DEF HeedInv

\* Messages nobody writes go nowhere.
LEMMA GoNowhere == msg' = msg => GoOn
  BY DEF GoOn

\* Every step keeps what FeedbackIsHeeded needs.
LEMMA HeedStep ==
    ASSUME Stores, Hands, Records, BackedInv, HeedInv, [Next]_vars
    PROVE  HeedInv'
  <1>1. Stores' /\ Hands' /\ Grows
    BY TypedStep
  <1>2. CASE Rests
    <2>1. /\ job' = job /\ feedback' = feedback /\ removed' = removed
      BY <1>2, RestsTypes
    <2>2. ASSUME NEW m \in Messages, HandOver(m) \/ SaveSent(m)
          PROVE  GoOn
      <3>1. /\ msg'[m].status \in {"sending", "sent"} /\ msg[m].status \in {"queued", "sending"}
            /\ (msg[m].mid => msg'[m].mid) /\ (msg'[m].mid => msg[m].mid \/ msg'[m].status = "sent")
            /\ \A k \in Messages \ {m} : msg'[k] = msg[k]
        BY <2>2 DEF HandOver, SaveSent, Stores
      <3> QED BY <3>1 DEF GoOn, Unmade
    <2>3. GoOn
      BY <1>2, <2>2, GoNowhere DEF Rests, Unsubscribe, PauseSending, ResumeSending, vars
    <2> QED BY <1>1, <2>1, <2>3, HeedStays
  <1>3. ASSUME NEW p \in Procs, Quiet(p)
        PROVE  HeedInv'
    <2>1. CASE job'[p].kind = "send"
      <3>1. CheckSend(p, job'[p].m) /\ job'[p].m \in Messages
        BY <1>1, <1>3, <2>1 DEF Quiet, Hands, InHand
      <3> QED BY <3>1, CheckSendHeeds
    <2>2. CASE job'[p].kind # "send"
      <3>1. /\ UNCHANGED <<msg, feedback, removed>>
            /\ \A q \in Procs \ {p} : job'[q] = job[q]
            /\ (job'[p].kind = "webhook" /\ job'[p].pc # "apply" => msg'[job'[p].m].mid)
        BY <1>3 DEF Quiet, Moves, HeedInv, SendInv
      <3> QED BY <1>1, <2>2, <3>1, HeedStays, GoNowhere
    <2> QED BY <2>1, <2>2
  <1>4. ASSUME NEW p \in Procs, Reads(p) \/ WriteMessage(p)
        PROVE  HeedInv'
    <2>1. /\ Goes(p) /\ feedback' = feedback /\ removed' = removed /\ job[p].pc # "apply"
      <3>1. CASE Reads(p)
        BY <3>1 DEF Reads, Holding
      <3>2. CASE WriteMessage(p)
        BY <3>2, WriteMessageMoves DEF WriteMessage
      <3> QED BY <1>4, <3>1, <3>2
    <2>2. /\ msg' = msg /\ job'[p].kind = "webhook" /\ msg'[job'[p].m].mid
          /\ \A q \in Procs \ {p} : job'[q] = job[q]
      BY <2>1 DEF Goes, Moves, HeedInv, SendInv
    <2> QED BY <1>1, <2>1, <2>2, HeedStays, GoNowhere
  <1>5. ASSUME NEW p \in Procs, Ends(p), removed \subseteq removed', GoOn,
               \A f \in feedback' \ feedback : f.earlier = Checked
        PROVE  HeedInv'
    <2>1. job'[p].kind = "none" /\ \A q \in Procs \ {p} : job'[q] = job[q]
      BY <1>5 DEF Ends, Moves
    <2> QED BY <1>1, <1>5, <2>1, HeedStays
  <1>6. ASSUME NEW p \in Procs, InsertEvent(p) \/ SaveManual(p) \/ RemoveSuppression(p)
        PROVE  HeedInv'
    <2>1. msg' = msg /\ feedback' = feedback /\ removed \subseteq removed'
      BY <1>6 DEF InsertEvent, SaveManual, RemoveSuppression
    <2> QED BY <1>5, <1>6, <2>1, GoNowhere, InsertEventMoves, SaveManualMoves, RemoveMoves
  <1>7. ASSUME NEW p \in Procs, SettleStatus(p) \/ Commit(p)
        PROVE  HeedInv'
    <2>1. /\ Ends(p) /\ job[p].kind = "webhook" /\ job[p].pc # "apply" /\ job[p].m \in Messages
          /\ \E status \in {"delivered", "failed", "deferred", "bounced", "complained"} :
               msg' = [msg EXCEPT ![job[p].m].status = status]
      <3>1. CASE SettleStatus(p)
        BY <3>1, SettleStatusMoves DEF SettleStatus
      <3>2. CASE Commit(p)
        BY <3>2, CommitMoves DEF Commit
      <3> QED BY <1>7, <3>1, <3>2
    <2>2. msg[job[p].m].mid
      BY <2>1 DEF HeedInv, SendInv
    <2>3. \A status \in {"delivered", "failed", "deferred", "bounced", "complained"} :
            status \in Statuses \ Unmade
      BY DEF Statuses, Unmade
    <2>4. GoOn
      BY <2>1, <2>2, <2>3, GoesOn DEF HeedInv
    <2>5. \A f \in feedback' \ feedback : \E kind \in Kinds : f = NewFeedback(p, kind)
      BY <1>7 DEF SettleStatus, Commit, Kinds
    <2>6. \A f \in feedback' \ feedback : f.earlier = Checked
      BY <2>5 DEF NewFeedback
    <2>7. removed' = removed
      BY <1>7 DEF SettleStatus, Commit
    <2> QED BY <1>5, <2>1, <2>4, <2>6, <2>7
  <1>8. ASSUME NEW p \in Procs, InsertMessage(p)
        PROVE  HeedInv'
    BY <1>8, InsertHeeds
  <1> QED BY <1>2, <1>3, <1>4, <1>6, <1>7, <1>8, StepCases DEF Writes

----------------------------------------------------------------------------
(* The theorems                                                            *)

IInv == Stores /\ Hands /\ Records /\ OnceInv /\ BackedInv /\ HeedInv

\* The invariant holds when nothing has come in yet.
THEOREM InitInv == Init => IInv
  <1> SUFFICES ASSUME Init
               PROVE  IInv
    OBVIOUS
  <1>1. \A p \in Procs : job[p] = Idle
    BY DEF Init
  <1>2. Stores
    <2>1. msg \in [Messages -> [status : Statuses, mid : BOOLEAN]]
      BY DEF Init, Statuses
    <2>2. job \in [Procs -> Jobs] /\ pause \in Pauses
      BY IdleType DEF Init
    <2> QED BY <2>1, <2>2, WebhookAssumption DEF Init, Stores
  <1>3. \A p \in Procs : InHand(p) /\ ~Holding(p)
    BY <1>1 DEF Init, InHand, Idle, Holding
  <1>4. Records
    BY IdleType DEF Init, Records, Sourced, Idle
  <1>5. OnceInv
    BY <1>3 DEF Init, OnceInv, LockInv, FreshInv, StatusEventOnce
  <1>6. BackedInv
    BY <1>3 DEF Init, BackedInv, GoneInv, FeedbackKeepsOut
  <1>7. HeedInv
    <2>1. \A p \in Procs : job[p].kind = "none"
      BY <1>1 DEF Idle
    <2>2. \A m \in Messages : msg[m].mid => msg[m].status = "sent"
      BY DEF Init
    <2>3. SendInv
      BY <2>1, <2>2 DEF SendInv, Unmade
    <2>4. RequestsHeed /\ FeedbackIsHeeded
      BY <2>1 DEF Init, RequestsHeed, FeedbackIsHeeded
    <2> QED BY <2>3, <2>4 DEF HeedInv
  <1> QED BY <1>2, <1>3, <1>4, <1>5, <1>6, <1>7 DEF IInv, Hands

\* Every step of any process keeps it.
THEOREM Inductive == IInv /\ [Next]_vars => IInv'
  BY TypedStep, RecordsStep, OnceStep, BackedStep, HeedStep DEF IInv

\* The stores, what the processes have in hand, and the records, in every state.
THEOREM Invariance == Spec => []IInv
  BY InitInv, Inductive, PTL DEF Spec

\* TypeOK: every variable has its type, every record points at a notice or a
\* row there is, and a pause has a source just when it is on.
THEOREM TypeCorrect == Spec => []TypeOK
  <1>1. IInv => TypeOK
    <2> SUFFICES ASSUME IInv
                 PROVE  TypeOK
      OBVIOUS
    <2>1. /\ Len(inbox) \in Nat /\ Len(rows) \in Nat
          /\ DOMAIN inbox = 1..Len(inbox) /\ DOMAIN rows = 1..Len(rows)
          /\ \A n \in 1..Len(inbox) : inbox[n] \in Notices
          /\ \A i \in 1..Len(rows) : rows[i] \in Rows
      BY DEF IInv, Stores
    <2>2. \A n \in DOMAIN inbox :
            inbox[n].error \in BOOLEAN /\ inbox[n].norm.to \in Emails \cup {None}
      <3> SUFFICES ASSUME NEW n \in DOMAIN inbox
                   PROVE  inbox[n].error \in BOOLEAN /\ inbox[n].norm.to \in Emails \cup {None}
        OBVIOUS
      <3>1. inbox[n].error \in BOOLEAN /\ inbox[n].norm \in Norms
        BY <2>1 DEF Notices
      <3> QED BY <3>1, WebhookAssumption DEF Norms
    <2>3. \A i \in DOMAIN rows :
            rows[i] \in [live : BOOLEAN, tenant : {"own", "global"}, email : Emails,
                         reason : Reasons, marketing : BOOLEAN, transactional : BOOLEAN]
      BY <2>1 DEF Rows
    <2>4. /\ \A e \in events : e.msg \in Messages /\ e.ev \in DOMAIN inbox
          /\ \A f \in feedback : /\ f.kind \in Kinds /\ f.email \in Emails /\ f.msg \in Messages
                                  /\ f.ev \in DOMAIN inbox /\ f.earlier \subseteq Messages
          /\ \A x \in removed : x.row \in DOMAIN rows /\ x.upto \in 0..Len(inbox)
          /\ pause.on = (pause.source # "none")
      BY <2>1 DEF IInv, Records, EventOK, FeedbackOK, RemovalOK, Sourced
    <2>5. ASSUME NEW p \in Procs
          PROVE  /\ job[p].row \in {0} \cup DOMAIN rows /\ job[p].ev \in {0} \cup DOMAIN inbox
                 /\ job[p].m \in Messages \cup {None} /\ job[p].email \in Emails \cup {None}
                 /\ job[p].was \in Statuses /\ job[p].pause \in Pauses
      <3>1. job[p] \in Jobs
        BY DEF IInv, Stores
      <3>2. job[p].row \in 0..Len(rows) /\ job[p].ev \in 0..Len(inbox)
        BY DEF IInv, Hands, InHand
      <3> QED BY <2>1, <3>1, <3>2 DEF Jobs
    <2> QED BY <2>2, <2>3, <2>4, <2>5 DEF IInv, Stores, TypeOK
  <1> QED BY <1>1, Invariance, PTL

\* StatusEventOnce: a notice that is delivered many times, to many processes at
\* once, leaves one event for its change of status.
THEOREM StatusesOnce == Spec => []StatusEventOnce
  <1>1. IInv => StatusEventOnce
    BY DEF IInv, OnceInv
  <1> QED BY <1>1, Invariance, PTL

\* FeedbackKeepsOut: a recorded hard bounce or complaint keeps its address out
\* until somebody takes it off the list.
THEOREM FeedbackKeeps == Spec => []FeedbackKeepsOut
  <1>1. IInv => FeedbackKeepsOut
    BY DEF IInv, BackedInv
  <1> QED BY <1>1, Invariance, PTL

\* FeedbackIsHeeded: no message is made for an address that has bounced or
\* complained but by a request that had looked at the list before.
THEOREM FeedbackHeeded == Spec => []FeedbackIsHeeded
  <1>1. IInv => FeedbackIsHeeded
    BY DEF IInv, HeedInv
  <1> QED BY <1>1, Invariance, PTL

\* ManualPauseSurvives: an automatic pause replaces an operator's only when the
\* operator set it after the evaluation had read the tenant.
THEOREM ManualPauses == Spec => ManualPauseSurvives
  <1> DEFINE Late(p) == job[p].pc = "commit" /\ job'[p].pc = "idle" /\ job[p].pause # pause
  <1>1. ASSUME IInv, [Next]_vars, pause.source = "manual", pause'.source = "auto"
        PROVE  \E p \in Procs : Late(p)
    <2>1. pause.on /\ pause' # pause
      BY <1>1 DEF IInv, Records, Sourced
    <2>2. ASSUME NEW p \in Procs, NEW status,
                 pause' = ApplyAutomatedRiskPause(job[p].pause, status)
          PROVE  job[p].pause # pause
      BY <1>1, <2>1, <2>2 DEF ApplyAutomatedRiskPause
    <2>3. ASSUME NEW p \in Procs, Commit(p) \/ SaveRecomputed(p)
          PROVE  Late(p)
      <3>1. job[p].pc = "commit" /\ job' = [job EXCEPT ![p] = Idle]
        BY <2>3 DEF Commit, SaveRecomputed, Finish
      <3>2. job'[p].pc = "idle"
        BY <1>1, <3>1 DEF IInv, Stores, Idle
      <3>3. \E status : pause' = ApplyAutomatedRiskPause(job[p].pause, status)
        BY <2>3 DEF Commit, SaveRecomputed
      <3>4. job[p].pause # pause
        BY <2>2, <3>3
      <3> QED BY <3>1, <3>2, <3>4
    <2>4. ~ResumeSending /\ \A scope \in Scopes : ~PauseSending(scope)
      BY <1>1 DEF ResumeSending, PauseSending, Idle
    <2> QED BY <1>1, <2>1, <2>3, <2>4, PauseWriters
  <1>2. IInv /\ [Next]_vars =>
          [pause.source = "manual" /\ pause'.source = "auto"
           => \E p \in Procs : /\ job[p].pc = "commit" /\ job'[p].pc = "idle"
                               /\ job[p].pause # pause]_vars
    BY <1>1
  <1> QED BY <1>2, Invariance, PTL DEF Spec, ManualPauseSurvives

=============================================================================
