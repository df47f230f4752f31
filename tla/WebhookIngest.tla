---------------------------- MODULE WebhookIngest ----------------------------
(***************************************************************************)
(* What comes back from the provider, and what it does to later sends:     *)
(* webhook_service.py applies a notice to its message, to the bounce and   *)
(* complaint records, to the suppression list and to the tenant's pause    *)
(* (sending_risk.py), while clients create messages and operators edit     *)
(* the list and the pause.  One tenant, and the rows that are global.      *)
(*                                                                         *)
(* A notice is committed as it is received and applied in a transaction    *)
(* of its own, at PostgreSQL's READ COMMITTED: each query is a step that   *)
(* sees what is committed, a row that is written stays locked to the end,  *)
(* and the writes are seen from the end on.                                *)
(***************************************************************************)
EXTENDS ProviderEvents, Naturals, FiniteSets

CONSTANTS
    Procs,              \* web and worker processes
    Messages,           \* a message is also the id the provider gives it
    Emails,
    ToEmail,            \* OutboundMessage.to_email
    TypeOf,             \* and message_type
    SentBefore,         \* messages whose id is saved when the behaviour starts
    Payloads,           \* webhook bodies the provider may post
    PrevSent, PrevRecipients,   \* the day before: messages sent, addresses written to
    MaxWebhooks, MaxActs        \* bounds: webhooks, acts of operators and clients
                                \*   (but resuming the tenant)

ASSUME WebhookAssumption ==
    /\ IsFiniteSet(Messages)
    /\ None \notin Messages \cup Emails
    /\ ToEmail \in [Messages -> Emails]
    /\ TypeOf \in [Messages -> {"transactional", "marketing", "lifecycle", "system"}]
    /\ \A p \in Payloads : NormalizeProviderWebhook(p).to \in Emails \cup {None}
    /\ {PrevSent, PrevRecipients, MaxWebhooks, MaxActs} \subseteq Nat

VARIABLES
    msg,        \* OutboundMessage: status, is provider_message_id saved?
    inbox,      \* ProviderWebhookEvent rows in order: normalized, has it an error?
    events,     \* MessageEvent rows the webhooks made, each with its webhook
    feedback,   \* BounceRecord and ComplaintRecord rows
    rows,       \* DeliverySuppression rows in order; live: not deleted
    removed,    \* SuppressionRemovalLog, with the number of webhooks by then
    unsub,      \* UnsubscribeRecord: addresses off marketing
    pause,      \* the tenant's sending pause
    job,        \* what a process is doing, and what it has read
    acts        \* number of acts of operators and clients

vars == <<msg, inbox, events, feedback, rows, removed, unsub, pause, job, acts>>

Statuses == {"none", "queued", "sending", "sent", "delivered", "deferred", "failed",
             "bounced", "complained", "suppressed"}

Reasons == {"hard_bounce", "complaint", "manual"}

Scopes == {"marketing_lifecycle", "non_critical"}

Idle == [pc |-> "idle", kind |-> "none", ev |-> 0, m |-> None,
         was |-> "none", fresh |-> FALSE, email |-> None, tenant |-> "own",
         reason |-> "none", marketing |-> FALSE, transactional |-> FALSE, row |-> 0,
         pause |-> [on |-> FALSE, scope |-> "marketing_lifecycle", source |-> "none"]]

Init ==
    /\ msg = [m \in Messages |-> IF m \in SentBefore THEN [status |-> "sent", mid |-> TRUE]
                                 ELSE [status |-> "none", mid |-> FALSE]]
    /\ inbox = <<>> /\ events = {} /\ feedback = {}
    /\ rows = <<>> /\ removed = {} /\ unsub = {}
    /\ pause = Idle.pause
    /\ job = [p \in Procs |-> Idle]
    /\ acts = 0

----------------------------------------------------------------------------
(* The suppression list and the pause, as a send sees them                 *)

Marketing(type) == type \in {"marketing", "lifecycle"}

Live(i) == rows[i].live

IsGloballySuppressed(email) ==
    \E i \in DOMAIN rows : Live(i) /\ rows[i].tenant = "global" /\ rows[i].email = email
                           /\ rows[i].marketing

IsTenantSuppressed(email, marketing) ==
    \E i \in DOMAIN rows : Live(i) /\ rows[i].email = email
        /\ IF marketing THEN rows[i].marketing ELSE rows[i].transactional

\* Variant: the unsubscribe list is all that marketing looks at.
UnsubscribedOnly(email, type) ==
    \/ IsGloballySuppressed(email)
    \/ Marketing(type) /\ email \in unsub
    \/ ~Marketing(type) /\ IsTenantSuppressed(email, FALSE)

ShouldSuppress(email, type) ==
    \/ IsGloballySuppressed(email)
    \/ Marketing(type) /\ email \in unsub
    \/ IsTenantSuppressed(email, Marketing(type))

BlockedByPause(type) ==
    /\ pause.on
    /\ IF pause.scope = "non_critical" THEN type # "system" ELSE Marketing(type)

----------------------------------------------------------------------------
(* Sending: create_templated_message, and as much of dispatch as the       *)
(* webhooks depend on                                                      *)

CheckSend(p, m) ==
    /\ job[p].pc = "idle" /\ msg[m].status = "none"
    /\ \A q \in Procs : job[q].kind = "send" => job[q].m # m
    /\ ~BlockedByPause(TypeOf[m])
    /\ job' = [job EXCEPT ![p] = [Idle EXCEPT !.pc = "insert", !.kind = "send", !.m = m,
                 !.was = IF ShouldSuppress(ToEmail[m], TypeOf[m]) THEN "suppressed" ELSE "queued"]]
    /\ UNCHANGED <<msg, inbox, events, feedback, rows, removed, unsub, pause, acts>>

InsertMessage(p) ==
    /\ job[p].pc = "insert" /\ job[p].kind = "send"
    /\ msg' = [msg EXCEPT ![job[p].m] = [status |-> job[p].was, mid |-> FALSE]]
    /\ job' = [job EXCEPT ![p] = Idle]
    /\ UNCHANGED <<inbox, events, feedback, rows, removed, unsub, pause, acts>>

\* The provider has it; its id for it is not saved yet.
HandOver(m) ==
    /\ msg[m].status = "queued" /\ ~BlockedByPause(TypeOf[m])
    /\ msg' = [msg EXCEPT ![m].status = "sending"]
    /\ UNCHANGED <<inbox, events, feedback, rows, removed, unsub, pause, job, acts>>

SaveSent(m) ==
    /\ msg[m].status = "sending"
    /\ msg' = [msg EXCEPT ![m].status = "sent", ![m].mid = TRUE]
    /\ UNCHANGED <<inbox, events, feedback, rows, removed, unsub, pause, job, acts>>

----------------------------------------------------------------------------
(* ProviderWebhookService.ingest                                           *)

\* The notice is recorded and committed, whatever becomes of it.
Receive(p, raw) ==
    /\ job[p].pc = "idle" /\ Len(inbox) < MaxWebhooks
    /\ inbox' = Append(inbox, [norm |-> NormalizeProviderWebhook(raw),
                               error |-> ~raw.json])
    /\ job' = [job EXCEPT ![p] = IF raw.json
                 THEN [Idle EXCEPT !.pc = "apply", !.kind = "webhook", !.ev = Len(inbox) + 1]
                 ELSE Idle]
    /\ UNCHANGED <<msg, events, feedback, rows, removed, unsub, pause, acts>>

Norm(p) == inbox[job[p].ev].norm

Finish(p) == job' = [job EXCEPT ![p] = Idle] /\ UNCHANGED inbox

\* _message_event_exists, of any type.
Seen(m, eid) == eid # <<>> /\ \E e \in events : e.msg = m /\ e.eid = eid

LookUp(p) ==
    /\ job[p].pc = "apply"
    /\ LET n == Norm(p)
           known == {m \in Messages : m = n.mid /\ msg[m].mid}
       IN  IF n.type = "unknown" \/ known = {} \/ Seen(n.mid, n.eid)
           THEN Finish(p)
           ELSE /\ job' = [job EXCEPT ![p].pc = "write", ![p].m = n.mid,
                                      ![p].was = msg[n.mid].status]
                /\ UNCHANGED inbox
    /\ UNCHANGED <<msg, events, feedback, rows, removed, unsub, pause, acts>>

\* A transaction that has written a message holds it until it ends.
Unlocked(m) == \A q \in Procs : job[q].m = m => job[q].pc \notin {"locked", "found", "commit"}

EventType(n) ==
    CASE n.type = "bounced" /\ n.bounce = "soft" -> "deferred"
      [] n.type = "failed" /\ ~n.terminal -> "deferred"
      [] OTHER -> n.type

\* The status a notice gives its message; a notice of a delay looks at the
\* status its transaction began with.
StatusFor(p) ==
    LET n == Norm(p) IN
    IF n.type \in {"opened", "clicked"} THEN "keep"
    ELSE IF n.type = "failed" /\ ~n.terminal /\ job[p].was \notin {"sending", "sent"}
    THEN "keep" ELSE EventType(n)

NewEvent(p, m, n) == [msg |-> m, type |-> EventType(n), eid |-> n.eid, ev |-> job[p].ev]

EventFor(p, m, n) ==
    IF n.eid # <<>> /\ \E e \in events : e.msg = m /\ e.type = EventType(n) /\ e.eid = n.eid
    THEN {} ELSE {NewEvent(p, m, n)}

\* Variant: the check made with the first query is thought to be enough.
EventAnyway(p, m, n) == {NewEvent(p, m, n)}

\* _create_message_event_idempotent
CreateMessageEventIdempotent(p, m, n) == EventFor(p, m, n)

\* Variant: the notice names the address.
NamedAddress(p) == Norm(p).to

Address(p) == IF Norm(p).to = None THEN ToEmail[job[p].m] ELSE Norm(p).to

\* Messages whose check of the suppression list is over by now.
Checked == {m \in Messages : msg[m].status # "none"}
             \cup {job[q].m : q \in {q \in Procs : job[q].kind = "send"}}

NewFeedback(p, kind) == [kind |-> kind, email |-> Address(p), msg |-> job[p].m,
                         ev |-> job[p].ev, earlier |-> Checked]

\* delivered, failed for good, deferred, soft bounce: the message is written
\* and the transaction ends.
SettleStatus(p) ==
    /\ job[p].pc = "write" /\ Unlocked(job[p].m)
    /\ LET n == Norm(p) m == job[p].m IN
       /\ n.type \in {"delivered", "failed"} \/ (n.type = "bounced" /\ n.bounce = "soft")
       /\ StatusFor(p) # "keep"
       /\ msg' = [msg EXCEPT ![m].status = StatusFor(p)]
       /\ events' = events \cup CreateMessageEventIdempotent(p, m, n)
       /\ feedback' = feedback \cup IF n.type = "bounced" THEN {NewFeedback(p, "soft")} ELSE {}
    /\ Finish(p)
    /\ UNCHANGED <<rows, removed, unsub, pause, acts>>

\* Nothing is locked between the check for the event and its insertion.
CheckEvent(p) ==
    /\ job[p].pc = "write" /\ StatusFor(p) = "keep"
    /\ job' = [job EXCEPT ![p].pc = "event",
                          ![p].fresh = CreateMessageEventIdempotent(p, job[p].m, Norm(p)) # {}]
    /\ UNCHANGED <<msg, inbox, events, feedback, rows, removed, unsub, pause, acts>>

InsertEvent(p) ==
    /\ job[p].pc = "event"
    /\ events' = events \cup IF job[p].fresh THEN {NewEvent(p, job[p].m, Norm(p))} ELSE {}
    /\ Finish(p)
    /\ UNCHANGED <<msg, feedback, rows, removed, unsub, pause, acts>>

\* A hard bounce or a complaint: the message is written, the rest follows.
WriteMessage(p) ==
    /\ job[p].pc = "write" /\ Unlocked(job[p].m)
    /\ LET n == Norm(p) hard == n.type = "bounced" IN
       /\ n.type = "complained" \/ (hard /\ n.bounce = "hard")
       /\ job' = [job EXCEPT
            ![p].pc = "locked", ![p].email = Address(p),
            ![p].fresh = CreateMessageEventIdempotent(p, job[p].m, n) # {},
            ![p].reason = IF hard THEN "hard_bounce" ELSE "complaint",
            ![p].marketing = TRUE, ![p].transactional = hard]
    /\ UNCHANGED <<msg, inbox, events, feedback, rows, removed, unsub, pause, acts>>

\* Variant: one row for an address, whatever the reason.
RowsOfAddress(j) ==
    {i \in DOMAIN rows : Live(i) /\ rows[i].email = j.email /\ rows[i].tenant = j.tenant}

RowsLike(j) ==
    {i \in DOMAIN rows : Live(i) /\ rows[i].email = j.email /\ rows[i].tenant = j.tenant
                         /\ rows[i].reason = j.reason}

\* The first query of _apply_suppression_unique; 0: there is no such row.
FindRow(p) ==
    /\ job[p].pc = "locked"
    /\ \E i \in IF RowsLike(job[p]) = {} THEN {0} ELSE RowsLike(job[p]) :
         job' = [job EXCEPT ![p].pc = "found", ![p].row = i]
    /\ UNCHANGED <<msg, inbox, events, feedback, rows, removed, unsub, pause, acts>>

RowFree(p) == \A q \in Procs \ {p} : job[q].pc = "commit" => job[q].row # job[p].row \/ job[p].row = 0

\* The row is written, the metrics are computed and the tenant is read again.
ReadTenant(p) ==
    /\ job[p].pc = "found" /\ job[p].kind = "webhook" /\ RowFree(p)
    /\ job' = [job EXCEPT ![p].pc = "commit", ![p].pause = pause]
    /\ UNCHANGED <<msg, inbox, events, feedback, rows, removed, unsub, pause, acts>>

\* The list with a job's row: updated where it is still there, or made.
SaveRow(j) ==
    IF j.row = 0
    THEN Append(rows, [live |-> TRUE, tenant |-> j.tenant, email |-> j.email,
                       reason |-> j.reason, marketing |-> j.marketing,
                       transactional |-> j.transactional])
    ELSE [rows EXCEPT ![j.row] = [@ EXCEPT !.marketing = j.marketing,
                                           !.transactional = j.transactional]]

----------------------------------------------------------------------------
(* sending_risk.py                                                         *)

Exceeds(n, per, of, d) == n * of >= per * d     \* n / d >= per / of

\* The tenant's messages by status are all of the last day.
PauseScope(status) ==
    LET in(S) == Cardinality({m \in Messages : status[m] \in S})
        sent == in({"sent", "delivered", "bounced", "complained", "failed"})
        d == IF sent = 0 THEN 1 ELSE sent
        complained == in({"complained"})
        written == Cardinality({ToEmail[m] : m \in {m \in Messages : status[m] # "none"}})
    IN  IF \/ Exceeds(complained, 1, 100, d)
           \/ sent >= 50 /\ complained >= 5 /\ Exceeds(complained, 5, 1000, d)
        THEN "non_critical"
        ELSE IF \/ Exceeds(in({"bounced"}), 5, 100, d)
                \/ Exceeds(complained, 3, 1000, d)
                \/ Exceeds(in({"failed"}), 12, 100, d)
                \/ PrevSent >= 40 /\ sent >= 4 * PrevSent
                \/ PrevRecipients >= 30 /\ written >= 3 * PrevRecipients
        THEN "marketing_lifecycle" ELSE "none"

\* Variant: an automatic pause is not told from an operator's.
PauseAnyhow(read, status) ==
    IF PauseScope(status) = "none" THEN pause
    ELSE [on |-> TRUE, scope |-> PauseScope(status), source |-> "auto"]

\* read: the tenant as apply_automated_risk_pause last saw it.
ApplyAutomatedRiskPause(read, status) ==
    IF (read.on /\ read.source = "manual") \/ PauseScope(status) = "none" THEN pause
    ELSE [on |-> TRUE, scope |-> PauseScope(status), source |-> "auto"]

\* The end of a hard bounce's or a complaint's transaction.
Commit(p) ==
    /\ job[p].pc = "commit" /\ job[p].kind = "webhook"
    /\ LET j == job[p]
           status == IF j.reason = "hard_bounce" THEN "bounced" ELSE "complained"
           all == [m \in Messages |-> IF m = j.m THEN status ELSE msg[m].status]
       IN  /\ msg' = [msg EXCEPT ![j.m].status = status]
           /\ events' = events \cup IF j.fresh THEN {NewEvent(p, j.m, Norm(p))} ELSE {}
           /\ feedback' = feedback \cup {NewFeedback(p, IF status = "bounced" THEN "hard"
                                                        ELSE "complaint")}
           /\ rows' = SaveRow(j)
           /\ pause' = ApplyAutomatedRiskPause(j.pause, all)
    /\ Finish(p)
    /\ UNCHANGED <<removed, unsub, acts>>

\* An exception undoes the transaction and is noted; a process that dies notes
\* nothing.  Either way the provider's notice is used up.
Fail(p) ==
    /\ job[p].kind = "webhook"
    /\ \E noted \in BOOLEAN : inbox' = [inbox EXCEPT ![job[p].ev].error = noted]
    /\ job' = [job EXCEPT ![p] = Idle]
    /\ UNCHANGED <<msg, events, feedback, rows, removed, unsub, pause, acts>>

----------------------------------------------------------------------------
(* Operators, portal users and clients                                     *)

Act == acts < MaxActs /\ acts' = acts + 1

\* The forms and the serializer ask for one channel at least.
ChannelChosen(marketing, transactional) == marketing \/ transactional

BeginSuppression(p, tenant) ==
    /\ job[p].pc = "idle"
    /\ \E email \in Emails, marketing, transactional \in BOOLEAN :
         /\ ChannelChosen(marketing, transactional)
         /\ LET j == [Idle EXCEPT !.pc = "found", !.kind = "manual", !.email = email,
                        !.tenant = tenant, !.reason = "manual", !.marketing = marketing,
                        !.transactional = transactional]
            IN  \E i \in IF RowsLike(j) = {} THEN {0} ELSE RowsLike(j) :
                  job' = [job EXCEPT ![p] = [j EXCEPT !.row = i]]
    /\ Act
    /\ UNCHANGED <<msg, inbox, events, feedback, rows, removed, unsub, pause>>

OperatorSuppression(p) == \E tenant \in {"own", "global"} : BeginSuppression(p, tenant)

PortalSuppression(p) == BeginSuppression(p, "own")

ApiSuppression(p) == BeginSuppression(p, "own")

SaveManual(p) ==
    /\ job[p].pc = "found" /\ job[p].kind = "manual" /\ RowFree(p)
    /\ rows' = SaveRow(job[p])
    /\ job' = [job EXCEPT ![p] = Idle]
    /\ UNCHANGED <<msg, inbox, events, feedback, removed, unsub, pause, acts>>

LoadRow(p, i) ==
    /\ job[p].pc = "idle" /\ Live(i)
    /\ job' = [job EXCEPT ![p] = [Idle EXCEPT !.pc = "remove", !.kind = "remove", !.row = i]]
    /\ Act
    /\ UNCHANGED <<msg, inbox, events, feedback, rows, removed, unsub, pause>>

OperatorRemoval(p, i) == LoadRow(p, i)

\* The portal and the API leave global rows alone.
PortalRemoval(p, i) == rows[i].tenant = "own" /\ LoadRow(p, i)

ApiRemoval(p, i) == rows[i].tenant = "own" /\ LoadRow(p, i)

\* Logged, also when somebody else has deleted it meanwhile.
RemoveSuppression(p) ==
    /\ job[p].pc = "remove" /\ RowFree(p)
    /\ removed' = removed \cup {[row |-> job[p].row, upto |-> Len(inbox)]}
    /\ rows' = [rows EXCEPT ![job[p].row].live = FALSE]
    /\ job' = [job EXCEPT ![p] = Idle]
    /\ UNCHANGED <<msg, inbox, events, feedback, unsub, pause, acts>>

Unsubscribe(email) ==
    /\ unsub' = unsub \cup {email}
    /\ Act
    /\ UNCHANGED <<msg, inbox, events, feedback, rows, removed, pause, job>>

PauseSending(scope) ==
    /\ pause' = [on |-> TRUE, scope |-> scope, source |-> "manual"]
    /\ Act
    /\ UNCHANGED <<msg, inbox, events, feedback, rows, removed, unsub, job>>

ResumeSending ==
    /\ pause' = Idle.pause
    /\ UNCHANGED <<msg, inbox, events, feedback, rows, removed, unsub, job, acts>>

\* "recompute" on the tenant's page: the same evaluation, in no transaction.
Recompute(p) ==
    /\ job[p].pc = "idle"
    /\ job' = [job EXCEPT ![p] = [Idle EXCEPT !.pc = "commit", !.kind = "recompute",
                                              !.pause = pause]]
    /\ Act
    /\ UNCHANGED <<msg, inbox, events, feedback, rows, removed, unsub, pause>>

SaveRecomputed(p) ==
    /\ job[p].pc = "commit" /\ job[p].kind = "recompute"
    /\ pause' = ApplyAutomatedRiskPause(job[p].pause, [m \in Messages |-> msg[m].status])
    /\ job' = [job EXCEPT ![p] = Idle]
    /\ UNCHANGED <<msg, inbox, events, feedback, rows, removed, unsub, acts>>

----------------------------------------------------------------------------
Next ==
    \/ \E p \in Procs :
         \/ \E raw \in Payloads : Receive(p, raw)
         \/ LookUp(p) \/ SettleStatus(p) \/ CheckEvent(p) \/ InsertEvent(p)
         \/ WriteMessage(p) \/ FindRow(p) \/ ReadTenant(p) \/ Commit(p) \/ Fail(p)
         \/ \E m \in Messages : CheckSend(p, m)
         \/ InsertMessage(p)
         \/ OperatorSuppression(p) \/ PortalSuppression(p) \/ ApiSuppression(p)
         \/ SaveManual(p)
         \/ \E i \in DOMAIN rows :
              OperatorRemoval(p, i) \/ PortalRemoval(p, i) \/ ApiRemoval(p, i)
         \/ RemoveSuppression(p)
         \/ Recompute(p) \/ SaveRecomputed(p)
    \/ \E m \in Messages : HandOver(m) \/ SaveSent(m)
    \/ \E email \in Emails : Unsubscribe(email)
    \/ \E scope \in Scopes : PauseSending(scope)
    \/ ResumeSending

Spec == Init /\ [][Next]_vars

----------------------------------------------------------------------------
(* Properties                                                              *)

Pauses == [on : BOOLEAN, scope : Scopes, source : {"none", "manual", "auto"}]

Kinds == {"hard", "soft", "complaint"}

\* Every variable has its type; every record that points at a webhook or at a
\* suppression row points at one there is; a pause has a source just when it is on.
TypeOK ==
    /\ msg \in [Messages -> [status : Statuses, mid : BOOLEAN]]
    /\ \A n \in DOMAIN inbox :
         inbox[n].error \in BOOLEAN /\ inbox[n].norm.to \in Emails \cup {None}
    /\ \A e \in events : e.msg \in Messages /\ e.ev \in DOMAIN inbox
    /\ \A f \in feedback : /\ f.kind \in Kinds /\ f.email \in Emails /\ f.msg \in Messages
                           /\ f.ev \in DOMAIN inbox /\ f.earlier \subseteq Messages
    /\ \A i \in DOMAIN rows :
         rows[i] \in [live : BOOLEAN, tenant : {"own", "global"}, email : Emails,
                      reason : Reasons, marketing : BOOLEAN, transactional : BOOLEAN]
    /\ \A x \in removed : x.row \in DOMAIN rows /\ x.upto \in 0..Len(inbox)
    /\ unsub \subseteq Emails
    /\ pause \in Pauses /\ pause.on = (pause.source # "none")
    /\ acts \in 0..MaxActs
    /\ \A p \in Procs :
         /\ job[p].row \in {0} \cup DOMAIN rows /\ job[p].ev \in {0} \cup DOMAIN inbox
         /\ job[p].m \in Messages \cup {None} /\ job[p].email \in Emails \cup {None}
         /\ job[p].was \in Statuses /\ job[p].pause \in Pauses

Reason(kind) == IF kind = "hard" THEN "hard_bounce" ELSE "complaint"

\* Somebody has taken the suppression off since the notice came in.
Lifted(f) ==
    \E x \in removed : /\ x.upto >= f.ev
                       /\ rows[x.row].email = f.email /\ rows[x.row].reason = Reason(f.kind)

\* A recorded hard bounce or complaint is backed by a suppression row of its
\* own reason, which blocks marketing and, after a bounce, transactional mail as
\* well, until somebody removes it: whatever other notices, operators and
\* removals were under way when it was made or merged into.
FeedbackKeepsOut ==
    \A f \in feedback : f.kind # "soft" =>
        \/ Lifted(f)
        \/ \E i \in DOMAIN rows :
             /\ rows[i].live /\ rows[i].tenant = "own" /\ rows[i].email = f.email
             /\ rows[i].reason = Reason(f.kind)
             /\ rows[i].marketing /\ (f.kind = "hard" => rows[i].transactional)

\* No message is made for an address that has bounced (no marketing for one that
\* has complained) but by a request that had looked at the list before.
FeedbackIsHeeded ==
    \A f \in feedback, m \in Messages :
        (/\ f.kind = "hard" \/ (f.kind = "complaint" /\ Marketing(TypeOf[m]))
         /\ ToEmail[m] = f.email /\ msg[m].status \notin {"none", "suppressed"})
        => m \in f.earlier \/ Lifted(f)

\* However often and however close together a notice is delivered, its change of
\* a message's status leaves one event: the row is locked before the second
\* check.  (Opens, clicks and delays that change no status can be doubled.)
StatusEventOnce ==
    \A e, f \in events :
        (/\ e.msg = f.msg /\ e.eid = f.eid /\ e.eid # <<>> /\ e.type = f.type
         /\ e.type \in {"delivered", "bounced", "complained", "failed"})
        => e = f

\* An automatic pause takes the place of an operator's only when the operator
\* set it after the evaluation had read the tenant.
ManualPauseSurvives ==
    [][pause.source = "manual" /\ pause'.source = "auto"
       => \E p \in Procs : /\ job[p].pc = "commit" /\ job'[p].pc = "idle"
                           /\ job[p].pause # pause]_vars
=============================================================================
