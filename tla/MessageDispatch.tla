-------------------------- MODULE MessageDispatch --------------------------
(***************************************************************************)
(* The life of OutboundMessage rows between their creation and the last    *)
(* webhook: send_pipeline.create_*_message, the Celery tasks of            *)
(* apps/messages/tasks.py, EmailDispatchService.dispatch, the retry and    *)
(* cancel requests of message_actions.py, and the status updates made by   *)
(* ProviderWebhookService.                                                 *)
(*                                                                         *)
(* No row lock protects an OutboundMessage.  Every writer reads the row,   *)
(* decides, and later saves single columns without looking at the row      *)
(* again, so a read and the write it justifies are separate actions here.  *)
(* A process between the two is described by pc and cur: the columns it    *)
(* read are not kept, because no code path looks at them a second time.    *)
(***************************************************************************)
EXTENDS Naturals, FiniteSets

CONSTANTS
    Msgs,           \* primary keys of OutboundMessage
    Workers,        \* Celery worker processes
    Clients,        \* web processes serving API and operator requests
    None,           \* "no message": cur of an idle process
    WebhookKinds,   \* the provider events the environment delivers
    MaxRetries,     \* TRANSIENT_RETRY_MAX of the task
    MaxCopies,      \* bound: copies of one task kept apart in the broker
    MaxSlots,       \* bound: admissions (DispatchRateSlot rows) per message
    MaxCrashes      \* bound: crashes of workers and clients in one behaviour

AllWebhookKinds == {"delivered", "hard_bounce", "soft_bounce", "complained",
                    "failed_terminal", "failed_transient"}

ASSUME DispatchAssumption ==
    /\ IsFiniteSet(Msgs) /\ IsFiniteSet(Workers) /\ IsFiniteSet(Clients)
    /\ Workers \cap Clients = {}
    /\ None \notin Msgs
    /\ WebhookKinds \subseteq AllWebhookKinds
    /\ MaxRetries \in Nat /\ MaxCopies \in Nat
    /\ MaxSlots \in Nat /\ MaxCrashes \in Nat

Procs == Workers \cup Clients

VARIABLES
    status,      \* OutboundMessage.status ("absent": no row yet,
                 \*   "creating": row in a transaction that has not committed)
    scheduledFor, \* scheduled_for: "none" (NULL), "later" or "due" against the clock
    sendAfter,   \* send_after, in the same three values
    nextRetry,   \* next_retry_at, in the same three values
    providerId,  \* provider_message_id: 0 is blank, i the i-th acceptance
    broker,      \* dispatch_message_task messages waiting in Redis, by retries
    slots,       \* number of DispatchRateSlot rows of a message
    accepted,    \* times the provider took the mail (the recipient gets one each)
    pc,          \* where each process is
    cur,         \* the message it holds
    tries,       \* request.retries of the dispatch task it runs
    answer,      \* the provider's id for the mail it has just handed over, or 0
    batch,       \* rows of retry_due_deferred's queryset not yet requeued
    abandoned,   \* history: messages whose worker died while they were SENDING
    exposed,     \* history: messages one of the duplicate hazards happened to
    unrendered,  \* history: messages whose rendering failed when they were created
    crashes      \* number of crashes so far

rowVars  == <<status, scheduledFor, sendAfter, nextRetry, providerId>>
procVars == <<pc, cur, tries, answer, batch>>
histVars == <<abandoned, exposed, unrendered, crashes>>
vars == <<rowVars, broker, slots, accepted, procVars, histVars>>

----------------------------------------------------------------------------
(* OutboundStatus; "rendered" and "draft" are never visible after a commit. *)

Statuses == {"absent", "creating", "queued", "sending", "sent", "deferred",
             "delivered", "bounced", "complained", "failed", "suppressed",
             "cancelled"}

Instants == {"none", "later", "due"}

\* The statuses that tell a client the mail has left (SENT and its webhooks).
Reported == {"sent", "delivered", "bounced", "complained"}

\* Inside EmailDispatchService.dispatch, once SENDING has been saved.
SendSection == {"sending", "accepted", "refused"}

\* A dispatch task that has read its row and may still hand it over.
Dispatching == {"fetched", "reserved"} \cup SendSection \cup {"recorded"}

WorkerPcs == {"idle", "requeue", "requeued"} \cup Dispatching
ClientPcs == {"idle", "creating", "retry", "retried", "cancel"}

\* Process p will write the status of m in a way that can cause another send.
Contends(p, m) ==
    \/ m \in batch[p]
    \/ cur[p] = m /\ pc[p] \in Dispatching \cup {"retry"}

Contended(m) == \E p \in Procs : Contends(p, m)

\* Celery's delay()/apply_async(); copies above MaxCopies are not kept apart.
Put(b, m, r) == [b EXCEPT ![m][r] = IF @ < MaxCopies THEN @ + 1 ELSE @]

\* Delivery of one task: acknowledged before it runs (acks_late is off).
Take(b, m, r) == [b EXCEPT ![m][r] = @ - 1]

Goto(p, label) == pc' = [pc EXCEPT ![p] = label]

Finish(p) ==
    /\ pc' = [pc EXCEPT ![p] = "idle"]
    /\ cur' = [cur EXCEPT ![p] = None]
    /\ tries' = [tries EXCEPT ![p] = 0]
    /\ answer' = [answer EXCEPT ![p] = 0]
    /\ UNCHANGED batch

Init ==
    /\ status = [m \in Msgs |-> "absent"]
    /\ scheduledFor = [m \in Msgs |-> "none"]
    /\ sendAfter = [m \in Msgs |-> "none"]
    /\ nextRetry = [m \in Msgs |-> "none"]
    /\ providerId = [m \in Msgs |-> 0]
    /\ broker = [m \in Msgs |-> [r \in 0..MaxRetries |-> 0]]
    /\ slots = [m \in Msgs |-> 0]
    /\ accepted = [m \in Msgs |-> 0]
    /\ pc = [p \in Procs |-> "idle"]
    /\ cur = [p \in Procs |-> None]
    /\ tries = [p \in Procs |-> 0]
    /\ answer = [p \in Procs |-> 0]
    /\ batch = [p \in Procs |-> {}]
    /\ abandoned = {}
    /\ exposed = {}
    /\ unrendered = {}
    /\ crashes = 0

----------------------------------------------------------------------------
(* send_pipeline: one transaction per message.                             *)

\* The INSERT stores scheduled_for, before anything is suppressed, rendered or queued.
Scheduled(m, when) == scheduledFor' = [scheduledFor EXCEPT ![m] = when]

\* should_suppress was true: the row is committed SUPPRESSED, nothing queued.
CreateSuppressed(c, m, when) ==
    /\ pc[c] = "idle" /\ status[m] = "absent"
    /\ Scheduled(m, when)
    /\ status' = [status EXCEPT ![m] = "suppressed"]
    /\ UNCHANGED <<sendAfter, nextRetry, providerId, broker, slots, accepted,
                   procVars, histVars>>

\* Rendering failed: the FAILED row is committed with its scheduled_for, but
\* apply_send_schedule is not reached and send_after stays NULL.
CreateUnrendered(c, m, when) ==
    /\ pc[c] = "idle" /\ status[m] = "absent"
    /\ Scheduled(m, when)
    /\ status' = [status EXCEPT ![m] = "failed"]
    /\ unrendered' = unrendered \cup {m}
    /\ UNCHANGED <<sendAfter, nextRetry, providerId, broker, slots, accepted,
                   procVars, abandoned, exposed, crashes>>

\* apply_send_schedule, which puts now for a NULL scheduled_for, and
\* _queue_dispatch_if_ready: the task is in the broker while the row is still
\* invisible to other connections.
CreateQueued(c, m, when) ==
    /\ pc[c] = "idle" /\ status[m] = "absent"
    /\ LET at == IF when = "none" THEN "due" ELSE when
       IN Scheduled(m, at) /\ sendAfter' = [sendAfter EXCEPT ![m] = at]
    /\ status' = [status EXCEPT ![m] = "creating"]
    /\ broker' = Put(broker, m, 0)
    /\ pc' = [pc EXCEPT ![c] = "creating"]
    /\ cur' = [cur EXCEPT ![c] = m]
    /\ UNCHANGED <<nextRetry, providerId, slots, accepted, tries, answer, batch,
                   histVars>>

\* @transaction.atomic commits.  If the client dies first (Crash) the row stays
\* invisible for good, which is what a rollback leaves.
CreateCommit(c) ==
    /\ pc[c] = "creating"
    /\ status' = [status EXCEPT ![cur[c]] = "queued"]
    /\ Finish(c)
    /\ UNCHANGED <<scheduledFor, sendAfter, nextRetry, providerId, broker, slots, accepted,
                   histVars>>

----------------------------------------------------------------------------
(* dispatch_message_task                                                   *)

\* Variant: a task that trusts the broker and skips the status check.
VisibleOnly(m) == status[m] \notin {"absent", "creating"}

\* The early return on status; a row that is not there is a warning and a return.
Dispatchable(m) == status[m] \in {"queued", "deferred"}

\* Variant: the schedule is not looked at.
NeverEarly(m) == FALSE

\* msg.send_after and msg.send_after > now
TooEarly(m) == sendAfter[m] = "later"

\* The task finds nothing to do and ends.
FetchDropped(w, m, r) ==
    /\ pc[w] = "idle" /\ broker[m][r] > 0
    /\ ~Dispatchable(m)
    /\ broker' = Take(broker, m, r)
    /\ UNCHANGED <<rowVars, slots, accepted, procVars, histVars>>

\* apply_async(eta=send_after): a fresh task, so its retries start at 0.
FetchTooEarly(w, m, r) ==
    /\ pc[w] = "idle" /\ broker[m][r] > 0
    /\ Dispatchable(m) /\ TooEarly(m)
    /\ broker' = Put(Take(broker, m, r), m, 0)
    /\ UNCHANGED <<rowVars, slots, accepted, procVars, histVars>>

FetchReady(w, m, r) ==
    /\ pc[w] = "idle" /\ broker[m][r] > 0
    /\ Dispatchable(m) /\ ~TooEarly(m)
    /\ broker' = Take(broker, m, r)
    /\ pc' = [pc EXCEPT ![w] = "fetched"]
    /\ cur' = [cur EXCEPT ![w] = m]
    /\ tries' = [tries EXCEPT ![w] = r]
    /\ exposed' = IF Contended(m) THEN exposed \cup {m} ELSE exposed
    /\ UNCHANGED <<rowVars, slots, accepted, answer, batch, abandoned, unrendered,
                   crashes>>

Fetch(w, m, r) == FetchDropped(w, m, r) \/ FetchTooEarly(w, m, r) \/ FetchReady(w, m, r)

\* The throttling transaction, both outcomes.  Which one it is depends on the
\* windows of the tenant and the domain, which DispatchThrottle models.
\* Refused: by can_send_now or by record_send_attempt, saved alike.
Throttled(w) ==
    /\ pc[w] = "fetched"
    /\ status' = [status EXCEPT ![cur[w]] = "deferred"]
    /\ nextRetry' = [nextRetry EXCEPT ![cur[w]] = "later"]
    /\ Finish(w)
    /\ UNCHANGED <<scheduledFor, sendAfter, providerId, broker, slots, accepted, histVars>>

\* Variant: the reservation row is forgotten.
ReserveWithoutSlot(w) ==
    /\ pc[w] = "fetched"
    /\ slots[cur[w]] < MaxSlots
    /\ Goto(w, "reserved")
    /\ UNCHANGED <<rowVars, broker, slots, accepted, cur, tries, answer, batch,
                   histVars>>

Reserve(w) ==
    /\ pc[w] = "fetched"
    /\ slots[cur[w]] < MaxSlots
    /\ slots' = [slots EXCEPT ![cur[w]] = @ + 1]
    /\ Goto(w, "reserved")
    /\ UNCHANGED <<rowVars, broker, accepted, cur, tries, answer, batch, histVars>>

----------------------------------------------------------------------------
(* EmailDispatchService.dispatch                                           *)

\* A sending pause or an unverified managed domain: FAILED, the slot stays used.
Blocked(w) ==
    /\ pc[w] = "reserved"
    /\ status' = [status EXCEPT ![cur[w]] = "failed"]
    /\ Goto(w, "recorded")
    /\ UNCHANGED <<scheduledFor, sendAfter, nextRetry, providerId, broker, slots, accepted,
                   cur, tries, answer, batch, histVars>>

BeginSend(w) ==
    /\ pc[w] = "reserved"
    /\ status' = [status EXCEPT ![cur[w]] = "sending"]
    /\ Goto(w, "sending")
    /\ UNCHANGED <<scheduledFor, sendAfter, nextRetry, providerId, broker, slots, accepted,
                   cur, tries, answer, batch, histVars>>

\* provider.send_message accepts the mail and answers with its id.
ProviderAccepts(w) ==
    /\ pc[w] = "sending"
    /\ accepted' = [accepted EXCEPT ![cur[w]] = @ + 1]
    /\ answer' = [answer EXCEPT ![w] = accepted[cur[w]] + 1]
    /\ Goto(w, "accepted")
    /\ UNCHANGED <<rowVars, broker, slots, cur, tries, batch, histVars>>

\* PostalEmailProvider turns a timeout, or an answer it cannot read, into
\* success=False although the mail was taken.
ProviderAnswerLost(w) ==
    /\ pc[w] = "sending"
    /\ accepted' = [accepted EXCEPT ![cur[w]] = @ + 1]
    /\ exposed' = exposed \cup {cur[w]}
    /\ Goto(w, "refused")
    /\ UNCHANGED <<rowVars, broker, slots, cur, tries, answer, batch, abandoned,
                   unrendered, crashes>>

ProviderRefuses(w) ==
    /\ pc[w] = "sending"
    /\ Goto(w, "refused")
    /\ UNCHANGED <<rowVars, broker, slots, accepted, cur, tries, answer, batch,
                   histVars>>

\* Variant: a refusal is saved like a success.
SaveSentAlways(w) ==
    /\ pc[w] \in {"accepted", "refused"}
    /\ status' = [status EXCEPT ![cur[w]] = "sent"]
    /\ providerId' = [providerId EXCEPT ![cur[w]] = answer[w]]
    /\ Goto(w, "recorded")
    /\ UNCHANGED <<scheduledFor, sendAfter, nextRetry, broker, slots, accepted, cur, tries,
                   answer, batch, histVars>>

SaveSent(w) ==
    /\ pc[w] = "accepted"
    /\ status' = [status EXCEPT ![cur[w]] = "sent"]
    /\ providerId' = [providerId EXCEPT ![cur[w]] = answer[w]]
    /\ Goto(w, "recorded")
    /\ UNCHANGED <<scheduledFor, sendAfter, nextRetry, broker, slots, accepted, cur, tries,
                   answer, batch, histVars>>

SaveFailed(w) ==
    /\ pc[w] = "refused"
    /\ status' = [status EXCEPT ![cur[w]] = "failed"]
    /\ Goto(w, "recorded")
    /\ UNCHANGED <<scheduledFor, sendAfter, nextRetry, providerId, broker, slots, accepted,
                   cur, tries, answer, batch, histVars>>

\* MessageEvent.objects.create succeeds and the task returns.
RecordEvent(w) ==
    /\ pc[w] = "recorded"
    /\ Finish(w)
    /\ UNCHANGED <<rowVars, broker, slots, accepted, histVars>>

\* Any exception out of dispatch(): a provider that cannot be built, a failed
\* save, a MessageEvent that cannot be stored.  DEFERRED with a back-off, and
\* self.retry while the task has retries left.
DispatchRaises(w) ==
    /\ pc[w] \in Dispatching \ {"fetched"}
    /\ status' = [status EXCEPT ![cur[w]] = "deferred"]
    /\ nextRetry' = [nextRetry EXCEPT ![cur[w]] = "later"]
    /\ broker' = IF tries[w] < MaxRetries
                 THEN Put(broker, cur[w], tries[w] + 1)
                 ELSE broker
    /\ exposed' = IF answer[w] # 0 THEN exposed \cup {cur[w]} ELSE exposed
    /\ Finish(w)
    /\ UNCHANGED <<scheduledFor, sendAfter, providerId, slots, accepted, abandoned, unrendered,
                   crashes>>

----------------------------------------------------------------------------
(* The beat tasks sweep_dispatch_queue and retry_due_deferred              *)

\* Variant: only rows that have never been deferred are swept.
SweepFreshOnly == {m \in Msgs : /\ status[m] = "queued" /\ sendAfter[m] = "due"
                                /\ nextRetry[m] = "none"}

\* status=QUEUED, send_after__lte=now: a NULL send_after never matches.
SweepQuerySet == {m \in Msgs : status[m] = "queued" /\ sendAfter[m] = "due"}

\* One task per row.  It writes no row, so taking the query and the delay()
\* calls as one step only hides task copies that would be dropped.
SweepDispatchQueue(w) ==
    /\ pc[w] = "idle"
    /\ SweepQuerySet # {}
    /\ broker' = [m \in Msgs |-> IF m \in SweepQuerySet
                                 THEN Put(broker, m, 0)[m] ELSE broker[m]]
    /\ UNCHANGED <<rowVars, slots, accepted, procVars, histVars>>

\* Variant: rows whose retry time came, in whatever status.
RetryTimeCame == {m \in Msgs : nextRetry[m] = "due"}

\* Variant: rows whose retry time came are looked for among the FAILED ones.
FailedAndDue == {m \in Msgs : status[m] = "failed" /\ nextRetry[m] = "due"}

\* status=DEFERRED, next_retry_at__lte=now: a NULL next_retry_at never matches.
DueDeferred == {m \in Msgs : status[m] = "deferred" /\ nextRetry[m] = "due"}

\* The queryset is read once; the loop then walks the rows it returned.
RetryDueDeferred(w) ==
    /\ pc[w] = "idle"
    /\ DueDeferred # {}
    /\ batch' = [batch EXCEPT ![w] = DueDeferred]
    /\ Goto(w, "requeue")
    /\ exposed' = exposed \cup {m \in DueDeferred : Contended(m)}
    /\ UNCHANGED <<rowVars, broker, slots, accepted, cur, tries, answer, abandoned,
                   unrendered, crashes>>

\* One pass of the loop: QUEUED is saved from the stale row (next_retry_at is
\* not cleared), then the task is queued.
RequeueSave(w) ==
    /\ pc[w] = "requeue"
    /\ \E m \in batch[w] :
        /\ status' = [status EXCEPT ![m] = "queued"]
        /\ batch' = [batch EXCEPT ![w] = @ \ {m}]
        /\ cur' = [cur EXCEPT ![w] = m]
    /\ Goto(w, "requeued")
    /\ UNCHANGED <<scheduledFor, sendAfter, nextRetry, providerId, broker, slots, accepted,
                   tries, answer, histVars>>

RequeueDelay(w) ==
    /\ pc[w] = "requeued"
    /\ broker' = Put(broker, cur[w], 0)
    /\ cur' = [cur EXCEPT ![w] = None]
    /\ Goto(w, IF batch[w] = {} THEN "idle" ELSE "requeue")
    /\ UNCHANGED <<rowVars, slots, accepted, tries, answer, batch, histVars>>

----------------------------------------------------------------------------
(* message_actions: what an API client or an operator asks for             *)

\* Variant: everything that is not in flight may be retried.
RetryableLoosely(m) == status[m] \in {"failed", "deferred", "suppressed", "cancelled"}

Retryable(m) == status[m] \in {"failed", "deferred"}

Cancellable(m) == status[m] \in {"queued", "deferred"}

ReadForRetry(c, m) ==
    /\ pc[c] = "idle" /\ Retryable(m)
    /\ pc' = [pc EXCEPT ![c] = "retry"]
    /\ cur' = [cur EXCEPT ![c] = m]
    /\ exposed' = IF Contended(m) THEN exposed \cup {m} ELSE exposed
    /\ UNCHANGED <<rowVars, broker, slots, accepted, tries, answer, batch,
                   abandoned, unrendered, crashes>>

SaveRetry(c) ==
    /\ pc[c] = "retry"
    /\ status' = [status EXCEPT ![cur[c]] = "queued"]
    /\ nextRetry' = [nextRetry EXCEPT ![cur[c]] = "none"]
    /\ Goto(c, "retried")
    /\ UNCHANGED <<scheduledFor, sendAfter, providerId, broker, slots, accepted, cur, tries,
                   answer, batch, histVars>>

DelayRetry(c) ==
    /\ pc[c] = "retried"
    /\ broker' = Put(broker, cur[c], 0)
    /\ Finish(c)
    /\ UNCHANGED <<rowVars, slots, accepted, histVars>>

ReadForCancel(c, m) ==
    /\ pc[c] = "idle" /\ Cancellable(m)
    /\ pc' = [pc EXCEPT ![c] = "cancel"]
    /\ cur' = [cur EXCEPT ![c] = m]
    /\ UNCHANGED <<rowVars, broker, slots, accepted, tries, answer, batch, histVars>>

SaveCancel(c) ==
    /\ pc[c] = "cancel"
    /\ status' = [status EXCEPT ![cur[c]] = "cancelled"]
    /\ Finish(c)
    /\ UNCHANGED <<scheduledFor, sendAfter, nextRetry, providerId, broker, slots, accepted,
                   histVars>>

----------------------------------------------------------------------------
(* ProviderWebhookService._apply_internal, as far as OutboundMessage.status  *)
(* goes.  The row is found by provider_message_id, so nothing matches before *)
(* SaveSent, nor for an id that a later send has replaced; such events are   *)
(* stored and change no row.                                                 *)
(*                                                                         *)
(* Reading the row and saving it are one step here.  Only failed_transient *)
(* looks at the status it read, and a stale look can add nothing but a     *)
(* move to DEFERRED, which soft_bounce makes from every status; a          *)
(* provider_message_id never becomes blank again.                          *)

Matched(m) == providerId[m] # 0

WebhookStatus(kind, s) ==
    CASE kind = "delivered"        -> "delivered"
      [] kind = "hard_bounce"      -> "bounced"
      [] kind = "soft_bounce"      -> "deferred"
      [] kind = "complained"       -> "complained"
      [] kind = "failed_terminal"  -> "failed"
      [] kind = "failed_transient" -> IF s \in {"sending", "sent"} THEN "deferred" ELSE s

Webhook(m, kind) ==
    /\ Matched(m)
    /\ LET s == WebhookStatus(kind, status[m]) IN
       /\ status' = [status EXCEPT ![m] = s]
       /\ exposed' = IF s \in {"deferred", "failed"} THEN exposed \cup {m} ELSE exposed
    /\ UNCHANGED <<scheduledFor, sendAfter, nextRetry, providerId, broker, slots, accepted,
                   procVars, abandoned, unrendered, crashes>>

----------------------------------------------------------------------------
(* The environment: clock, broker, crashes                                 *)

\* The scheduled time comes, for whichever of the two columns holds it.
ScheduleComes(m) ==
    /\ scheduledFor[m] = "later"
    /\ scheduledFor' = [scheduledFor EXCEPT ![m] = "due"]
    /\ sendAfter' = [sendAfter EXCEPT ![m] = IF @ = "later" THEN "due" ELSE @]
    /\ UNCHANGED <<status, nextRetry, providerId, broker, slots, accepted,
                   procVars, histVars>>

RetryTimeComes(m) ==
    /\ nextRetry[m] = "later"
    /\ nextRetry' = [nextRetry EXCEPT ![m] = "due"]
    /\ UNCHANGED <<status, scheduledFor, sendAfter, providerId, broker, slots, accepted,
                   procVars, histVars>>

\* A task held for its ETA longer than Redis' visibility timeout comes twice.
Redeliver(m) ==
    /\ sendAfter[m] = "later"
    /\ broker[m][0] \in 1..(MaxCopies - 1)
    /\ broker' = Put(broker, m, 0)
    /\ UNCHANGED <<rowVars, slots, accepted, procVars, histVars>>

\* The process dies: what it held in memory is gone, its task is not redelivered.
\* An exception that escapes the task outside dispatch() has the same effect.
Crash(p) ==
    /\ pc[p] # "idle" /\ crashes < MaxCrashes
    /\ crashes' = crashes + 1
    /\ abandoned' = IF pc[p] \in SendSection THEN abandoned \cup {cur[p]} ELSE abandoned
    /\ pc' = [pc EXCEPT ![p] = "idle"]
    /\ cur' = [cur EXCEPT ![p] = None]
    /\ tries' = [tries EXCEPT ![p] = 0]
    /\ answer' = [answer EXCEPT ![p] = 0]
    /\ batch' = [batch EXCEPT ![p] = {}]
    /\ UNCHANGED <<rowVars, broker, slots, accepted, exposed, unrendered>>

----------------------------------------------------------------------------

WorkerStep(w) ==
    \/ Throttled(w) \/ Reserve(w)
    \/ Blocked(w) \/ BeginSend(w)
    \/ ProviderAccepts(w) \/ ProviderAnswerLost(w) \/ ProviderRefuses(w)
    \/ SaveSent(w) \/ SaveFailed(w) \/ RecordEvent(w) \/ DispatchRaises(w)
    \/ RequeueSave(w) \/ RequeueDelay(w)

WorkerTake(w) ==
    \/ \E m \in Msgs, r \in 0..MaxRetries : Fetch(w, m, r)
    \/ SweepDispatchQueue(w)
    \/ RetryDueDeferred(w)

ClientStep(c) ==
    \/ \E m \in Msgs, when \in Instants :
        \/ CreateSuppressed(c, m, when) \/ CreateUnrendered(c, m, when)
        \/ CreateQueued(c, m, when)
    \/ \E m \in Msgs : ReadForRetry(c, m) \/ ReadForCancel(c, m)
    \/ CreateCommit(c)
    \/ SaveRetry(c) \/ DelayRetry(c)
    \/ SaveCancel(c)

Environment ==
    \/ \E m \in Msgs : \/ ScheduleComes(m) \/ RetryTimeComes(m) \/ Redeliver(m)
                       \/ \E kind \in WebhookKinds : Webhook(m, kind)
    \/ \E p \in Procs : Crash(p)

Next ==
    \/ \E w \in Workers : WorkerTake(w) \/ WorkerStep(w)
    \/ \E c \in Clients : ClientStep(c)
    \/ Environment

Spec == Init /\ [][Next]_vars

(***************************************************************************)
(* Fairness.  Time passes; a live worker finishes what it started (tasks    *)
(* have a hard time limit of 30 minutes); beat fires its entries for ever   *)
(* and Redis serves its lists in order, so a task that keeps being there    *)
(* whenever a worker falls idle is delivered.  Nothing is assumed of        *)
(* clients, of the provider's webhooks or of the throttle's decisions.      *)
(***************************************************************************)
Fairness ==
    /\ \A m \in Msgs : /\ WF_vars(ScheduleComes(m))
                       /\ WF_vars(RetryTimeComes(m))
                       /\ SF_vars(\E w \in Workers, r \in 0..MaxRetries : Fetch(w, m, r))
    /\ \A w \in Workers : WF_vars(WorkerStep(w))
    /\ SF_vars(\E w \in Workers : SweepDispatchQueue(w))
    /\ SF_vars(\E w \in Workers : RetryDueDeferred(w))

FairSpec == Spec /\ Fairness

\* The throttle lets a message through sooner or later: what holds while the
\* offered load stays below the configured caps.
UnstarvedSpec == FairSpec /\ \A w \in Workers : SF_vars(Reserve(w))

----------------------------------------------------------------------------
(* Properties                                                              *)

TypeOK ==
    /\ status \in [Msgs -> Statuses]
    /\ scheduledFor \in [Msgs -> Instants]
    /\ sendAfter \in [Msgs -> Instants]
    /\ nextRetry \in [Msgs -> Instants]
    /\ providerId \in [Msgs -> Nat]
    /\ broker \in [Msgs -> [0..MaxRetries -> 0..MaxCopies]]
    /\ slots \in [Msgs -> 0..MaxSlots]
    /\ accepted \in [Msgs -> Nat]
    /\ pc \in [Procs -> WorkerPcs \cup ClientPcs]
    /\ cur \in [Procs -> Msgs \cup {None}]
    /\ tries \in [Procs -> 0..MaxRetries]
    /\ answer \in [Procs -> Nat]
    /\ batch \in [Procs -> SUBSET Msgs]
    /\ abandoned \subseteq Msgs
    /\ exposed \subseteq Msgs
    /\ unrendered \subseteq Msgs
    /\ crashes \in 0..MaxCrashes

\* Throttling is not bypassed: whatever mix of duplicate tasks, Celery retries,
\* sweeps, operator retries and crashes a message goes through, the provider has
\* not taken it more often than DispatchRateSlot rows were written for it.
EverySendHasASlot == \A m \in Msgs : accepted[m] <= slots[m]

\* A message whose status says the mail left (or what became of it) was taken by
\* the provider, and its provider_message_id is that of a real acceptance: blind
\* saves by stale workers never leave a SENT row without one.
ReportedMeansAccepted ==
    \A m \in Msgs :
        /\ status[m] \in Reported => providerId[m] # 0
        /\ providerId[m] <= accepted[m]

\* SENDING is only ever left behind by a crash: as long as no worker died in the
\* middle of a send of m, a SENDING row has a live worker that will overwrite it.
SendingHasAWorker ==
    \A m \in Msgs : status[m] = "sending" =>
        \/ \E w \in Workers : cur[w] = m /\ pc[w] \in SendSection
        \/ m \in abandoned

\* Mail scheduled for later never leaves early, not by an operator's retry, not by
\* a Celery retry, a sweep or a duplicate of its task.  The one exception is a
\* message whose rendering failed when it was created: its time is in scheduled_for
\* alone, the tasks look at send_after alone, and a retry sends it at once.
NeverSentEarly ==
    \A m \in Msgs : accepted[m] > 0 /\ scheduledFor[m] = "later" => m \in unrendered

\* The recipient gets a message twice only after one of the named hazards: two
\* processes holding the row at once, an acceptance whose answer was lost, an
\* exception after the acceptance, or a webhook that moved a sent message to
\* DEFERRED or FAILED.  Duplicated tasks, sweeps, Celery retries, throttling,
\* crashes and operator retries by themselves do not send twice.
DuplicateNeedsExposure == \A m \in Msgs : accepted[m] > 1 => m \in exposed

\* Cancelling works when nobody is in the middle of handling the row: from then on
\* no task still in the broker, sweep, operator request or crash takes it up again.
CancelledAtRest(m) ==
    /\ status[m] = "cancelled" /\ providerId[m] = 0
    /\ \A p \in Procs : cur[p] # m /\ m \notin batch[p]

CancelSticks == [][\A m \in Msgs : CancelledAtRest(m) => CancelledAtRest(m)']_vars

\* The pipeline keeps the contract of DeliveryContract: a message is suppressed for
\* good or it is live, and the provider takes it only against a reservation.
Phase(m) == CASE status[m] \in {"absent", "creating"} -> "absent"
              [] status[m] = "suppressed"             -> "suppressed"
              [] OTHER                                -> "live"

Contract == INSTANCE DeliveryContract WITH
                phase <- [m \in Msgs |-> Phase(m)],
                reserved <- slots,
                handed <- accepted

ImplementsContract == Contract!Spec

\* A queued message that has a send time does not wait for ever, whatever happens
\* to the task that was queued with it: some task comes to look at it.
QueuedIsTaken ==
    \A m \in Msgs : (status[m] = "queued" /\ sendAfter[m] # "none") ~> status[m] # "queued"

\* A deferral that names a retry time ends.
DueDeferralEnds ==
    \A m \in Msgs :
        (status[m] = "deferred" /\ nextRetry[m] # "none") ~>
            (status[m] # "deferred" \/ nextRetry[m] = "none")

\* A message created QUEUED is eventually admitted to the provider, unless it is
\* cancelled on the way.
EventuallyReserved ==
    \A m \in Msgs :
        (status[m] = "queued" /\ sendAfter[m] # "none" /\ slots[m] = 0) ~>
            (slots[m] > 0 \/ status[m] = "cancelled")

\* What docs/01-architecture.md:69 says of dispatch: "-> sending -> sent or failed
\* (with retries/defer)".
SendingResolves == \A m \in Msgs : status[m] = "sending" ~> status[m] # "sending"
=============================================================================
