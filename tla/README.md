# SkyMailr in TLA+

SkyMailr is a Django service that sends mail for other applications: they create messages
over an HTTP API, Celery workers hand them to a provider (Postal), the provider's webhooks
report what became of them, workflows send series of messages made from approved templates,
and each customer's tenants send from domains they prove to own. The code has no test
that runs two of these actors at once (docs/12-known-limitations.md:22), and hardly a row
is locked. This directory holds what can be checked about the interleavings: TLA+ modules
translated from the source, TLC runs on small instances, and theorems checked by TLAPS for
every instance. Paths below are relative to the repository's root; `PROJECT.json` maps every
definition to the lines it stands for.

## 1. The system

| Component | State | Operations | Interacts with |
|---|---|---|---|
| Send pipeline `messages/services/send_pipeline.py` | `OutboundMessage` rows | `create_templated_message`, `create_raw_message`, one transaction each | suppressions, quota, templates; queues `dispatch_message_task` before its commit |
| Dispatch tasks `messages/tasks.py`, `dispatch.py` | message status, `send_after`, `next_retry_at`, `provider_message_id`; tasks in Redis | `dispatch_message_task`, beat tasks `sweep_dispatch_queue` (15 s) and `retry_due_deferred` (45 s) | throttle, provider, pause, domain verification |
| Throttle `throttling.py` | `DispatchRateSlot` rows, tenant cap, domain policies | `can_send_now`, `record_send_attempt`, `calculate_next_send_time` | row lock on the tenant |
| Message actions `message_actions.py` | message status | retry, cancel, from the API and the operator UI | race with the workers |
| Idempotent sends `api/v1/views.py` | `IdempotencyKeyRecord` | lookup, create, record | send pipeline |
| Provider `providers/postal.py` | none here | `send_message` | accepted, refused, or taken although the answer was lost |
| Webhooks `providers/webhook_service.py` | message status, events, bounces, complaints, suppressions | `ingest` | messages, suppressions, sending risk |
| Sending risk `tenants/services/sending_risk.py` | the tenant's pause | automatic pause; manual pause in the operator UI | creation and dispatch |
| Workflow engine `workflows/services/` | executions, step runs | enrol, sweep due executions, edit steps | send pipeline |
| Accounts `accounts/services/` | memberships, invites, plan limits | invite, accept, edit, deactivate; quota checks | creation of messages, tenants, members |
| Normaliser `providers/normalizers.py` | none | provider payload to event | webhooks |
| Suppressions `subscriptions/` | `DeliverySuppression`, `UnsubscribeRecord`, removal log | add, merge, remove, unsubscribe; `should_suppress` | webhooks write, creation reads |
| Templates `email_templates/services/`, three sets of views | template, versions, approval, declared variables, render logs | save by hand, draft and revise (LLM), approve, preview, delete | send pipeline, workflow steps |
| Workflow steps `workflows/services/workflow_steps.py`, portal and operator views | `WorkflowStep` rows under a unique (workflow, order) | add, edit, move, delete | executions standing at the steps, templates |
| Tenant domains `portal_tenant_domains.py`, `tenants/services/` | `TenantDomain` rows, `tenant.sending_domain`, primary flag, verdicts of the check | add, view, retry, check, choose, remove | DNS, Postal, the plan's cap, dispatch |
| Postal provisioning `providers/postal_*.py`, `deploy/postal_provisioning_bridge/` | Postal's domains and DKIM keys, shared by all tenants | provision, fetch DNS, delete | tenant domains |

What is hard, and where, is listed line by line under `hazards` in `PROJECT.json`. In short:

* **Interleaving and stale rows.** Every writer reads a row, decides, and later saves single
  columns (`save(update_fields=...)`) without looking again. Several copies of one task are
  normal: creation queues one, the sweep another every 15 seconds, retries add more.
* **Two stores, no common transaction.** The broker and the database are written one after
  the other; a crash between the two loses the task or leaves the row behind.
* **Ambiguous calls.** A provider call that times out may have sent the mail.
* **External calls inside a request.** The LLM, Postal and DNS answer while the rows a request
  has loaded go stale, and it saves them afterwards.
* **One fact in several places.** The primary flag and `sending_domain`, the approved version
  and the template's status, the stored verdict and the live one.
* **Time.** Windows and local days are computed from a clock read before a lock is granted.

What would make each component correct: mail is not sent without a reservation, not before
its time, and not twice unless something went wrong that the code cannot see; a status that
says "sent" is true; queued and deferred mail is taken up again; caps hold under races;
deferrals end when their reason does; a replayed key names one message; a workflow step
runs once; an account keeps an owner; a template has one approved version; an address that
bounced gets no more mail.

## 2. Modules

| Module | Models | Checked by | Proved in |
|---|---|---|---|
| `MessageDispatch` | creation, dispatch tasks, sweeps, retry, cancel, status webhooks, crashes | `dispatch_safety`, `dispatch_liveness`, `dispatch_stuck_sending` | `MessageDispatch_proofs` |
| `DeliveryContract` | the abstract promise of the pipeline about one message | as `ImplementsContract` of `dispatch_safety` | `Refinement` |
| `DispatchThrottle` | the throttling transaction under the tenant lock | `throttle` | `DispatchThrottle_proofs` |
| `IdempotentSend` | idempotency keys under concurrent requests | `idempotency` | `IdempotentSend_proofs` |
| `WorkflowEngine` | enrolment, sweeps of due executions, workflow steps, crashes | `workflow` | `WorkflowEngine_proofs` |
| `Membership` | member edit and deactivate, invites, on rows read without a lock | `members`, `members_last_owner` | `Membership_proofs` |
| `ProviderEvents` | the normaliser, as operators | through `WebhookIngest` | |
| `WebhookIngest` | webhooks against messages, feedback records, suppressions and the pause | `ingest` | `WebhookIngest_proofs` |
| `TemplateBodies` | how HTML and text are reconciled, what renders, as operators | through `TemplateStudio` | |
| `TemplateStudio` | one template key: versions, LLM drafts, approvals, previews, sends | `studio` | `WorkflowSteps_proofs` |
| `WorkflowSteps` | `TemplateStudio` composed with the steps of a workflow and its executions | `studio`, `studio_rearrange` | `WorkflowSteps_proofs` |
| `DomainDns` | expected records, answers of Postal and the bridge, the check and the live table, as operators | through `TenantDomains` | `TenantDomains_proofs` |
| `TenantDomains` | sending domains of tenants, and what pages and dispatch read of them | `tenants` | `TenantDomains_proofs` |
| `MC*` | constants and symmetry for TLC | | |

`MessageDispatch!Reserve` and `Throttled` are the two outcomes of the transaction that
`DispatchThrottle` models in detail (`CreateSlot`, `CommitDeferral`); a message of
`MessageDispatch` comes into being where `IdempotentSend!CreateMessage` says, or where
`WorkflowEngine!SendTemplate` does; `WebhookIngest!CheckSend` and `TemplateStudio!SendTemplate`
look into the same creation, for the suppression list and for the version and its rendering.
`WorkflowEngine` has the sweeps over steps that stay as they are, with their clock, batches and
tasks; `WorkflowSteps` takes the same engine, statement by statement, over steps that change
under it, where any running execution may be due at any time.

### MessageDispatch

* A row is `status`, `scheduledFor`, `sendAfter`, `nextRetry`, `providerId`. Times are kept as `none`
  (NULL), `later` or `due`, which is all the code compares. `providerId` counts the
  acceptance it came from, because the identity of the id is what webhooks match.
* `broker` counts the dispatch tasks waiting in Redis by message and by `request.retries`.
  Tasks are acknowledged before they run (Celery's default; `acks_late` is off), so a crash
  loses them. `Redeliver` is Redis' visibility timeout on a task held for its ETA.
* Each process has a `pc` and the message it holds. A read and the save it justifies are two
  actions; nothing of the row is remembered in between because the code does not look at
  the old values again. Only `sweep_dispatch_queue` is one action: it writes no row.
* `creating` is a row inside its transaction: its task is already in the broker
  (`send_pipeline.py:189` runs before the commit), so `FetchDropped` can lose it.
* `ProviderAnswerLost` is the branch of `postal.py` that reports a timeout or an unreadable
  answer as a failure. `DispatchRaises` is the `except` of the task, from any point of
  `dispatch()`.
* `Crash` ends a process at any point; the row keeps what was saved. `abandoned` and
  `exposed` are history variables: the messages whose worker died while they were SENDING,
  and those that met one of the hazards below.
* A row of `OutboundMessage` whose `FAILED` came from rendering has its `scheduled_for`, which
  the INSERT stores, but no `send_after` (`CreateUnrendered`). An operator may retry it: the
  task, which looks at `send_after` alone, sends it at once, and if that task is lost no sweep
  finds it. `unrendered` remembers these rows, the one exception of `NeverSentEarly`.

`DuplicateNeedsExposure` says which hazards can send a message twice, and that nothing else
does: two processes holding the row at once, an acceptance whose answer was lost, an
exception after the acceptance, and a webhook that moves a sent message to DEFERRED or
FAILED.

### DispatchThrottle

One tenant, its domains, and a clock that may advance between any two steps. A worker goes
through `Load` (the message and its tenant are read, the cap with them), `TakeNow` (the
timestamp, read before the lock: `throttling.py:187`), `LockTenant`, the three checks of
`can_send_now`, then `record_send_attempt` with its own timestamp and its own read of the
policy, and the INSERT, which stamps the row itself. `SetPolicy` is an administrator's save at
any moment. Each slot remembers the caps it was admitted under, so the window properties
are about what was promised at admission, not about today's policy.

### IdempotentSend

A request looks its key up, creates the message in a transaction of its own, records the key
with `get_or_create`, and answers. A process can die after each step.

### WorkflowEngine

* A row of `WorkflowExecution` is `status`, `step` (a position in the workflow's steps; one
  past the end is NULL) and `nextRun` (`later` or `due`, all the query compares);
  `enrollment` is its enrolment's status. `plan` is the workflow: the kinds of its steps.
* `Sweep` is the query of `process_due_executions`: the newest `BatchLimit` due rows become
  the worker's copies (`held`), and no row is read again. Then the worker takes them one
  after the other, newest first, through the branches of `_process_one_execution`:
  `SendTemplate` (its own commit), `StartWait`, `AfterSend`, `PassWait`, `PassOther`, and
  `Complete` with `CloseEnrollment`, the two saves of `_complete`. The recursive call for the
  next step is the worker standing at its new copy. `MarkFailed` is the `except` of the
  loop, from any point; it also stands for what the model does not look into, a missing
  template, a full quota, a paused tenant.
* `EnrollWorkflow` and `EnrollCommit` are the two ends of a transaction; the kick is queued
  in the first. `KickLater` is the countdown task of a wait, `AlarmRings` its arrival. Two
  countdowns of one execution are kept as one, and tasks above `MaxTasks` likewise: a sweep
  that comes too early does nothing, and beat brings another.
* `elapsed`, `overlapped` and `resent` are history: waits that were waited out, executions
  that two sweeps held at once, executions whose worker died between the message and the
  save. The properties name these exceptions and exclude every other.

### Membership

* `member` is an account's `AccountMembership` rows by user; `invite` its `AccountInvite` rows,
  with whether `expires_at` has passed. Users stand for their e-mail addresses, since an
  invite can only be accepted by the user with its address.
* A request is a row of `req`: the handler it runs (`op`), how far it is (`pc`), and what it
  has read (`row`, `as`). Each query is an action, because nothing is locked and every save
  rests on rows read before: `EnterMember` (the decorator), `LoadMember` and
  `MembershipForActor` (`_membership_for_actor`, where the actor's role is a second query),
  `CheckEdit` or `CheckDeactivate`, and the save. `CheckEdit` judges the row the form has
  already changed, which is the code's order (`portal_members.py:133`).
* `AcceptInvite` commits the membership and the invite in one step, as the transaction
  does; its reads, under READ COMMITTED, are steps before it (`ReadPending`, `CheckMember`).
* `upset`, `stray` and `met` are history: requests under which what they had read or
  counted was changed, invites such a request created, invites two requests had in hand at
  once. Each property excepts exactly these, so it says what the checks do achieve when
  nobody interferes, and that nothing but interference defeats them.
* The plan's member limit is a refusal the model may choose at any time. Editors, viewers
  and billing users have the same rights over members, none, and are one role.

### ProviderEvents and WebhookIngest

* A webhook body is a record of what the normaliser looks at: the words found in the event and
  the status, which objects are there, the ids, the bounce marker. The order of the rules is
  the code's; `FirstRule` takes the first that applies.
* A webhook is committed when it is received (`Receive`) and applied in a transaction of its
  own: `LookUp` (the message and the unlocked duplicate check), `SettleStatus` and
  `WriteMessage` (the status, under `select_for_update` where the code takes it), `CheckEvent`
  and `InsertEvent`, `FindRow` (the suppression, merged or made), `ReadTenant` (the pause), and
  `Commit`. Each query is an action that sees what is committed, and what a transaction has
  written stays locked until its end. `Fail` rolls back and leaves `processing_error`.
* `rows` are suppressions in the order of their ids, global ones included; removal keeps a log.
  Operators, the portal and the API add and remove by different rules, so each is an action.
* The metrics behind the automatic pause count the messages and feedback records of the
  model, with the day before as two constants. `PauseSending` and `ResumeSending` are the operator's.
* `feedback.earlier` remembers which messages had passed the check when the record was made, so that
  `FeedbackIsHeeded` can except exactly those.

### TemplateBodies, TemplateStudio and WorkflowSteps

* A text is a sequence of lines, an HTML body a layout with text nodes; words and variables are
  lines. That is enough for `reconcile_template_bodies`: which of the two was edited, whether
  the text can be put back into the tags, and which variables a body needs to render.
* `TemplateStudio` is one key of a tenant, so a template may be deleted and made again under
  the same key (`made` numbers them). A page is what a browser shows; a request is a job of a web
  process. The version number is computed in one statement and inserted in another
  (`InsertVersion`, `InsertDraft`, `InsertFails` on the unique constraint); between a request
  to the LLM and its answer (`DraftArrives`, `RevisionArrives`, `LlmFails`) anything may happen.
* Approval is `ClearCurrent`, `MarkCurrent`, `Activate`: three statements, no transaction; after
  any of them the process may die (`cut` remembers templates left between the first two).
* A send or preview validates, then renders; the version is read twice, as in the code.
* `WorkflowSteps` adds step rows, with a foreign key to the template or the bare key the
  operator UI stores. `Renumbered` performs the UPDATEs one by one under the unique
  constraint, on the rows as the request had read them; a clash aborts the transaction.
  Deleting a step sets an execution's current step to NULL. The operator's form asks for no key,
  so it can make a send step with neither template nor key (`unkeyed`).
* `sweep` is what sweeps have in hand: a copy of an execution with the row of its current step
  as it was loaded (`SweepLoad`; the query loads up to 50 executions with their steps, so a
  copy may wait for long), and how far it is. Sending, the step run (`SweepLog`), the query
  for the next step, which uses the loaded order (`SweepNext`), the save of the execution and
  `_complete` are actions of their own, and so are the failures of each: a template or a row
  that is gone, an exception that `process_due_executions` catches, a worker's death. Two copies
  stand for two sweeps that have the same execution.
  `overtaken` marks an execution whose copy met an edit of the steps or another copy,
  `orphaned` one whose current step was deleted or saved as NULL. `DripsRunOut` excepts these,
  and the code does complete such executions early: a step deleted before the one in hand moves
  the later ones down, past the order the sweep looks behind.

### DomainDns and TenantDomains

* `DomainDns` is pure: the records a row expects, what the bridge, the webhook and Postal's HTTP API
  may answer for a name that is or is not there, how `ensure_postal_domain_exists` combines
  them, the verdict of `check_tenant_domain_dns`, and the table of live checks. A DKIM key is a
  number, since a domain made again in Postal gets another key.
* Each request loads its row, calls out, and saves the fields it touched; loading and every
  save are actions, so rows are stale in between. A transaction is one action, as if what others
  do between its statements came before or after it; its locks delay most of that, but under
  READ COMMITTED four requests could overlap in a way that is neither. The exception is
  `tenant_domain_new`, which reads `is_first` before it has locked anything (`IsFirst`, `Insert`).
* The code takes some answers for a success that confirm nothing (`Believed`): in
  `TryExperimental` any answer with data, an error's too, and in `TryWebhook` one that is
  no JSON. Such a row says "created" whether or not Postal has the name.
* `DispatchShouldBlock` has the early exits of the code (`Exempt`): another provider
  (`ViaPostal`), a setting (`AllowUnverified`), and a message whose metadata has
  `bypass_domain_verification`, which staff sends from the operator UI carry.
* `Sync`, `Ensure`, `Resync` are the calls of `process_postal_for_tenant_domain`; the save at
  its end is in the last that runs. `Verify` reads the DNS, which answers anything at each
  check, or fails. `Dies` ends a request at any point: a killed process or an aborted
  transaction.
* Postal is shared by all tenants, and `DeletePostalDomain` comes before the row is deleted.
* `past` is history: "raced" (a domain added on a stale reading), "typed" (a sending domain
  typed into a form), "pulled" (the name was removed from Postal in the row's lifetime),
  "vouched" (the bridge said that no ownership record is needed), "believed" (an answer that
  confirmed nothing was taken for a success), "clobbered" (DNS fields saved over newer ones). Without the exception each names, its property fails.

## 3. Runs

| Run | Instance | Distinct states | Shows |
|---|---|---|---|
| `dispatch_safety` | 1 message, 2 workers, 1 client, all event kinds, 1 Celery retry, 2 copies and 2 admissions, 1 crash | 912 832 | all safety properties and the refinement |
| `dispatch_liveness` | the same, 1 copy, 1 admission, no symmetry | 117 606 | `QueuedIsTaken`, `DueDeferralEnds`, `EventuallyReserved` |
| `dispatch_stuck_sending` | 1 crash | violation | SENDING is never left after the crash |
| `throttle` | 2 workers, 1 domain, tenant caps 1 and 2, domain caps 1, window 1, day 2, 3 instants, 3 rows | 504 675 | windows and days are never overfilled, deferrals end in time |
| `idempotency` | 4 requests, 2 keys | 136 728 | what a key guarantees |
| `workflow` | 2 executions, 2 workers, batch limit 1, kicks may be lost, 1 crash | 282 414 | order, waits and ends of workflows |
| `members` | 2 users, 2 processes, 2 invites, 5 requests one after the other | 1 227 133 | what the checks on members and invites guarantee |
| `members_last_owner` | 1 request | violation | the sole owner edits himself away |
| `ingest` | 2 processes, 2 messages to 1 address, 9 kinds of bodies of which 2 arrive, 1 act of an operator or client | 278 307 | what feedback does to the list, to later sends and to the pause |
| `studio` | 2 processes, 9 starts (no template, a draft, an approved one, a footer, a drip, orders with gaps), up to 3 requests, 2 copies of 1 execution | 263 944 | versions, approvals, previews, edits, steps, and when executions complete |
| `studio_rearrange` | 1 process, 3 steps | violation | moving a step meets the unique constraint |
| `tenants` | 2 processes, 2 tenants, 3 names (one a subdomain of another), cap 1, 3 starts, 3 requests | 669 936 | primary domain, provisioning state, cap, and what pages and dispatch read |

**Why the bounds are enough.** Messages share no state in `MessageDispatch` except workers,
and no action names two of them, so one message and the processes that can meet over it
reach every pattern; two workers and a client give every pair of writers, and two copies of
a task give a duplicate at every point. One Celery retry distinguishes "retries left" from
"none left"; a second admission is needed for a second send, and a third would repeat it.
In `workflow` the older execution sends, waits, sends and ends, so it is swept twice,
and the newer one passes a step by, ends, and has a step behind its END that must not be
reached; with a batch limit of one the newer starves the older while it is due, and two workers hold
stale copies of each. A limit of two, under which a worker's second copy grows old while it
works on its first, was tried for the safety properties with the same result. In `throttle`
a window of one tick and a day of two make rows enter, leave and straddle
both; two workers and caps of one and two make the race for the last place happen. In
`members` two requests overlap at every pair of steps, and five in a row make an account of
any shape, an invite, its acceptance and a change after it; three users, four requests and
one invite were tried with the same result. In `ingest` two webhooks may be
the same one twice, two notices of one address, or a notice and its late opposite, and they meet a
send and one act at every step; `m1` is transactional and sent, `m2` marketing and still to be
made, so both kinds of suppression matter. The starts of `studio` are states users get to,
each with the requests that can go wrong there, because all of them from nothing would only
repeat one another; `StartAssumption` of `WorkflowSteps` says what makes a start one of them (versions
numbered from 1 and one of them current once one was approved, links that hold, a place for
each step), and TLC evaluates it. `tenants` starts from no domain, from a pair of verified ones (above the cap of
one, as two simultaneous adds leave it) and from a name two tenants share. Its `StartAssumption` says that each is a state the system gets to; a plan that is downgraded under
its domains is not one of them, so `DomainCap` is about requests and not about plans. Two
overlapping requests and a third behind them make each of the exceptions in `past` happen.
`Bridge` and `HttpApi` are on and `SpfHint` off, the setting with the most sources to disagree;
`ViaPostal` is on and `AllowUnverified` off, since otherwise dispatch asks about nothing. In `studio` two
copies of one execution and two requests on its steps suffice for an edit, or another sweep, at
every point between a copy's load and its end. The
mutants in `PROJECT.json` (a dropped lock, a record that follows the latest message, a sweep
that looks at the wrong rows, ...) are each caught inside these bounds. The proofs remove the bounds for
safety. Deadlock checking is off where the system may stop: all messages settled, all
requests answered or used up, the clock at its bound.

**Fairness** (`FairSpec`, `UnstarvedSpec`). A worker that runs a task finishes it (weak
fairness of `WorkerStep`; tasks have a hard limit of 30 minutes, `config/settings/base.py:110`).
Beat enqueues the two sweeps for ever and Redis serves its list in order, so a sweep, and a
task that keeps coming back whenever a worker is idle, is eventually run (strong fairness of
`Fetch`, `SweepDispatchQueue`, `RetryDueDeferred`). Clocks advance. Nothing is assumed of
clients, webhooks or crashes. `UnstarvedSpec` adds that the throttle admits a message that
asks again and again: true while the load stays below the caps, and needed only by
`EventuallyReserved`. `WorkflowEngine!FairSpec` assumes that beat keeps queueing its task
(the schedule has it, `config/settings/base.py:127`), that an idle worker takes a waiting
task and a working one goes on or fails, and that clocks and countdowns come.

**Type invariants.** Every module that models code with a state has its type invariant as a theorem (`TypeCorrect`); those
of the larger ones are invariants of their run as well.

**Findings.** The three violation runs are disagreements between what documents, comments and
messages of the repository say and what the code does; `PROJECT.json` quotes both sides. More
have no run of their own, and the properties are stated around them: a soft bounce leaves
DEFERRED without a `next_retry_at`, which nothing retries (`DueDeferralEnds` is about rows
that have one; docs/06-api-and-auth.md:79 promises a retry); two simultaneous requests with one
key are answered with two messages (`ReplaysAgree` is about replays; docs/01-architecture.md:88
promises one); a row may say "created" of a domain Postal does not have, because
`postal_provisioning.py:318` looks for data in an answer before it looks whether it is an error
(`ClaimsHoldUntilRemoved` excepts it; tenants/models.py:130 says that the column is about whether
the domain exists); a message that was scheduled and failed to render is sent at once by a retry
(`NeverSentEarly`); a step deleted or moved while a sweep is at a later one ends the workflow
early (`DripsRunOut`); and without beat an enrolment whose kick overtakes its commit never runs
(`AlwaysEnds` needs `BeatRuns`; compare `workflow_engine.py:23`).

## 4. Proofs

All from the constant assumptions alone (`DispatchAssumption`, `ThrottleAssumption`,
`IdempotencyAssumption`, `WorkflowAssumption`, `MembershipAssumption`, `WebhookAssumption`,
`DnsAssumption`, `DomainsAssumption`, `StudioAssumption`, `NoneAssumption`, `BodiesAssumption`,
`StepsAssumption`, and the `StartAssumption` of `TenantDomains` and of `WorkflowSteps`), for any number of messages, workers,
clients, domains, keys, executions, users, invites, webhooks, tenants, versions and steps, any
workflows, any webhook bodies and any answers of the LLM. They say that constants have their types,
that the sets that are counted are finite, that `None` is no row, and, for the two modules with
several starts, from which states they may start. Every safety property a passing run checks is stated by a
theorem.

* **MessageDispatch.** `Typed` is `TypeOK` with the shape of a process (which pcs hold a
  message, which a batch, who can be where). On it rest: `ReportInv` (a worker about to save
  SENT holds an answer the provider gave); `LiveInv` (processes hold only committed,
  unsuppressed rows; a transaction in progress has one owner); `EarlyInv` (the time of a row whose rendering succeeded is in
  `send_after` as well, and a dispatching worker's message is due or was never rendered); `SlotInv` (acceptances plus workers between reservation and
  acceptance never exceed reservations: this needs the cardinality of the set in flight,
  because a property about two counters alone is not inductive); `DupInv` (an unexposed
  message has at most one contender, and if it was accepted, its status is one nobody takes
  up). `IInv` is their conjunction, and the theorems follow by projection; `CancelIsFinal`
  and `Refinement` prove a step property from it.
* **DispatchThrottle.** `IInv` adds to the types: who holds the lock, ids and ages of rows,
  what a plan was checked against, that every slot satisfied its caps when it was inserted.
  The central argument is that the rows counted under the lock are the rows at the INSERT,
  except that some may have left the window, and that a day's count only loses rows when the
  day changes. The proof attempt refuted an earlier form of `RaceNeedsChange` that forgot
  midnight; TLC then found the behaviour, with a daily cap, as well.
* **IdempotentSend.** An answered or recorded request has its key on record; records name
  messages of their key; an unrecorded message's creator is between its two writes or dead.
* **WorkflowEngine.** `IInv` is `TypeOK` and four families. `SkipInv`: every row, every copy
  and every message is `Fine`, that is, all sends before its position were made and no END
  lies before it. Being Fine is kept when a copy is saved over any row, because messages are
  only ever added; this is why stale saves cannot skip a step. `WaitInv` says the same of
  waits: due rows and copies at or behind a kept wait have its time behind them. `DupInv`:
  while nobody overlaps, an execution has one holder with an exact copy of a pending row, so
  only that holder can end it. `OnceInv` builds on it: a pending row has sent nothing at or
  after its step, except what its holder has just sent. `EndedIsFinal` follows from `DupInv`
  as a step property.
* **Membership.** `IInv` is `TypeOK` (with what a request holds at each point) and three
  families. `RowInv`: for a request that is not upset, the row it read is still the row, the
  touch it was allowed is still allowed, and a deactivation that was let through does not
  concern the only owner; every save marks the requests it makes wrong, so the others keep
  it. `SettleInv`: an invite that never met two requests is in one hand at most, which
  knows its status. `EntryInv`: one pending invite per address, and none for somebody who
  has a row, unless it was stray or met. The four step properties follow: the owners' two
  from `RowInv`, the invites' from `SettleInv` and `EntryInv`.
* **WebhookIngest.** Nothing is used of the normaliser but that it yields addresses of the
  model, so what is proved holds whatever a provider posts. `IInv` is the types of the stores,
  what a job has in hand at each of its queries (`Hands`), and four families. `Records`:
  events, feedback, removals and the pause name webhooks that came and rows that exist.
  `OnceInv`: a process that has written a status holds the message's row until it ends, and
  while its duplicate check is fresh nobody else can have added the event; one status event per
  message and type follows. `BackedInv`: behind each record of feedback stands a live row, or
  the record was lifted, by an act or a removal, after it was made; a row found for merging
  may be deleted before it is written, which is where the proof needs the removal log.
  `HeedInv`: a request that passed the suppression check has no earlier feedback on its address,
  and a record made since knows the request (`earlier`), so a message sent against feedback is
  one of those excepted. `ManualPauses` proves the step property that an automatic evaluation replaces
  an operator's pause only if that was set after the evaluation had read the tenant.
* **TenantDomains.** `IInv` is the types; that a row in hand keeps the name, tenant and id of
  the row it was loaded from (`Hands`); and four families. `CapInv` counts a tenant's rows
  together with the requests between the count and the INSERT, because `DomainCap`, about rows
  alone, says nothing of those that have been let through and is not inductive. `PrimeInv`:
  unless an addition raced, either a tenant has no row and sends from no domain, or one row is
  primary, and its name is the sending domain unless one was typed; the successor of a
  removed primary is the first by name, which exists since names are well-ordered.
  `ClaimInv` says what a row claims of Postal for the copies in hand as well, since a copy is
  saved over the row. `MarkInv` says of a request on its last call how the bridge mark it
  carries was earned. The steps are first sorted by what they touch (`StepCases`: asking,
  writing one row, inserting, moving the primary flag, provisioning, removing, acts on the
  tenant), and each family is proved kept by each kind. `PagesAgree` rests on a lemma about the pure operators of `DomainDns`, that the
  table of live checks and the verdict of the check come out alike for every row and answer, and
  on what `Covering`'s first row by name is.

* **WorkflowSteps**, with `TemplateStudio`. `IInv` has four parts. `Store`: a template's versions are
  numbered from 1 without gaps, none twice; a preview's log names a version that renders in
  its context; a message that failed to render names one that does not, or one that is gone. `PreviewsHold`
  and `OnlyApproved` compare the two. `CurrentInv`: an approved version has a current one beside it, or
  the approval that cleared it is at its next statement, or died there; it is about the markers of all
  versions at once and needs `Requests`, that the version an approval is for still exists.
  `Requests` also says what a request has in hand: a number that was computed earlier has all
  smaller ones given, so that its INSERT, if the unique constraint lets it through, leaves no gap
  (`VersionsAppended`); a list of rows read earlier is a sequence with the moving row in it, whatever has
  become of the rows. `Workflow`: rows have ids and places of their own (kept by `Renumbered` because
  the constraint looks at each UPDATE; the lemma is about any rows and any list, since neither needs to match
  the other); a row being made is nobody else's, one being deleted is still there; `GuardInv`, that a deletion
  whose guard has looked finds no step that needs the template but those saved behind it, which
  is why `SendStepsResolve` survives the DELETE; and `Runs`. `Runs` says where executions stand, what a
  copy knows at each of its points (`CopyOK`), that a running execution without a step is an orphan or
  about to be completed by a copy whose wait was the last step (`ExecOK`, `Closing`), and
  `Judgements`: a copy that nothing overtook is the only one of its execution, and what it has read is
  still so (`Fresh`, `Judged`): its step and the next have the order and type they had, and where it found
  no next, none lies behind. An edit or a second copy marks the execution before it can make this
  false, so `DripsEnd` follows from `Judgements` and what `_complete` needs. Nothing in `IInv`, or in what follows from it, uses how bodies are
  reconciled. Only `TextEdits` does, with an invariant of its own on top of `IInv`: `TextInv`, that a page
  shows what is stored under its number as long as its template is there (versions are never rewritten),
  so that a form made from the latest number was made from the latest body, and that a form in which
  the text alone was edited is about to be inserted with that text. What reconciling stores follows from
  lemmas about `FlattenSeq`: one node with all the lines, and a node for each line, both join to the text.
  `FlattenSeq` picks a recursive function, which is shown to exist by giving it, and to be the only one
  by a least counterexample, so no induction theorem is needed.

Only model-checked: the liveness properties `QueuedIsTaken`, `DueDeferralEnds`, `EventuallyReserved` and
`AlwaysEnds` (the prover has no reasoning about ENABLED and fairness); and that the bounded counters of the environment are enough.

## 5. Not modelled

Priorities, subjects, scheduling text and metadata of messages, and the row limits of the sweeps
(200 and 100: a standing backlog above the limit delays the rest). `MessageDispatch` takes
the verdicts of suppression, quota, pause and domain verification as choices; where they come
from is in `WebhookIngest` and `TenantDomains`. `WorkflowEngine` leaves out a workflow's `is_active`,
which the engine does not read. The monthly quota and the plan's caps other than that on sending domains
have the form of the one that is modelled. `TemplateStudio` leaves out preview lines and the unsaved
draft preview; `WorkflowSteps` the creation and deletion of whole workflows. `TenantDomains`
leaves out edits in the Django admin, the creation of a tenant, and domains somebody edits in
Postal by hand. Listings, dashboards, sender profiles, API keys, serializers, sign-up and
the LLM and HTTP clients are I/O over single rows and stay out.

## 6. Plan

1. Refinement of `MessageDispatch`'s `Reserve` and `Throttled` by `DispatchThrottle`, with its proof.
2. An abstract specification of the suppression list (an address that bounced is kept out until
   somebody lifts it), and `WebhookIngest` shown to implement it.
3. The monthly quota with `usage.py`, and sender profiles with the domains they name.
