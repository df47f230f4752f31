-------------------------- MODULE DispatchThrottle --------------------------
(***************************************************************************)
(* The transaction of dispatch_message_task that decides whether a message *)
(* may be handed to the provider now: can_send_now followed by             *)
(* record_send_attempt (apps/messages/services/throttling.py), for the     *)
(* workers that serve one tenant.  MessageDispatch's Reserve is CreateSlot *)
(* here, its Throttled is CommitDeferral.                                  *)
(*                                                                         *)
(* Time is a discrete clock shared by the workers and the database.        *)
(* The tenant's cap is read with the message, before the transaction; the  *)
(* domain policy is read again by each function; "now" is taken before the *)
(* tenant row is locked; created_at is the moment of the INSERT.           *)
(***************************************************************************)
EXTENDS Naturals, FiniteSets, FiniteSetsExt

CONSTANTS
    Workers,       \* Celery workers running tasks of one tenant
    Domains,       \* TenantDomain rows of the tenant
    NoDomain,      \* the sending host matches no TenantDomain
    None,          \* no holder of the row lock
    Window,        \* ROLLING_WINDOW
    DayLength,     \* length of the tenant-local day
    Floor,         \* SKYMAILR_DISPATCH_RATE_LIMIT_FLOOR_PER_MINUTE
    Limits,        \* values an operator gives rate_limit_per_minute
    Policies,      \* TenantDomainSendingPolicy contents an administrator saves
    MaxTime,       \* bound: the clock
    MaxSlots       \* bound: rows ever inserted

PolicyType == [enabled : BOOLEAN, perMinute : Nat, daily : Nat]

ASSUME ThrottleAssumption ==
    /\ NoDomain \notin Domains
    /\ None \notin Workers
    /\ Window \in Nat /\ DayLength \in Nat \ {0}
    /\ Floor \in Nat \ {0}
    /\ Limits \subseteq Nat /\ Limits # {}
    /\ Policies \subseteq PolicyType /\ Policies # {}
    /\ MaxTime \in Nat /\ MaxSlots \in Nat

VARIABLES
    clock,      \* the wall clock
    policy,     \* the policy row of each domain
    slots,      \* DispatchRateSlot rows
    nextId,     \* insertion order of the rows
    lock,       \* holder of the tenant row lock
    pc,         \* where each worker is
    cap,        \* effective_tenant_per_minute of the tenant read with the message
    dom,        \* resolve_tenant_domain of the message
    stamp,      \* the "now" of the function that is running
    plan,       \* what record_send_attempt decided to insert
    retryAt,    \* next_retry_at the deferral saves
    touched     \* history: since can_send_now looked, the domain's policy was saved
                \*   or a local midnight passed

workerVars == <<cap, dom, stamp, plan, retryAt, touched>>
vars == <<clock, policy, slots, nextId, lock, pc, workerVars>>

----------------------------------------------------------------------------
\* effective_tenant_per_minute: 0 falls back to the floor, never to "unlimited".
EffectiveCap(raw) == IF raw = 0 THEN Floor ELSE raw

DayOf(t) == t \div DayLength

\* Rows with created_at >= t - ROLLING_WINDOW.
Recent(S, t) == {s \in S : s.at + Window >= t}

OfDomain(S, d) == {s \in S : s.dom = d}

\* Rows inside local_day_bounds of t.
OfDay(S, t) == {s \in S : DayOf(s.at) = DayOf(t)}

\* if td and policy and policy.enabled
PolicyApplies(w) == dom[w] # NoDomain /\ policy[dom[w]].enabled

\* A limit of 0 (or NULL) is no limit.
MinuteCap(w) == IF PolicyApplies(w) THEN policy[dom[w]].perMinute ELSE 0
DailyCap(w) == IF PolicyApplies(w) THEN policy[dom[w]].daily ELSE 0

TenantOpen(w, t) == Cardinality(Recent(slots, t)) < cap[w]

MinuteOpen(w, t) ==
    MinuteCap(w) # 0 =>
        Cardinality(Recent(OfDomain(slots, dom[w]), t)) < MinuteCap(w)

DayOpen(w, t) ==
    DailyCap(w) # 0 =>
        Cardinality(OfDay(OfDomain(slots, dom[w]), t)) < DailyCap(w)

\* All three caps have room at time t, as far as the rows of now tell.
Open(w, t) == TenantOpen(w, t) /\ MinuteOpen(w, t) /\ DayOpen(w, t)

\* Variant: wait for the youngest row of the window instead of the oldest.
WindowEmptiesAt(S, t) ==
    LET inside == Recent(S, t)
    IN IF inside = {} THEN t + 1 ELSE Max({s.at : s \in inside}) + Window

\* _next_tenant_window_opens_at, _next_domain_minute_opens_at
WindowOpensAt(S, t) ==
    LET inside == Recent(S, t)
    IN IF inside = {} THEN t + 1 ELSE Min({s.at : s \in inside}) + Window

\* _next_domain_day_opens_at: the end of the local day.
DayOpensAt(t) == (DayOf(t) + 1) * DayLength

\* calculate_next_send_time: the latest candidate, whether or not it is exceeded.
NextSendTime(w, t) ==
    Max({WindowOpensAt(slots, t)}
        \cup (IF MinuteCap(w) # 0 THEN {WindowOpensAt(OfDomain(slots, dom[w]), t)} ELSE {})
        \cup (IF DailyCap(w) # 0 THEN {DayOpensAt(t)} ELSE {}))

NoPlan == [dom |-> NoDomain, minute |-> 0, daily |-> 0]

\* Columns of a row, and three history fields: the caps it was admitted under.
SlotType == [id : Nat, at : Nat, dom : Domains \cup {NoDomain},
             cap : Nat, minute : Nat, daily : Nat]

Pcs == {"idle", "loaded", "waiting", "checking", "allowed", "recounting",
        "creating", "deferring", "raced"}

\* Inside the transaction, from select_for_update to the commit.
Critical == {"checking", "allowed", "recounting", "creating", "deferring", "raced"}

Init ==
    /\ clock = 0
    /\ policy \in [Domains -> Policies]
    /\ slots = {}
    /\ nextId = 0
    /\ lock = None
    /\ pc = [w \in Workers |-> "idle"]
    /\ cap = [w \in Workers |-> Floor]
    /\ dom = [w \in Workers |-> NoDomain]
    /\ stamp = [w \in Workers |-> 0]
    /\ plan = [w \in Workers |-> NoPlan]
    /\ retryAt = [w \in Workers |-> 0]
    /\ touched = [w \in Workers |-> FALSE]

Goto(w, label) == pc' = [pc EXCEPT ![w] = label]

\* The task ends; its local variables are gone.
Finish(w) ==
    /\ pc' = [pc EXCEPT ![w] = "idle"]
    /\ cap' = [cap EXCEPT ![w] = Floor]
    /\ dom' = [dom EXCEPT ![w] = NoDomain]
    /\ stamp' = [stamp EXCEPT ![w] = 0]
    /\ plan' = [plan EXCEPT ![w] = NoPlan]
    /\ retryAt' = [retryAt EXCEPT ![w] = 0]
    /\ touched' = [touched EXCEPT ![w] = FALSE]

----------------------------------------------------------------------------
(* dispatch_message_task                                                   *)

\* The task reads the message with select_related("tenant").  The operator may save
\* another rate_limit_per_minute at any moment; the task keeps the one it read here.
Load(w) ==
    /\ pc[w] = "idle"
    /\ \E raw \in Limits : cap' = [cap EXCEPT ![w] = EffectiveCap(raw)]
    /\ \E d \in Domains \cup {NoDomain} : dom' = [dom EXCEPT ![w] = d]
    /\ Goto(w, "loaded")
    /\ UNCHANGED <<clock, policy, slots, nextId, lock, stamp, plan, retryAt, touched>>

(* can_send_now *)

TakeNow(w) ==
    /\ pc[w] = "loaded"
    /\ stamp' = [stamp EXCEPT ![w] = clock]
    /\ Goto(w, "waiting")
    /\ UNCHANGED <<clock, policy, slots, nextId, lock, cap, dom, plan, retryAt, touched>>

\* Variant: the tenant row is read without FOR UPDATE.
ReadTenant(w) ==
    /\ pc[w] = "waiting"
    /\ lock' = w
    /\ Goto(w, "checking")
    /\ UNCHANGED <<clock, policy, slots, nextId, workerVars>>

\* Tenant.objects.select_for_update(): waits for the other transaction's end.
LockTenant(w) ==
    /\ pc[w] = "waiting" /\ lock = None
    /\ lock' = w
    /\ Goto(w, "checking")
    /\ UNCHANGED <<clock, policy, slots, nextId, workerVars>>

Allow(w) ==
    /\ pc[w] = "checking"
    /\ Open(w, stamp[w])
    /\ touched' = [touched EXCEPT ![w] = FALSE]
    /\ Goto(w, "allowed")
    /\ UNCHANGED <<clock, policy, slots, nextId, lock, cap, dom, stamp, plan, retryAt>>

\* DEFERRED until "when", for the first of the three caps that is reached.
Defer(w, when) ==
    /\ retryAt' = [retryAt EXCEPT ![w] = when]
    /\ touched' = [touched EXCEPT ![w] = FALSE]
    /\ Goto(w, "deferring")
    /\ UNCHANGED <<clock, policy, slots, nextId, lock, cap, dom, stamp, plan>>

RefuseTenant(w) ==
    /\ pc[w] = "checking"
    /\ ~TenantOpen(w, stamp[w])
    /\ Defer(w, WindowOpensAt(slots, stamp[w]))

RefuseMinute(w) ==
    /\ pc[w] = "checking"
    /\ TenantOpen(w, stamp[w]) /\ ~MinuteOpen(w, stamp[w])
    /\ Defer(w, WindowOpensAt(OfDomain(slots, dom[w]), stamp[w]))

RefuseDay(w) ==
    /\ pc[w] = "checking"
    /\ TenantOpen(w, stamp[w]) /\ MinuteOpen(w, stamp[w]) /\ ~DayOpen(w, stamp[w])
    /\ Defer(w, DayOpensAt(stamp[w]))

(* record_send_attempt; the row lock is already held *)

TakeNowAgain(w) ==
    /\ pc[w] = "allowed"
    /\ stamp' = [stamp EXCEPT ![w] = clock]
    /\ touched' = [touched EXCEPT ![w] = @ \/ DayOf(stamp[w]) # DayOf(clock)]
    /\ Goto(w, "recounting")
    /\ UNCHANGED <<clock, policy, slots, nextId, lock, cap, dom, plan, retryAt>>

Recount(w) ==
    /\ pc[w] = "recounting"
    /\ Open(w, stamp[w])
    /\ plan' = [plan EXCEPT ![w] = [dom |-> IF PolicyApplies(w) THEN dom[w] ELSE NoDomain,
                                    minute |-> MinuteCap(w), daily |-> DailyCap(w)]]
    /\ touched' = [touched EXCEPT ![w] = FALSE]
    /\ Goto(w, "creating")
    /\ UNCHANGED <<clock, policy, slots, nextId, lock, cap, dom, stamp, retryAt>>

\* "rate_limited: capacity race; retry later"
RecountRefuses(w) ==
    /\ pc[w] = "recounting"
    /\ ~Open(w, stamp[w])
    /\ retryAt' = [retryAt EXCEPT ![w] = NextSendTime(w, clock)]
    /\ Goto(w, "raced")
    /\ UNCHANGED <<clock, policy, slots, nextId, lock, cap, dom, stamp, plan, touched>>

NewSlot(w) ==
    [id |-> nextId, at |-> clock, dom |-> plan[w].dom,
     cap |-> cap[w], minute |-> plan[w].minute, daily |-> plan[w].daily]

\* The INSERT and the commit.  The row is visible to other transactions only after
\* the commit, and those that count rows wait for the lock until then.
CreateSlot(w) ==
    /\ pc[w] = "creating"
    /\ nextId < MaxSlots
    /\ slots' = slots \cup {NewSlot(w)}
    /\ nextId' = nextId + 1
    /\ lock' = None
    /\ Finish(w)
    /\ UNCHANGED <<clock, policy>>

CommitDeferral(w) ==
    /\ pc[w] \in {"deferring", "raced"}
    /\ lock' = None
    /\ Finish(w)
    /\ UNCHANGED <<clock, policy, slots, nextId>>

\* The worker dies: the database rolls its transaction back and frees the row.
Crash(w) ==
    /\ pc[w] # "idle"
    /\ lock' = IF pc[w] \in Critical THEN None ELSE lock
    /\ Finish(w)
    /\ UNCHANGED <<clock, policy, slots, nextId>>

----------------------------------------------------------------------------
(* The environment                                                         *)

Tick ==
    /\ clock < MaxTime
    /\ clock' = clock + 1
    /\ UNCHANGED <<policy, slots, nextId, lock, pc, workerVars>>

SetPolicy(d) ==
    /\ \E p \in Policies : policy' = [policy EXCEPT ![d] = p]
    /\ touched' = [w \in Workers |->
                     \/ touched[w]
                     \/ dom[w] = d /\ pc[w] \in {"allowed", "recounting", "deferring"}]
    /\ UNCHANGED <<clock, slots, nextId, lock, pc, cap, dom, stamp, plan, retryAt>>

WorkerStep(w) ==
    \/ Load(w) \/ TakeNow(w) \/ LockTenant(w)
    \/ Allow(w) \/ RefuseTenant(w) \/ RefuseMinute(w) \/ RefuseDay(w)
    \/ TakeNowAgain(w) \/ Recount(w) \/ RecountRefuses(w)
    \/ CreateSlot(w) \/ CommitDeferral(w) \/ Crash(w)

Next ==
    \/ \E w \in Workers : WorkerStep(w)
    \/ Tick
    \/ \E d \in Domains : SetPolicy(d)

Spec == Init /\ [][Next]_vars

----------------------------------------------------------------------------
(* Properties                                                              *)

TypeOK ==
    /\ clock \in Nat
    /\ policy \in [Domains -> Policies]
    /\ slots \subseteq SlotType
    /\ nextId \in Nat
    /\ lock \in Workers \cup {None}
    /\ pc \in [Workers -> Pcs]
    /\ cap \in [Workers -> Nat \ {0}]
    /\ dom \in [Workers -> Domains \cup {NoDomain}]
    /\ stamp \in [Workers -> Nat]
    /\ plan \in [Workers -> [dom : Domains \cup {NoDomain}, minute : Nat, daily : Nat]]
    /\ retryAt \in [Workers -> Nat]
    /\ touched \in [Workers -> BOOLEAN]

\* Rows inserted no later than s.
UpTo(S, s) == {r \in S : r.id <= s.id}

\* The tenant's rolling window is never overfilled: counted at the insertion of any
\* row, the rows of the last minute are no more than the cap that row was admitted
\* under, however many workers raced for the last place.
TenantWindowRespected ==
    \A s \in slots : Cardinality(Recent(UpTo(slots, s), s.at)) <= s.cap

\* The same for a domain's per-minute cap, among the rows booked on the domain.
DomainWindowRespected ==
    \A s \in slots : s.minute # 0 =>
        Cardinality(Recent(OfDomain(UpTo(slots, s), s.dom), s.at)) <= s.minute

\* The same for a domain's daily cap, also when midnight passes between the "now"
\* that was checked and the INSERT.
DomainDayRespected ==
    \A s \in slots : s.daily # 0 =>
        Cardinality(OfDay(OfDomain(UpTo(slots, s), s.dom), s.at)) <= s.daily

\* No window is ever overfilled: not the tenant's rolling minute, not a domain's, and
\* not a domain's local day, although "now" is read before the lock, the policy is
\* read twice, and rows are stamped later than they were counted for.
WindowsRespected == TenantWindowRespected /\ DomainWindowRespected /\ DomainDayRespected

\* A deferral never outlasts its reason: at every instant before the next_retry_at
\* that can_send_now returns, the rows it saw would still refuse the message (unless
\* an administrator changes the policy meanwhile).
DeferralJustified ==
    \A w \in Workers : pc[w] = "deferring" /\ ~touched[w] =>
        \A t \in stamp[w]..(retryAt[w] - 1) : ~Open(w, t)

\* The "capacity race" branch of the task needs more than another worker: once
\* can_send_now has said yes, record_send_attempt says no only if an administrator
\* saved the domain's policy in between, or a local midnight passed, so that rows
\* another worker inserted while this one waited for the lock count only now.
RaceNeedsChange == \A w \in Workers : pc[w] = "raced" => touched[w]
=============================================================================
