---------------------- MODULE DispatchThrottle_proofs ----------------------
(* Proofs about DispatchThrottle, for any number of workers, domains and    *)
(* slots, any caps, window and day length.                                  *)
EXTENDS DispatchThrottle, FiniteSetTheorems, WellFoundedInduction, TLAPS

----------------------------------------------------------------------------
(* Arithmetic of days, and of the windows.                                  *)

\* Days are counted without gaps: what \div is.
LEMMA DayBounds ==
    ASSUME NEW t \in Nat
    PROVE  /\ DayOf(t) \in Nat
           /\ DayLength * DayOf(t) <= t
           /\ t < DayLength * DayOf(t) + DayLength
  BY ThrottleAssumption DEF DayOf

\* A later instant is never on an earlier day.
LEMMA DayMonotone ==
    ASSUME NEW s \in Nat, NEW t \in Nat, s <= t
    PROVE  DayOf(s) <= DayOf(t)
  <1> SUFFICES ASSUME DayOf(t) + 1 <= DayOf(s) PROVE FALSE
    BY DayBounds
  <1>1. DayLength * (DayOf(t) + 1) <= DayLength * DayOf(s)
    BY DayBounds, ThrottleAssumption
  <1>2. DayLength * (DayOf(t) + 1) = DayLength * DayOf(t) + DayLength
    BY DayBounds, ThrottleAssumption
  <1>3. DayLength * DayOf(t) \in Nat /\ DayLength * DayOf(s) \in Nat
    BY DayBounds, ThrottleAssumption
  <1> QED BY <1>1, <1>2, <1>3, DayBounds, ThrottleAssumption

\* DayOpensAt is the first instant of the next day.
LEMMA DayOpensNext ==
    ASSUME NEW s \in Nat, NEW t \in Nat, s <= t, t < DayOpensAt(s)
    PROVE  DayOf(t) = DayOf(s)
  <1>1. DayOf(s) <= DayOf(t)
    BY DayMonotone
  <1> SUFFICES ASSUME DayOf(s) + 1 <= DayOf(t) PROVE FALSE
    BY <1>1, DayBounds
  <1>2. DayLength * (DayOf(s) + 1) <= DayLength * DayOf(t)
    BY DayBounds, ThrottleAssumption
  <1>3. (DayOf(s) + 1) * DayLength = DayLength * (DayOf(s) + 1)
    BY DayBounds, ThrottleAssumption
  <1>4. DayLength * DayOf(t) \in Nat /\ DayLength * (DayOf(s) + 1) \in Nat
    BY DayBounds, ThrottleAssumption
  <1> QED BY <1>2, <1>3, <1>4, DayBounds DEF DayOpensAt

\* The opening of the next day is an instant.
LEMMA DayOpensType ==
    ASSUME NEW t \in Nat
    PROVE  DayOpensAt(t) \in Nat
  <1>1. DayOf(t) + 1 \in Nat
    BY DayBounds
  <1> QED BY <1>1, ThrottleAssumption DEF DayOpensAt

\* Min of a non-empty set of instants is its least member.
LEMMA MinIsLeast ==
    ASSUME NEW S \in SUBSET Nat, S # {}
    PROVE  /\ Min(S) \in S
           /\ \A x \in S : Min(S) <= x
  <1>1. PICK x \in S : \A y \in S : ~ (<<y, x>> \in OpToRel(<, Nat))
    BY NatLessThanWellFounded, WFMin
  <1>2. ASSUME NEW y \in S, y < x PROVE FALSE
    <2>1. <<y, x>> \in Nat \X Nat /\ <<y, x>>[1] < <<y, x>>[2]
      BY <1>2
    <2>2. <<y, x>> \in OpToRel(<, Nat)
      BY <2>1 DEF OpToRel
    <2> QED BY <1>1, <2>2
  <1>3. \A y \in S : x <= y
    BY <1>2
  <1> QED BY <1>3 DEF Min

\* The instant a window opens, and why: until then its rows stay inside it.
LEMMA WindowOpensType ==
    ASSUME NEW S \in SUBSET SlotType, NEW t \in Nat
    PROVE  WindowOpensAt(S, t) \in Nat
  <1> DEFINE ats == {s.at : s \in Recent(S, t)}
  <1>1. CASE Recent(S, t) = {}
    BY <1>1 DEF WindowOpensAt
  <1>2. CASE Recent(S, t) # {}
    <2>1. ats \in SUBSET Nat /\ ats # {}
      BY <1>2 DEF Recent, SlotType
    <2>2. Min(ats) \in Nat
      BY <2>1, MinIsLeast
    <2> QED BY <1>2, <2>2, ThrottleAssumption DEF WindowOpensAt
  <1> QED BY <1>1, <1>2

\* No row leaves the window before the moment it is said to open: the rows that fill it
\* at t fill it at every u before that.
LEMMA WindowStaysFull ==
    ASSUME NEW S \in SUBSET SlotType, NEW t \in Nat, Recent(S, t) # {},
           NEW u \in Nat, u < WindowOpensAt(S, t)
    PROVE  Recent(S, t) \subseteq Recent(S, u)
  <1> DEFINE ats == {s.at : s \in Recent(S, t)}
  <1>1. ats \in SUBSET Nat /\ ats # {}
    BY DEF Recent, SlotType
  <1>2. Min(ats) \in Nat /\ \A x \in ats : Min(ats) <= x
    BY <1>1, MinIsLeast
  <1>3. u < Min(ats) + Window
    BY DEF WindowOpensAt
  <1> SUFFICES ASSUME NEW s \in Recent(S, t) PROVE s \in Recent(S, u)
    OBVIOUS
  <1>4. s \in S /\ s.at \in Nat /\ Min(ats) <= s.at
    BY <1>2 DEF Recent, SlotType
  <1> QED BY <1>2, <1>3, <1>4, ThrottleAssumption DEF Recent

\* A window that starts later holds fewer rows.
LEMMA RecentShrinks ==
    ASSUME NEW S \in SUBSET SlotType, NEW t \in Nat, NEW u \in Nat, t <= u
    PROVE  Recent(S, u) \subseteq Recent(S, t)
  BY ThrottleAssumption DEF Recent, SlotType

----------------------------------------------------------------------------
(* Types.                                                                   *)

Typed == TypeOK /\ IsFiniteSet(slots)

\* The caps a domain's policy imposes are numbers; without one they are 0.
LEMMA CapTypes ==
    ASSUME Typed, NEW w \in Workers
    PROVE  /\ MinuteCap(w) \in Nat /\ DailyCap(w) \in Nat
           /\ MinuteCap(w) # 0 \/ DailyCap(w) # 0 => PolicyApplies(w)
           /\ PolicyApplies(w) => dom[w] \in Domains
  <1>1. PolicyApplies(w) => dom[w] \in Domains /\ policy[dom[w]] \in PolicyType
    BY ThrottleAssumption DEF Typed, TypeOK, PolicyApplies
  <1> QED BY <1>1 DEF MinuteCap, DailyCap, PolicyType

\* calculate_next_send_time answers with an instant.
LEMMA NextSendType ==
    ASSUME Typed, NEW w \in Workers, NEW t \in Nat
    PROVE  NextSendTime(w, t) \in Nat
  <1> DEFINE a == WindowOpensAt(slots, t)
             b == WindowOpensAt(OfDomain(slots, dom[w]), t)
             c == DayOpensAt(t)
             S == {a} \cup (IF MinuteCap(w) # 0 THEN {b} ELSE {})
                      \cup (IF DailyCap(w) # 0 THEN {c} ELSE {})
  <1>1. a \in Nat
    BY WindowOpensType DEF Typed, TypeOK
  <1>2. b \in Nat
    BY WindowOpensType DEF Typed, TypeOK, OfDomain
  <1>3. c \in Nat
    BY DayOpensType
  <1> HIDE DEF a, b, c
  <1>4. S \subseteq Nat /\ \E x \in S : \A y \in S : x >= y
    BY <1>1, <1>2, <1>3
  <1>5. Max(S) \in Nat
    BY <1>4 DEF Max
  <1> QED BY <1>5 DEF NextSendTime, a, b, c

\* A task that ends leaves well-typed local variables.
LEMMA FinishTypes ==
    ASSUME Typed, NEW w \in Workers, Finish(w)
    PROVE  /\ pc' \in [Workers -> Pcs]
           /\ cap' \in [Workers -> Nat \ {0}]
           /\ dom' \in [Workers -> Domains \cup {NoDomain}]
           /\ stamp' \in [Workers -> Nat]
           /\ plan' \in [Workers -> [dom : Domains \cup {NoDomain}, minute : Nat, daily : Nat]]
           /\ retryAt' \in [Workers -> Nat]
           /\ touched' \in [Workers -> BOOLEAN]
  <1> USE ThrottleAssumption DEF Typed, TypeOK, Finish
  <1>1. pc' \in [Workers -> Pcs]
    BY DEF Pcs
  <1>2. cap' \in [Workers -> Nat \ {0}]
    OBVIOUS
  <1>3. dom' \in [Workers -> Domains \cup {NoDomain}]
    OBVIOUS
  <1>4. plan' \in [Workers -> [dom : Domains \cup {NoDomain}, minute : Nat, daily : Nat]]
    BY DEF NoPlan
  <1>5. touched' \in [Workers -> BOOLEAN]
    OBVIOUS
  <1> QED BY <1>1, <1>2, <1>3, <1>4, <1>5

\* Every step keeps the types.
LEMMA TypedStep == Typed /\ [Next]_vars => Typed'
  <1> SUFFICES ASSUME Typed, [Next]_vars PROVE Typed'
    OBVIOUS
  <1> USE ThrottleAssumption
      DEF Typed, TypeOK, Pcs, Goto, workerVars
  <1>1. ASSUME NEW w \in Workers, Load(w) PROVE Typed'
    <2>1. cap' \in [Workers -> Nat \ {0}]
      BY <1>1 DEF Load, EffectiveCap
    <2>2. dom' \in [Workers -> Domains \cup {NoDomain}]
      BY <1>1 DEF Load
    <2> QED BY <1>1, <2>1, <2>2 DEF Load
  <1>2. ASSUME NEW w \in Workers, TakeNow(w) PROVE Typed'
    BY <1>2 DEF TakeNow
  <1>3. ASSUME NEW w \in Workers, LockTenant(w) PROVE Typed'
    BY <1>3 DEF LockTenant
  <1>4. ASSUME NEW w \in Workers, Allow(w) PROVE Typed'
    <2>1. touched' \in [Workers -> BOOLEAN]
      BY <1>4 DEF Allow
    <2> QED BY <1>4, <2>1 DEF Allow
  <1>5. ASSUME NEW w \in Workers, RefuseTenant(w) PROVE Typed'
    <2>1. WindowOpensAt(slots, stamp[w]) \in Nat
      BY WindowOpensType
    <2>2. retryAt' \in [Workers -> Nat]
      BY <1>5, <2>1 DEF RefuseTenant, Defer
    <2>3. touched' \in [Workers -> BOOLEAN]
      BY <1>5 DEF RefuseTenant, Defer
    <2>4. pc' \in [Workers -> Pcs]
      BY <1>5 DEF RefuseTenant, Defer
    <2> QED BY <1>5, <2>2, <2>3, <2>4 DEF RefuseTenant, Defer
  <1>6. ASSUME NEW w \in Workers, RefuseMinute(w) PROVE Typed'
    <2>1. WindowOpensAt(OfDomain(slots, dom[w]), stamp[w]) \in Nat
      BY WindowOpensType DEF OfDomain
    <2>2. retryAt' \in [Workers -> Nat]
      BY <1>6, <2>1 DEF RefuseMinute, Defer
    <2>3. touched' \in [Workers -> BOOLEAN]
      BY <1>6 DEF RefuseMinute, Defer
    <2>4. pc' \in [Workers -> Pcs]
      BY <1>6 DEF RefuseMinute, Defer
    <2> QED BY <1>6, <2>2, <2>3, <2>4 DEF RefuseMinute, Defer
  <1>7. ASSUME NEW w \in Workers, RefuseDay(w) PROVE Typed'
    <2>1. DayOpensAt(stamp[w]) \in Nat
      BY DayOpensType
    <2>2. retryAt' \in [Workers -> Nat]
      BY <1>7, <2>1 DEF RefuseDay, Defer
    <2>3. touched' \in [Workers -> BOOLEAN]
      BY <1>7 DEF RefuseDay, Defer
    <2>4. pc' \in [Workers -> Pcs]
      BY <1>7 DEF RefuseDay, Defer
    <2> QED BY <1>7, <2>2, <2>3, <2>4 DEF RefuseDay, Defer
  <1>8. ASSUME NEW w \in Workers, TakeNowAgain(w) PROVE Typed'
    <2>1. touched' \in [Workers -> BOOLEAN]
      BY <1>8, Zenon DEF TakeNowAgain
    <2> QED BY <1>8, <2>1 DEF TakeNowAgain
  <1>9. ASSUME NEW w \in Workers, Recount(w) PROVE Typed'
    <2>1. [dom |-> IF PolicyApplies(w) THEN dom[w] ELSE NoDomain,
           minute |-> MinuteCap(w), daily |-> DailyCap(w)]
             \in [dom : Domains \cup {NoDomain}, minute : Nat, daily : Nat]
      BY CapTypes
    <2>2. plan' \in [Workers -> [dom : Domains \cup {NoDomain}, minute : Nat, daily : Nat]]
      BY <1>9, <2>1 DEF Recount
    <2>3. touched' \in [Workers -> BOOLEAN]
      BY <1>9 DEF Recount
    <2> QED BY <1>9, <2>2, <2>3 DEF Recount
  <1>10. ASSUME NEW w \in Workers, RecountRefuses(w) PROVE Typed'
    <2>1. NextSendTime(w, clock) \in Nat
      BY NextSendType
    <2>2. retryAt' \in [Workers -> Nat]
      BY <1>10, <2>1 DEF RecountRefuses
    <2> QED BY <1>10, <2>2 DEF RecountRefuses
  <1>11. ASSUME NEW w \in Workers, CreateSlot(w) PROVE Typed'
    <2>1. NewSlot(w) \in SlotType
      BY DEF NewSlot, SlotType
    <2>2. slots' \subseteq SlotType /\ IsFiniteSet(slots')
      BY <1>11, <2>1, FS_AddElement DEF CreateSlot
    <2>3. nextId' \in Nat /\ lock' \in Workers \cup {None}
      BY <1>11 DEF CreateSlot
    <2> QED BY ONLY <1>11, <2>2, <2>3, FinishTypes, Typed, ThrottleAssumption
        DEF CreateSlot, Typed, TypeOK
  <1>12. ASSUME NEW w \in Workers, CommitDeferral(w) PROVE Typed'
    <2>1. lock' \in Workers \cup {None}
      BY <1>12 DEF CommitDeferral
    <2> QED BY ONLY <1>12, <2>1, FinishTypes, Typed, ThrottleAssumption DEF CommitDeferral, Typed, TypeOK
  <1>13. ASSUME NEW w \in Workers, Crash(w) PROVE Typed'
    <2>1. lock' \in Workers \cup {None}
      BY <1>13 DEF Crash
    <2> QED BY ONLY <1>13, <2>1, FinishTypes, Typed, ThrottleAssumption DEF Crash, Typed, TypeOK
  <1>14. CASE Tick
    BY <1>14 DEF Tick
  <1>15. ASSUME NEW d \in Domains, SetPolicy(d) PROVE Typed'
    <2>1. policy' \in [Domains -> Policies]
      BY <1>15 DEF SetPolicy
    <2>2. touched' \in [Workers -> BOOLEAN]
      BY <1>15, Zenon DEF SetPolicy
    <2> QED BY <1>15, <2>1, <2>2 DEF SetPolicy
  <1>16. CASE UNCHANGED vars
    BY <1>16 DEF vars, workerVars
  <1> QED BY ONLY [Next]_vars, <1>1, <1>2, <1>3, <1>4, <1>5, <1>6, <1>7, <1>8,
             <1>9, <1>10, <1>11, <1>12, <1>13, <1>14, <1>15, <1>16
    DEF Next, WorkerStep

\* What the leaves below need to know of the types.
LEMMA TypedFacts ==
    ASSUME Typed
    PROVE  /\ clock \in Nat /\ nextId \in Nat
           /\ slots \subseteq SlotType /\ IsFiniteSet(slots)
           /\ \A s \in slots : s.at \in Nat /\ s.id \in Nat
           /\ pc \in [Workers -> Pcs]
           /\ stamp \in [Workers -> Nat]
           /\ cap \in [Workers -> Nat \ {0}]
           /\ dom \in [Workers -> Domains \cup {NoDomain}]
           /\ plan \in [Workers -> [dom : Domains \cup {NoDomain}, minute : Nat, daily : Nat]]
           /\ retryAt \in [Workers -> Nat]
           /\ touched \in [Workers -> BOOLEAN]
  BY DEF Typed, TypeOK, SlotType

----------------------------------------------------------------------------
(* The row lock, and what the rows and the stamps look like under it.       *)

LockInv == \A w \in Workers : pc[w] \in Critical => lock = w

\* Rows are in the past, also in the past of a worker that has read the clock under
\* the lock; ids are handed out once.
RowsInv ==
    /\ \A s \in slots : s.at <= clock /\ s.id < nextId
    /\ \A w \in Workers :
         /\ stamp[w] <= clock
         /\ pc[w] \in {"recounting", "creating"} => \A s \in slots : s.at <= stamp[w]

\* Two transactions of a tenant are never open at once.
LEMMA LockStep == Typed /\ LockInv /\ [Next]_vars => LockInv'
  <1> SUFFICES ASSUME Typed, LockInv, [Next]_vars PROVE LockInv'
    OBVIOUS
  <1> USE ThrottleAssumption, TypedFacts
      DEF LockInv, Critical, Goto, Defer, Finish, workerVars
  <1>1. ASSUME NEW w \in Workers, Load(w) PROVE LockInv'
    BY <1>1 DEF Load
  <1>2. ASSUME NEW w \in Workers, TakeNow(w) PROVE LockInv'
    BY <1>2 DEF TakeNow
  <1>3. ASSUME NEW w \in Workers, LockTenant(w) PROVE LockInv'
    BY <1>3 DEF LockTenant
  <1>4. ASSUME NEW w \in Workers, Allow(w) PROVE LockInv'
    BY <1>4 DEF Allow
  <1>5. ASSUME NEW w \in Workers, RefuseTenant(w) PROVE LockInv'
    BY <1>5 DEF RefuseTenant
  <1>6. ASSUME NEW w \in Workers, RefuseMinute(w) PROVE LockInv'
    BY <1>6 DEF RefuseMinute
  <1>7. ASSUME NEW w \in Workers, RefuseDay(w) PROVE LockInv'
    BY <1>7 DEF RefuseDay
  <1>8. ASSUME NEW w \in Workers, TakeNowAgain(w) PROVE LockInv'
    BY <1>8 DEF TakeNowAgain
  <1>9. ASSUME NEW w \in Workers, Recount(w) PROVE LockInv'
    BY <1>9 DEF Recount
  <1>10. ASSUME NEW w \in Workers, RecountRefuses(w) PROVE LockInv'
    BY <1>10 DEF RecountRefuses
  <1>11. ASSUME NEW w \in Workers, CreateSlot(w) PROVE LockInv'
    BY <1>11 DEF CreateSlot
  <1>12. ASSUME NEW w \in Workers, CommitDeferral(w) PROVE LockInv'
    BY <1>12 DEF CommitDeferral
  <1>13. ASSUME NEW w \in Workers, Crash(w) PROVE LockInv'
    BY <1>13 DEF Crash
  <1>14. CASE Tick
    BY <1>14 DEF Tick
  <1>15. ASSUME NEW d \in Domains, SetPolicy(d) PROVE LockInv'
    BY <1>15 DEF SetPolicy
  <1>16. CASE UNCHANGED vars
    BY <1>16 DEF vars, workerVars
  <1> QED BY ONLY [Next]_vars, <1>1, <1>2, <1>3, <1>4, <1>5, <1>6, <1>7, <1>8,
             <1>9, <1>10, <1>11, <1>12, <1>13, <1>14, <1>15, <1>16
    DEF Next, WorkerStep

\* The rows stay in the past.
LEMMA RowsStep == Typed /\ LockInv /\ RowsInv /\ [Next]_vars => RowsInv'
  <1> SUFFICES ASSUME Typed, LockInv, RowsInv, [Next]_vars PROVE RowsInv'
    OBVIOUS
  <1> USE ThrottleAssumption, TypedFacts
      DEF RowsInv, Goto, Defer, Finish, workerVars
  <1>1. ASSUME NEW w \in Workers, Load(w) PROVE RowsInv'
    BY <1>1 DEF Load
  <1>2. ASSUME NEW w \in Workers, TakeNow(w) PROVE RowsInv'
    BY <1>2 DEF TakeNow
  <1>3. ASSUME NEW w \in Workers, LockTenant(w) PROVE RowsInv'
    BY <1>3 DEF LockTenant
  <1>4. ASSUME NEW w \in Workers, Allow(w) PROVE RowsInv'
    BY <1>4 DEF Allow
  <1>5. ASSUME NEW w \in Workers, RefuseTenant(w) PROVE RowsInv'
    BY <1>5 DEF RefuseTenant
  <1>6. ASSUME NEW w \in Workers, RefuseMinute(w) PROVE RowsInv'
    BY <1>6 DEF RefuseMinute
  <1>7. ASSUME NEW w \in Workers, RefuseDay(w) PROVE RowsInv'
    BY <1>7 DEF RefuseDay
  <1>8. ASSUME NEW w \in Workers, TakeNowAgain(w) PROVE RowsInv'
    BY <1>8 DEF TakeNowAgain
  <1>9. ASSUME NEW w \in Workers, Recount(w) PROVE RowsInv'
    BY <1>9 DEF Recount
  <1>10. ASSUME NEW w \in Workers, RecountRefuses(w) PROVE RowsInv'
    BY <1>10 DEF RecountRefuses
  <1>11. ASSUME NEW w \in Workers, CreateSlot(w) PROVE RowsInv'
    <2>1. \A v \in Workers \ {w} : pc[v] \notin {"recounting", "creating"}
      BY <1>11 DEF CreateSlot, LockInv, Critical
    <2>2. slots' = slots \cup {NewSlot(w)} /\ NewSlot(w).at = clock /\ NewSlot(w).id = nextId
      BY <1>11 DEF CreateSlot, NewSlot
    <2> QED BY <1>11, <2>1, <2>2 DEF CreateSlot
  <1>12. ASSUME NEW w \in Workers, CommitDeferral(w) PROVE RowsInv'
    BY <1>12 DEF CommitDeferral
  <1>13. ASSUME NEW w \in Workers, Crash(w) PROVE RowsInv'
    BY <1>13 DEF Crash
  <1>14. CASE Tick
    BY <1>14 DEF Tick
  <1>15. ASSUME NEW d \in Domains, SetPolicy(d) PROVE RowsInv'
    BY <1>15 DEF SetPolicy
  <1>16. CASE UNCHANGED vars
    BY <1>16 DEF vars, workerVars
  <1> QED BY ONLY [Next]_vars, <1>1, <1>2, <1>3, <1>4, <1>5, <1>6, <1>7, <1>8,
             <1>9, <1>10, <1>11, <1>12, <1>13, <1>14, <1>15, <1>16
    DEF Next, WorkerStep

----------------------------------------------------------------------------
(* The caps.  A worker about to insert its row has counted under the lock,   *)
(* and nobody can insert another row before it does.                         *)

PlanInv == \A w \in Workers : pc[w] = "creating" =>
    /\ Cardinality(Recent(slots, stamp[w])) < cap[w]
    /\ plan[w].minute # 0 =>
         Cardinality(Recent(OfDomain(slots, plan[w].dom), stamp[w])) < plan[w].minute
    /\ plan[w].daily # 0 =>
         Cardinality(OfDay(OfDomain(slots, plan[w].dom), stamp[w])) < plan[w].daily

\* What a worker has counted stays true until it inserts.
LEMMA PlanStep == Typed /\ LockInv /\ PlanInv /\ [Next]_vars => PlanInv'
  <1> SUFFICES ASSUME Typed, LockInv, PlanInv, [Next]_vars PROVE PlanInv'
    OBVIOUS
  <1> USE ThrottleAssumption, TypedFacts
      DEF PlanInv, Goto, Defer, Finish, workerVars
  <1>1. ASSUME NEW w \in Workers, Load(w) PROVE PlanInv'
    BY <1>1 DEF Load
  <1>2. ASSUME NEW w \in Workers, TakeNow(w) PROVE PlanInv'
    BY <1>2 DEF TakeNow
  <1>3. ASSUME NEW w \in Workers, LockTenant(w) PROVE PlanInv'
    BY <1>3 DEF LockTenant
  <1>4. ASSUME NEW w \in Workers, Allow(w) PROVE PlanInv'
    BY <1>4 DEF Allow
  <1>5. ASSUME NEW w \in Workers, RefuseTenant(w) PROVE PlanInv'
    BY <1>5 DEF RefuseTenant
  <1>6. ASSUME NEW w \in Workers, RefuseMinute(w) PROVE PlanInv'
    BY <1>6 DEF RefuseMinute
  <1>7. ASSUME NEW w \in Workers, RefuseDay(w) PROVE PlanInv'
    BY <1>7 DEF RefuseDay
  <1>8. ASSUME NEW w \in Workers, TakeNowAgain(w) PROVE PlanInv'
    BY <1>8 DEF TakeNowAgain
  <1>9. ASSUME NEW w \in Workers, Recount(w) PROVE PlanInv'
    <2>1. /\ plan'[w].minute = MinuteCap(w) /\ plan'[w].daily = DailyCap(w)
          /\ PolicyApplies(w) => plan'[w].dom = dom[w]
      BY <1>9 DEF Recount
    <2>2. /\ Cardinality(Recent(slots, stamp[w])) < cap[w]
          /\ MinuteCap(w) # 0 =>
               Cardinality(Recent(OfDomain(slots, dom[w]), stamp[w])) < MinuteCap(w)
          /\ DailyCap(w) # 0 =>
               Cardinality(OfDay(OfDomain(slots, dom[w]), stamp[w])) < DailyCap(w)
      BY <1>9 DEF Recount, Open, TenantOpen, MinuteOpen, DayOpen
    <2>3. MinuteCap(w) # 0 \/ DailyCap(w) # 0 => PolicyApplies(w)
      BY CapTypes
    <2>4. \A v \in Workers \ {w} : plan'[v] = plan[v] /\ pc'[v] = pc[v]
      BY <1>9 DEF Recount
    <2>5. UNCHANGED <<slots, stamp, cap>>
      BY <1>9 DEF Recount
    <2> QED BY <2>1, <2>2, <2>3, <2>4, <2>5
  <1>10. ASSUME NEW w \in Workers, RecountRefuses(w) PROVE PlanInv'
    BY <1>10 DEF RecountRefuses
  <1>11. ASSUME NEW w \in Workers, CreateSlot(w) PROVE PlanInv'
    <2>1. \A v \in Workers \ {w} : pc[v] # "creating"
      BY <1>11 DEF CreateSlot, LockInv, Critical
    <2> QED BY <1>11, <2>1 DEF CreateSlot
  <1>12. ASSUME NEW w \in Workers, CommitDeferral(w) PROVE PlanInv'
    BY <1>12 DEF CommitDeferral
  <1>13. ASSUME NEW w \in Workers, Crash(w) PROVE PlanInv'
    BY <1>13 DEF Crash
  <1>14. CASE Tick
    BY <1>14 DEF Tick
  <1>15. ASSUME NEW d \in Domains, SetPolicy(d) PROVE PlanInv'
    BY <1>15 DEF SetPolicy
  <1>16. CASE UNCHANGED vars
    BY <1>16 DEF vars, workerVars
  <1> QED BY ONLY [Next]_vars, <1>1, <1>2, <1>3, <1>4, <1>5, <1>6, <1>7, <1>8,
             <1>9, <1>10, <1>11, <1>12, <1>13, <1>14, <1>15, <1>16
    DEF Next, WorkerStep

\* One row more than fewer than k is at most k.
LEMMA OneMore ==
    ASSUME NEW S, IsFiniteSet(S), NEW x, NEW T \in SUBSET (S \cup {x}),
           NEW k \in Nat, Cardinality(S) < k
    PROVE  Cardinality(T) <= k
  <1>1. IsFiniteSet(S \cup {x}) /\ Cardinality(S) \in Nat
    BY FS_AddElement, FS_CardinalityType
  <1>2. Cardinality(S \cup {x}) = IF x \in S THEN Cardinality(S) ELSE Cardinality(S) + 1
    BY FS_AddElement
  <1>3. Cardinality(T) \in Nat /\ Cardinality(T) <= Cardinality(S \cup {x})
    BY <1>1, FS_Subset, FS_CardinalityType
  <1> QED BY <1>1, <1>2, <1>3

\* The row a worker inserts keeps within the caps it was admitted under.
LEMMA CreateKeepsWindows ==
    ASSUME Typed, RowsInv, PlanInv, WindowsRespected, NEW w \in Workers, CreateSlot(w)
    PROVE  WindowsRespected'
  <1> USE ThrottleAssumption, TypedFacts
  <1> DEFINE n == NewSlot(w)
             d == plan[w].dom
  <1>1. /\ slots' = slots \cup {n} /\ pc[w] = "creating"
        /\ n.at = clock /\ n.id = nextId /\ n.dom = d
        /\ n.cap = cap[w] /\ n.minute = plan[w].minute /\ n.daily = plan[w].daily
    BY DEF CreateSlot, NewSlot
  <1> HIDE DEF n
  <1>2. \A s \in slots : s.at <= stamp[w] /\ s.id < nextId
    BY <1>1 DEF RowsInv
  <1>3. stamp[w] <= clock
    BY DEF RowsInv
  <1>4. \A s \in slots : UpTo(slots', s) = UpTo(slots, s)
    BY <1>1, <1>2 DEF UpTo
  <1>5. UpTo(slots', n) = slots \cup {n}
    BY <1>1, <1>2 DEF UpTo
  <1>6. cap[w] \in Nat /\ plan[w].minute \in Nat /\ plan[w].daily \in Nat
    OBVIOUS
  <1>7. TenantWindowRespected'
    <2>1. Recent(slots \cup {n}, clock) \subseteq Recent(slots, stamp[w]) \cup {n}
      BY <1>2, <1>3 DEF Recent
    <2>2. IsFiniteSet(Recent(slots, stamp[w]))
      BY FS_Subset DEF Recent
    <2>3. Cardinality(Recent(slots, stamp[w])) < cap[w]
      BY <1>1 DEF PlanInv
    <2>4. Cardinality(Recent(slots \cup {n}, clock)) <= cap[w]
      BY <2>1, <2>2, <2>3, <1>6, OneMore
    <2>5. ASSUME NEW s \in slots' PROVE Cardinality(Recent(UpTo(slots', s), s.at)) <= s.cap
      <3>1. CASE s \in slots
        BY <3>1, <1>4 DEF WindowsRespected, TenantWindowRespected
      <3>2. CASE s = n
        BY <3>2, <1>1, <1>5, <2>4
      <3> QED BY <3>1, <3>2, <1>1
    <2> QED BY <2>5 DEF TenantWindowRespected
  <1>8. DomainWindowRespected'
    <2> DEFINE old == Recent(OfDomain(slots, d), stamp[w])
               new == Recent(OfDomain(slots \cup {n}, d), clock)
    <2>1. new \subseteq old \cup {n}
      BY <1>2, <1>3 DEF Recent, OfDomain
    <2>2. IsFiniteSet(old)
      BY FS_Subset DEF Recent, OfDomain
    <2>3. plan[w].minute # 0 => Cardinality(old) < plan[w].minute
      BY <1>1 DEF PlanInv
    <2> HIDE DEF old, new
    <2>4. plan[w].minute # 0 => Cardinality(new) <= plan[w].minute
      BY <2>1, <2>2, <2>3, <1>6, OneMore
    <2>5. ASSUME NEW s \in slots', s.minute # 0
          PROVE  Cardinality(Recent(OfDomain(UpTo(slots', s), s.dom), s.at)) <= s.minute
      <3>1. CASE s \in slots
        BY <2>5, <3>1, <1>4 DEF WindowsRespected, DomainWindowRespected
      <3>2. CASE s = n
        BY <2>5, <3>2, <1>1, <1>5, <2>4 DEF new
      <3> QED BY <3>1, <3>2, <1>1
    <2> QED BY <2>5 DEF DomainWindowRespected
  <1>9. DomainDayRespected'
    <2> DEFINE old == OfDay(OfDomain(slots, d), stamp[w])
               new == OfDay(OfDomain(slots \cup {n}, d), clock)
    <2>1. ASSUME NEW s \in slots, DayOf(s.at) = DayOf(clock)
          PROVE  DayOf(s.at) = DayOf(stamp[w])
      <3>1. s.at \in Nat /\ stamp[w] \in Nat /\ clock \in Nat
        OBVIOUS
      <3>2. DayOf(s.at) <= DayOf(stamp[w]) /\ DayOf(stamp[w]) <= DayOf(clock)
        BY <3>1, <1>2, <1>3, DayMonotone
      <3>3. DayOf(s.at) \in Nat /\ DayOf(stamp[w]) \in Nat /\ DayOf(clock) \in Nat
        BY <3>1, DayBounds
      <3> QED BY ONLY <2>1, <3>2, <3>3
    <2>2. new \subseteq old \cup {n}
      BY <2>1 DEF OfDay, OfDomain
    <2>3. IsFiniteSet(old)
      BY FS_Subset DEF OfDay, OfDomain
    <2>4. plan[w].daily # 0 => Cardinality(old) < plan[w].daily
      BY <1>1 DEF PlanInv
    <2> HIDE DEF old, new
    <2>5. plan[w].daily # 0 => Cardinality(new) <= plan[w].daily
      BY <2>2, <2>3, <2>4, <1>6, OneMore
    <2>6. ASSUME NEW s \in slots', s.daily # 0
          PROVE  Cardinality(OfDay(OfDomain(UpTo(slots', s), s.dom), s.at)) <= s.daily
      <3>1. CASE s \in slots
        BY <2>6, <3>1, <1>4 DEF WindowsRespected, DomainDayRespected
      <3>2. CASE s = n
        BY <2>6, <3>2, <1>1, <1>5, <2>5 DEF new
      <3> QED BY <3>1, <3>2, <1>1
    <2> QED BY <2>6 DEF DomainDayRespected
  <1> QED BY <1>7, <1>8, <1>9 DEF WindowsRespected

\* Nothing else inserts a row.
LEMMA WindowStep == Typed /\ RowsInv /\ PlanInv /\ WindowsRespected /\ [Next]_vars => WindowsRespected'
  <1> SUFFICES ASSUME Typed, RowsInv, PlanInv, WindowsRespected, [Next]_vars PROVE WindowsRespected'
    OBVIOUS
  <1>1. CASE UNCHANGED slots
    BY <1>1 DEF WindowsRespected, TenantWindowRespected, DomainWindowRespected, DomainDayRespected
  <1>2. ASSUME NEW w \in Workers, CreateSlot(w) PROVE WindowsRespected'
    BY <1>2, CreateKeepsWindows
  <1>3. UNCHANGED slots \/ \E w \in Workers : CreateSlot(w)
    BY DEF Next, WorkerStep, Load, TakeNow, LockTenant, Allow, RefuseTenant, RefuseMinute,
           RefuseDay, Defer, TakeNowAgain, Recount, RecountRefuses, CommitDeferral, Crash,
           Tick, SetPolicy, vars
  <1> QED BY <1>1, <1>2, <1>3

----------------------------------------------------------------------------
(* The second look, and the deferral.                                        *)

\* A set with k rows is not smaller than k when it has grown.
LEMMA StillFull ==
    ASSUME NEW T, IsFiniteSet(T), NEW S \in SUBSET T, NEW k \in Nat, ~(Cardinality(S) < k)
    PROVE  ~(Cardinality(T) < k)
  <1>1. /\ IsFiniteSet(S) /\ Cardinality(S) <= Cardinality(T)
    BY FS_Subset
  <1>2. Cardinality(S) \in Nat /\ Cardinality(T) \in Nat
    BY <1>1, FS_CardinalityType
  <1> QED BY <1>1, <1>2

\* What is counted of the rows is finite.
LEMMA CountsAreFinite ==
    ASSUME Typed, NEW d, NEW t
    PROVE  /\ OfDomain(slots, d) \in SUBSET SlotType
           /\ IsFiniteSet(Recent(slots, t))
           /\ IsFiniteSet(Recent(OfDomain(slots, d), t))
           /\ IsFiniteSet(OfDay(OfDomain(slots, d), t))
  <1>1. IsFiniteSet(slots) /\ slots \subseteq SlotType
    BY TypedFacts
  <1>2. OfDomain(slots, d) \in SUBSET slots
    BY DEF OfDomain
  <1>3. /\ Recent(slots, t) \in SUBSET slots
        /\ Recent(OfDomain(slots, d), t) \in SUBSET slots
        /\ OfDay(OfDomain(slots, d), t) \in SUBSET slots
    BY <1>2 DEF Recent, OfDay
  <1> QED BY <1>1, <1>2, <1>3, FS_Subset

\* Where there was room there is room later on the same day.
LEMMA OpenStaysOpen ==
    ASSUME Typed, NEW w \in Workers, NEW t \in Nat, NEW u \in Nat, t <= u,
           DayOf(t) = DayOf(u), Open(w, t)
    PROVE  Open(w, u)
  <1> DEFINE R == OfDomain(slots, dom[w])
  <1>1. /\ cap[w] \in Nat /\ MinuteCap(w) \in Nat
        /\ slots \in SUBSET SlotType /\ R \in SUBSET SlotType
    BY TypedFacts, CapTypes, CountsAreFinite
  <1>2. /\ IsFiniteSet(Recent(slots, t)) /\ IsFiniteSet(Recent(R, t))
    BY CountsAreFinite
  <1>3. Recent(slots, u) \subseteq Recent(slots, t) /\ Recent(R, u) \subseteq Recent(R, t)
    BY <1>1, RecentShrinks
  <1>4. TenantOpen(w, u)
    BY <1>1, <1>2, <1>3, StillFull DEF Open, TenantOpen
  <1>5. MinuteOpen(w, u)
    BY <1>1, <1>2, <1>3, StillFull DEF Open, MinuteOpen
  <1>6. DayOpen(w, u)
    BY DEF Open, DayOpen, OfDay
  <1> QED BY <1>4, <1>5, <1>6 DEF Open

RaceInv == \A w \in Workers :
    /\ pc[w] \in {"allowed", "recounting"} /\ ~touched[w] => Open(w, stamp[w])
    /\ pc[w] = "raced" => touched[w]

\* What can_send_now found stays true unless the history says otherwise.
LEMMA RaceStep == Typed /\ LockInv /\ RowsInv /\ RaceInv /\ [Next]_vars => RaceInv'
  <1> SUFFICES ASSUME Typed, LockInv, RowsInv, RaceInv, [Next]_vars PROVE RaceInv'
    OBVIOUS
  <1> USE ThrottleAssumption, TypedFacts
      DEF RaceInv, Open, TenantOpen, MinuteOpen, DayOpen, MinuteCap, DailyCap, PolicyApplies, Goto, Defer, Finish, workerVars
  <1>1. ASSUME NEW w \in Workers, Load(w) PROVE RaceInv'
    BY <1>1 DEF Load
  <1>2. ASSUME NEW w \in Workers, TakeNow(w) PROVE RaceInv'
    BY <1>2 DEF TakeNow
  <1>3. ASSUME NEW w \in Workers, LockTenant(w) PROVE RaceInv'
    BY <1>3 DEF LockTenant
  <1>4. ASSUME NEW w \in Workers, Allow(w) PROVE RaceInv'
    BY <1>4 DEF Allow
  <1>5. ASSUME NEW w \in Workers, RefuseTenant(w) PROVE RaceInv'
    BY <1>5 DEF RefuseTenant
  <1>6. ASSUME NEW w \in Workers, RefuseMinute(w) PROVE RaceInv'
    BY <1>6 DEF RefuseMinute
  <1>7. ASSUME NEW w \in Workers, RefuseDay(w) PROVE RaceInv'
    BY <1>7 DEF RefuseDay
  <1>8. ASSUME NEW w \in Workers, TakeNowAgain(w) PROVE RaceInv'
    <2>1. \A v \in Workers \ {w} : /\ stamp'[v] = stamp[v] /\ pc'[v] = pc[v]
                                   /\ touched'[v] = touched[v]
      BY <1>8 DEF TakeNowAgain
    <2>2. /\ stamp'[w] = clock /\ pc[w] = "allowed" /\ pc'[w] = "recounting"
          /\ touched'[w] = (touched[w] \/ DayOf(stamp[w]) # DayOf(clock))
      BY <1>8 DEF TakeNowAgain
    <2>3. stamp[w] <= clock /\ stamp[w] \in Nat /\ clock \in Nat
      BY DEF RowsInv
    <2>4. ~touched'[w] => Open(w, clock)
      BY ONLY <2>2, <2>3, Typed, RaceInv, OpenStaysOpen DEF RaceInv
    <2>5. UNCHANGED <<slots, dom, cap, policy>>
      BY <1>8 DEF TakeNowAgain
    <2>6. \A v \in Workers : Open(v, stamp[v])' <=> Open(v, stamp'[v])
      BY <2>5
    <2> QED BY ONLY <2>1, <2>2, <2>4, <2>6, RaceInv DEF RaceInv
  <1>9. ASSUME NEW w \in Workers, Recount(w) PROVE RaceInv'
    BY <1>9 DEF Recount
  <1>10. ASSUME NEW w \in Workers, RecountRefuses(w) PROVE RaceInv'
    BY <1>10 DEF RecountRefuses
  <1>11. ASSUME NEW w \in Workers, CreateSlot(w) PROVE RaceInv'
    <2>1. \A v \in Workers \ {w} : pc[v] \notin Critical
      BY <1>11 DEF CreateSlot, LockInv, Critical
    <2>2. pc'[w] = "idle" /\ \A v \in Workers \ {w} : pc'[v] = pc[v]
      BY <1>11 DEF CreateSlot
    <2> QED BY ONLY <2>1, <2>2 DEF RaceInv, Critical
  <1>12. ASSUME NEW w \in Workers, CommitDeferral(w) PROVE RaceInv'
    BY <1>12 DEF CommitDeferral
  <1>13. ASSUME NEW w \in Workers, Crash(w) PROVE RaceInv'
    BY <1>13 DEF Crash
  <1>14. CASE Tick
    BY <1>14 DEF Tick
  <1>15. ASSUME NEW d \in Domains, SetPolicy(d) PROVE RaceInv'
    BY <1>15 DEF SetPolicy
  <1>16. CASE UNCHANGED vars
    BY <1>16 DEF vars, workerVars
  <1> QED BY ONLY [Next]_vars, <1>1, <1>2, <1>3, <1>4, <1>5, <1>6, <1>7, <1>8,
             <1>9, <1>10, <1>11, <1>12, <1>13, <1>14, <1>15, <1>16
    DEF Next, WorkerStep

\* A full tenant window stays full until its oldest row leaves it.
LEMMA RefuseTenantJustified ==
    ASSUME Typed, NEW w \in Workers, RefuseTenant(w), NEW t \in Nat,
           t >= stamp[w], t < retryAt'[w]
    PROVE  ~Open(w, t)
  <1>1. /\ stamp[w] \in Nat /\ cap[w] \in Nat \ {0} /\ slots \in SUBSET SlotType
        /\ retryAt \in [Workers -> Nat]
    BY TypedFacts
  <1>2. /\ ~(Cardinality(Recent(slots, stamp[w])) < cap[w])
        /\ t < WindowOpensAt(slots, stamp[w])
    BY <1>1 DEF RefuseTenant, Defer, TenantOpen
  <1>3. Recent(slots, stamp[w]) # {}
    BY <1>1, <1>2, FS_EmptySet
  <1>4. Recent(slots, stamp[w]) \subseteq Recent(slots, t)
    BY <1>1, <1>2, <1>3, WindowStaysFull
  <1>5. ~TenantOpen(w, t)
    BY <1>1, <1>2, <1>4, StillFull, CountsAreFinite DEF TenantOpen
  <1> QED BY <1>5 DEF Open

\* The same for the window of the domain.
LEMMA RefuseMinuteJustified ==
    ASSUME Typed, NEW w \in Workers, RefuseMinute(w), NEW t \in Nat,
           t >= stamp[w], t < retryAt'[w]
    PROVE  ~Open(w, t)
  <1> DEFINE R == OfDomain(slots, dom[w])
  <1>1. /\ stamp[w] \in Nat /\ MinuteCap(w) \in Nat /\ R \in SUBSET SlotType
        /\ retryAt \in [Workers -> Nat]
    BY TypedFacts, CapTypes, CountsAreFinite
  <1>2. /\ MinuteCap(w) # 0
        /\ ~(Cardinality(Recent(R, stamp[w])) < MinuteCap(w))
        /\ t < WindowOpensAt(R, stamp[w])
    BY <1>1 DEF RefuseMinute, Defer, MinuteOpen
  <1>3. Recent(R, stamp[w]) # {}
    BY <1>1, <1>2, FS_EmptySet
  <1>4. Recent(R, stamp[w]) \subseteq Recent(R, t)
    BY <1>1, <1>2, <1>3, WindowStaysFull
  <1>5. ~MinuteOpen(w, t)
    BY <1>1, <1>2, <1>4, StillFull, CountsAreFinite DEF MinuteOpen
  <1> QED BY <1>5 DEF Open

\* A full day stays full until it ends.
LEMMA RefuseDayJustified ==
    ASSUME Typed, NEW w \in Workers, RefuseDay(w), NEW t \in Nat,
           t >= stamp[w], t < retryAt'[w]
    PROVE  ~Open(w, t)
  <1>1. stamp[w] \in Nat /\ retryAt \in [Workers -> Nat]
    BY TypedFacts
  <1>2. ~DayOpen(w, stamp[w]) /\ t < DayOpensAt(stamp[w])
    BY <1>1 DEF RefuseDay, Defer
  <1>3. DayOf(t) = DayOf(stamp[w])
    BY <1>1, <1>2, DayOpensNext
  <1> QED BY <1>2, <1>3 DEF Open, DayOpen, OfDay

\* While a worker waits to commit its deferral nobody inserts a row, so what refused
\* its message refuses it until retryAt.
\* A deferral names the first instant at which its reason may be gone.
LEMMA DeferStep == Typed /\ Typed' /\ LockInv /\ DeferralJustified /\ [Next]_vars => DeferralJustified'
  <1> SUFFICES ASSUME Typed, Typed', LockInv, DeferralJustified, [Next]_vars PROVE DeferralJustified'
    OBVIOUS
  <1> USE ThrottleAssumption, TypedFacts
      DEF DeferralJustified, Open, TenantOpen, MinuteOpen, DayOpen, MinuteCap, DailyCap, PolicyApplies, Goto, Defer, Finish, workerVars
  <1>1. ASSUME NEW w \in Workers, Load(w) PROVE DeferralJustified'
    BY <1>1 DEF Load
  <1>2. ASSUME NEW w \in Workers, TakeNow(w) PROVE DeferralJustified'
    BY <1>2 DEF TakeNow
  <1>3. ASSUME NEW w \in Workers, LockTenant(w) PROVE DeferralJustified'
    BY <1>3 DEF LockTenant
  <1>4. ASSUME NEW w \in Workers, Allow(w) PROVE DeferralJustified'
    BY <1>4 DEF Allow
  <1>5. ASSUME NEW w \in Workers, RefuseTenant(w) PROVE DeferralJustified'
    <2>1. \A t \in Nat : t >= stamp[w] /\ t < retryAt'[w] => ~Open(w, t)
      BY ONLY <1>5, Typed, RefuseTenantJustified
    <2>2. \A v \in Workers, t \in Nat : Open(v, t)' <=> Open(v, t)
      BY <1>5 DEF RefuseTenant
    <2>3. \A v \in Workers \ {w} : /\ retryAt'[v] = retryAt[v] /\ pc'[v] = pc[v]
                                   /\ touched'[v] = touched[v]
      BY <1>5 DEF RefuseTenant
    <2>4. stamp' = stamp
      BY <1>5 DEF RefuseTenant
    <2>5. retryAt' \in [Workers -> Nat] /\ \A v \in Workers : retryAt[v] \in Nat /\ stamp[v] \in Nat
      BY DEF Typed, TypeOK
    <2> QED BY ONLY <2>1, <2>2, <2>3, <2>4, <2>5, DeferralJustified DEF DeferralJustified
  <1>6. ASSUME NEW w \in Workers, RefuseMinute(w) PROVE DeferralJustified'
    <2>1. \A t \in Nat : t >= stamp[w] /\ t < retryAt'[w] => ~Open(w, t)
      BY ONLY <1>6, Typed, RefuseMinuteJustified
    <2>2. \A v \in Workers, t \in Nat : Open(v, t)' <=> Open(v, t)
      BY <1>6 DEF RefuseMinute
    <2>3. \A v \in Workers \ {w} : /\ retryAt'[v] = retryAt[v] /\ pc'[v] = pc[v]
                                   /\ touched'[v] = touched[v]
      BY <1>6 DEF RefuseMinute
    <2>4. stamp' = stamp
      BY <1>6 DEF RefuseMinute
    <2>5. retryAt' \in [Workers -> Nat] /\ \A v \in Workers : retryAt[v] \in Nat /\ stamp[v] \in Nat
      BY DEF Typed, TypeOK
    <2> QED BY ONLY <2>1, <2>2, <2>3, <2>4, <2>5, DeferralJustified DEF DeferralJustified
  <1>7. ASSUME NEW w \in Workers, RefuseDay(w) PROVE DeferralJustified'
    <2>1. \A t \in Nat : t >= stamp[w] /\ t < retryAt'[w] => ~Open(w, t)
      BY ONLY <1>7, Typed, RefuseDayJustified
    <2>2. \A v \in Workers, t \in Nat : Open(v, t)' <=> Open(v, t)
      BY <1>7 DEF RefuseDay
    <2>3. \A v \in Workers \ {w} : /\ retryAt'[v] = retryAt[v] /\ pc'[v] = pc[v]
                                   /\ touched'[v] = touched[v]
      BY <1>7 DEF RefuseDay
    <2>4. stamp' = stamp
      BY <1>7 DEF RefuseDay
    <2>5. retryAt' \in [Workers -> Nat] /\ \A v \in Workers : retryAt[v] \in Nat /\ stamp[v] \in Nat
      BY DEF Typed, TypeOK
    <2> QED BY ONLY <2>1, <2>2, <2>3, <2>4, <2>5, DeferralJustified DEF DeferralJustified
  <1>8. ASSUME NEW w \in Workers, TakeNowAgain(w) PROVE DeferralJustified'
    BY <1>8 DEF TakeNowAgain
  <1>9. ASSUME NEW w \in Workers, Recount(w) PROVE DeferralJustified'
    BY <1>9 DEF Recount
  <1>10. ASSUME NEW w \in Workers, RecountRefuses(w) PROVE DeferralJustified'
    BY <1>10 DEF RecountRefuses
  <1>11. ASSUME NEW w \in Workers, CreateSlot(w) PROVE DeferralJustified'
    <2>1. \A v \in Workers \ {w} : pc[v] \notin Critical
      BY <1>11 DEF CreateSlot, LockInv, Critical
    <2>2. pc'[w] = "idle" /\ \A v \in Workers \ {w} : pc'[v] = pc[v]
      BY <1>11 DEF CreateSlot
    <2> QED BY ONLY <2>1, <2>2 DEF DeferralJustified, Critical
  <1>12. ASSUME NEW w \in Workers, CommitDeferral(w) PROVE DeferralJustified'
    BY <1>12 DEF CommitDeferral
  <1>13. ASSUME NEW w \in Workers, Crash(w) PROVE DeferralJustified'
    BY <1>13 DEF Crash
  <1>14. CASE Tick
    BY <1>14 DEF Tick
  <1>15. ASSUME NEW d \in Domains, SetPolicy(d) PROVE DeferralJustified'
    BY <1>15 DEF SetPolicy
  <1>16. CASE UNCHANGED vars
    BY <1>16 DEF vars, workerVars
  <1> QED BY ONLY [Next]_vars, <1>1, <1>2, <1>3, <1>4, <1>5, <1>6, <1>7, <1>8,
             <1>9, <1>10, <1>11, <1>12, <1>13, <1>14, <1>15, <1>16
    DEF Next, WorkerStep

----------------------------------------------------------------------------
(* The inductive invariant and the theorems.                                *)

IInv == /\ Typed
        /\ LockInv
        /\ RowsInv
        /\ PlanInv
        /\ WindowsRespected
        /\ RaceInv
        /\ DeferralJustified

\* The first state satisfies it.
LEMMA IInvInit == Init => IInv
  <1> SUFFICES ASSUME Init PROVE IInv
    OBVIOUS
  <1>1. Typed
    BY ThrottleAssumption, FS_EmptySet DEF Init, Typed, TypeOK, NoPlan, Pcs
  <1>2. LockInv /\ RowsInv /\ PlanInv /\ RaceInv /\ DeferralJustified
    BY DEF Init, LockInv, Critical, RowsInv, PlanInv, RaceInv, DeferralJustified
  <1>3. WindowsRespected
    BY DEF Init, WindowsRespected, TenantWindowRespected, DomainWindowRespected, DomainDayRespected
  <1> QED BY <1>1, <1>2, <1>3 DEF IInv

\* Every step keeps it.
LEMMA IInvStep == IInv /\ [Next]_vars => IInv'
  <1> SUFFICES ASSUME IInv, [Next]_vars PROVE IInv'
    OBVIOUS
  <1>1. Typed'
    BY TypedStep DEF IInv
  <1> QED
    BY <1>1, LockStep, RowsStep, PlanStep, WindowStep, RaceStep, DeferStep DEF IInv

\* IInv holds in every reachable state.
THEOREM Inductive == Spec => []IInv
  BY IInvInit, IInvStep, PTL DEF Spec

\* TypeOK: clock, rows, policies and workers stay within their types.
THEOREM TypeCorrect == Spec => []TypeOK
  <1>1. IInv => TypeOK
    BY DEF IInv, Typed
  <1> QED BY <1>1, Inductive, PTL

\* TenantWindowRespected: workers racing for the last place never overfill the
\* tenant's rolling window.
THEOREM TenantCapHolds == Spec => []TenantWindowRespected
  <1>1. IInv => TenantWindowRespected
    BY DEF IInv, WindowsRespected
  <1> QED BY <1>1, Inductive, PTL

\* DomainWindowRespected: nor the rolling window of a domain with a policy.
THEOREM DomainCapHolds == Spec => []DomainWindowRespected
  <1>1. IInv => DomainWindowRespected
    BY DEF IInv, WindowsRespected
  <1> QED BY <1>1, Inductive, PTL

\* DomainDayRespected: nor its local day, even when the day changes between the
\* count and the INSERT.
THEOREM DailyCapHolds == Spec => []DomainDayRespected
  <1>1. IInv => DomainDayRespected
    BY DEF IInv, WindowsRespected
  <1> QED BY <1>1, Inductive, PTL

\* WindowsRespected: together, no rolling minute and no local day is overfilled.
THEOREM CapsHold == Spec => []WindowsRespected
  <1>1. IInv => WindowsRespected
    BY DEF IInv, WindowsRespected
  <1> QED BY <1>1, Inductive, PTL

\* RaceNeedsChange: record_send_attempt contradicts can_send_now only after a policy
\* change or a midnight.
THEOREM RaceIsRare == Spec => []RaceNeedsChange
  <1>1. IInv => RaceNeedsChange
    BY DEF IInv, RaceInv, RaceNeedsChange
  <1> QED BY <1>1, Inductive, PTL

\* DeferralJustified: next_retry_at is never later than the reason for waiting lasts.
THEOREM DeferralsEndInTime == Spec => []DeferralJustified
  <1>1. IInv => DeferralJustified
    BY DEF IInv
  <1> QED BY <1>1, Inductive, PTL
=============================================================================
