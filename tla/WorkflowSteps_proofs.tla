------------------------ MODULE WorkflowSteps_proofs ------------------------
(* Proofs about WorkflowSteps and the TemplateStudio it extends, for any      *)
(* number of processes, versions, steps and enrolments, any bodies, and any   *)
(* answers of the LLM.  How bodies are reconciled is used in the last part    *)
(* alone, about the text that was typed.                                      *)
EXTENDS WorkflowSteps, FiniteSetTheorems, SequenceTheorems, WellFoundedInduction, TLAPS

----------------------------------------------------------------------------
(* The inductive invariant: the template                                   *)

Has(id, num) == \E v \in versions : v.tpl = id /\ v.num = num

TplOK ==
    /\ tpl = None \/ (tpl \in TplRows /\ tpl.id = made /\ tpl.required \subseteq tpl.declared)
    /\ made \in 0 .. MaxTemplates

VersionOK(v) ==
    /\ v = [tpl |-> v.tpl, num |-> v.num, body |-> v.body,
            approved |-> v.approved, current |-> v.current]
    /\ Exists(v.tpl) /\ v.num \in Nat \ {0}
    /\ v.approved \in BOOLEAN /\ v.current \in BOOLEAN /\ (v.current => v.approved)

\* Numbers are given once, without gaps, and there is a last one.
Numbered ==
    /\ \A v, w \in versions : v.tpl = w.tpl /\ v.num = w.num => v = w
    /\ \A v \in versions : \A n \in 1 .. v.num : Has(v.tpl, n)
    /\ \E top \in Nat : \A v \in versions : v.num <= top

\* What was previewed renders still; what a message was made from, and how that
\* went, can be read off the version while it is there.
LogOK(l) ==
    \E v \in versions : v.tpl = l.tpl /\ v.num = l.num /\ RenderEmailVersion(v.body, l.context)

MailOK(m) ==
    /\ m.tpl \in 1 .. made
    /\ Exists(m.tpl) /\ m.tried # 0 => Has(m.tpl, m.tried)
    /\ \A v \in versions : v.tpl = m.tpl /\ v.num = m.tried =>
          /\ m.why = "rendered" => v.approved
          /\ m.why = "render" => ~RenderEmailVersion(v.body, m.context)

Store ==
    /\ TplOK /\ (\A v \in versions : VersionOK(v)) /\ Numbered
    /\ (\A l \in logs : LogOK(l)) /\ (\A m \in mail : MailOK(m))
    /\ cut \subseteq 1 .. made

Marking(p, id) == job[p].pc = "mark" /\ job[p].tpl = id

CurrentInv ==
    \A v \in versions : v.approved /\ v.tpl \notin cut =>
        \/ \E w \in versions : w.tpl = v.tpl /\ w.current
        \/ \E p \in Procs : Marking(p, v.tpl)

----------------------------------------------------------------------------
(* The inductive invariant: what a request has in hand                     *)

Listed(list) == list \in Seq({list[i] : i \in DOMAIN list})

TargetOK(type, target) ==
    /\ target = [tpl |-> target.tpl, key |-> target.key]
    /\ target.tpl \in {None} \cup Nat /\ target.key \in BOOLEAN
    /\ type # "send" => target = NoTarget

TplPcs == {"llm", "insert", "generate", "clear", "mark", "activate", "validate", "render", "delete"}

JobOK(j) ==
    /\ j.pc \in TplPcs \cup {"idle", "create", "move", "save", "renumber", "enroll"}
    /\ j.pc \in TplPcs => j.tpl \in 1 .. made
    /\ j.pc \in {"insert", "generate"} =>
          /\ j.num \in Nat \ {0} /\ j.required \subseteq j.vars /\ j.vars \subseteq Vars
          /\ Exists(j.tpl) => \A n \in 1 .. (j.num - 1) : Has(j.tpl, n)
    /\ j.pc \in {"clear", "mark", "activate"} =>
          /\ j = [pc |-> j.pc, tpl |-> j.tpl, num |-> j.num]
          /\ Exists(j.tpl) => Has(j.tpl, j.num)
    /\ j.pc \in {"validate", "render"} =>
          j = [pc |-> j.pc, tpl |-> j.tpl, context |-> j.context, names |-> j.names]
    /\ j.pc \in {"create", "move", "save"} =>
          /\ j.step \in 1 .. MaxSteps /\ j.type \in Types /\ j.order \in Nat
          /\ TargetOK(j.type, j.target)
    /\ j.pc \in {"move", "save"} =>
          j = [pc |-> j.pc, step |-> j.step, type |-> j.type, order |-> j.order,
               target |-> j.target, list |-> j.list]
    /\ j.pc = "move" => Listed(j.list) /\ \E i \in DOMAIN j.list : j.list[i].id = j.step
    /\ j.pc = "renumber" => j.step \in 1 .. MaxSteps /\ Listed(j.list)
    /\ j.pc = "enroll" => j.enrollment \in Execs

Requests ==
    /\ job = [p \in Procs |-> job[p]] /\ DOMAIN page = Procs
    /\ left \in [{"tpl", "steps"} -> Nat]
    /\ \A p \in Procs : JobOK(job[p])

----------------------------------------------------------------------------
(* The inductive invariant: the workflow                                   *)

\* A send step has a link or a key, unless the template went with its link or it was
\* given neither.
StepOK(s) ==
    /\ s.tpl = None \/ Exists(s.tpl)
    /\ IF s.type = "send" THEN s.tpl # None \/ s.key # 0 \/ s.id \in raced \cup unkeyed
       ELSE s.tpl = None /\ s.key = 0

Rows ==
    /\ steps \subseteq StepRows
    /\ \A s, t \in steps : s.id = t.id \/ s.order = t.order => s = t

\* A new step has an id of its own; one that is being deleted is there.
Hands ==
    /\ \A p \in Procs : job[p].pc = "create" => ~HasRow(job[p].step)
    /\ \A p \in Procs : job[p].pc = "renumber" => HasRow(job[p].step)
    /\ \A p, q \in Procs : job[p].pc \in {"create", "renumber"} /\ job[q].pc = job[p].pc
                           /\ job[p].step = job[q].step => p = q

\* The guard of a deletion has seen every step that needs the template, but those
\* that were saved behind it.
GuardInv ==
    \A p \in Procs : job[p].pc = "delete" /\ Exists(job[p].tpl) =>
        \A s \in steps : s.tpl = job[p].tpl \/ Keyed(s) => s.id \in raced

\* A copy between the end of a wait and what comes of it, with nothing left to do.
Closing(h) == h.pc \in {"waited", "complete"} /\ h.next = {}

\* Without a step it is an orphan, or about to be completed.
ExecOK(e) ==
    /\ exec[e].state \in {"absent", "enrolled", "running", "completed", "failed"}
    /\ exec[e].state \in {"running", "completed", "failed"} =>
          exec[e] = [state |-> exec[e].state, at |-> exec[e].at, context |-> exec[e].context]
    /\ exec[e].state = "running" =>
          /\ exec[e].at = 0 \/ (exec[e].at \in 1 .. MaxSteps /\ HasRow(exec[e].at))
          /\ exec[e].at = 0 => \/ e \in orphaned
                              \/ \E c \in Copies : sweep[c] # Idle /\ sweep[c].exec = e /\ Closing(sweep[c])
    /\ exec[e].state = "enrolled" =>
          exec[e] = [state |-> "enrolled", context |-> exec[e].context]
    /\ sent[e] \subseteq 1 .. MaxSteps

\* Where a copy can be with a step in hand, and what it knows of the next.
CopyOK(h) ==
    /\ h = [pc |-> h.pc, exec |-> h.exec, step |-> h.step, next |-> h.next]
    /\ h.exec \in Execs /\ h.step \in {Nowhere} \cup StepRows
    /\ h.next \subseteq StepRows /\ \A s, t \in h.next : s = t
    /\ \/ h.pc \in {"send", "sent"} /\ h.step.type = "send" /\ h.next = {}
       \/ h.pc = "next" /\ h.step.type \in {"send", "wait"} /\ h.next = {}
       \/ h.pc = "save" /\ (h.step.type = "wait" \/ (h.step.type = "send" /\ h.next # {}))
       \/ h.pc = "waited" /\ h.step.type = "wait"
       \/ h.pc = "complete" /\ h.next = {}

SweptOK(c) ==
    sweep[c] # Idle => CopyOK(sweep[c])
                       /\ exec[sweep[c].exec].state \in {"running", "completed", "failed"}

\* A row is where it was, and of the same type.
Still(s) == \E t \in steps : t.id = s.id /\ t.order = s.order /\ t.type = s.type

\* What a copy took for its step, for the next one or for the end of the workflow, is so.
Judged(h) ==
    /\ h.step # Nowhere => Still(h.step)
    /\ \A t \in h.next : Still(t)
    /\ h.pc \in {"save", "waited", "complete"} /\ h.next = {} /\ h.step.type # "end" =>
          \A t \in steps : t.order <= h.step.order

Fresh(h) == (h.step = Nowhere => h.exec \in orphaned) /\ Judged(h)

\* It is so of every copy that is the only one, and no edit came since it was loaded.
Judgements ==
    \A c \in Copies : sweep[c] # Idle /\ sweep[c].exec \notin overtaken =>
        /\ Fresh(sweep[c])
        /\ \A d \in Copies : sweep[d] # Idle /\ sweep[d].exec = sweep[c].exec => d = c

Runs ==
    /\ DOMAIN exec = Execs /\ DOMAIN sent = Execs /\ DOMAIN sweep = Copies
    /\ (\A e \in Execs : ExecOK(e)) /\ (\A c \in Copies : SweptOK(c)) /\ Judgements
    /\ raced \cup unkeyed \subseteq 1 .. MaxSteps /\ orphaned \cup overtaken \subseteq Execs
    /\ collided \in {"", "move", "delete"}

Workflow ==
    /\ Rows /\ (\A s \in steps : StepOK(s)) /\ Hands /\ GuardInv /\ SendStepsResolve /\ Runs

IInv == Store /\ CurrentInv /\ Requests /\ Workflow

----------------------------------------------------------------------------
(* Numbers, lists and orders                                               *)

\* Nat is well-ordered, by the strict subsets of an initial segment.
LEMMA Least ==
  ASSUME NEW S, S \subseteq Nat, S # {}
  PROVE \E x \in S : \A y \in S : x <= y
  <1> DEFINE Below(x) == {y \in S : y < x}
             T == {Below(x) : x \in S}
  <1>1. /\ \A x \in S : x \in Nat
        /\ \A x \in S : Below(x) \in T /\ Below(x) \in SUBSET S
        /\ \A x, y \in S : y \in Below(x) <=> y < x
        /\ \A t \in T : \E x \in S : t = Below(x)
        /\ T # {}
    OBVIOUS
  <1> HIDE DEF Below, T
  <1>2. ASSUME NEW x \in S
        PROVE  Below(x) \in FiniteSubsetsOf(S)
    <2>1. \A y \in Below(x) : y \in 0..x
      <3> SUFFICES ASSUME NEW y \in Below(x)
                   PROVE  y \in 0..x
        OBVIOUS
      <3>1. y \in S
        BY <1>1
      <3>2. y < x /\ y \in Nat /\ x \in Nat
        BY <1>1, <3>1
      <3> QED BY <3>2
    <2>2. IsFiniteSet(0..x)
      BY <1>1, FS_Interval, x \in Int, 0 \in Int
    <2>3. Below(x) \in SUBSET (0..x)
      BY <2>1
    <2>4. IsFiniteSet(Below(x))
      BY <2>2, <2>3, FS_Subset
    <2> QED BY <1>1, <2>4 DEF FiniteSubsetsOf
  <1>3. T \subseteq FiniteSubsetsOf(S)
    BY <1>1, <1>2
  <1>4. PICK t \in T : \A u \in T : ~(<<u, t>> \in StrictSubsetOrdering(S))
    BY <1>1, <1>3, FS_StrictSubsetOrderingWellFounded, WFMin
  <1>5. PICK x \in S : t = Below(x)
    BY <1>1
  <1>6. ASSUME NEW y \in S, y < x
        PROVE  FALSE
    <2>1. x \in Nat /\ y \in Nat
      BY <1>1
    <2>2. ASSUME NEW z \in Below(y)
          PROVE  z \in Below(x)
      <3>1. z \in S
        BY <1>1
      <3>2. z < y /\ z \in Nat
        BY <1>1, <3>1
      <3>3. z < x
        BY <1>6, <2>1, <3>2
      <3> QED BY <1>1, <3>1, <3>3
    <2>3. Below(y) \subseteq Below(x) /\ Below(y) # Below(x)
      BY <1>1, <1>6, <2>1, <2>2
    <2>4. <<Below(y), Below(x)>> \in StrictSubsetOrdering(S)
      BY <1>1, <2>3 DEF StrictSubsetOrdering
    <2> QED BY <1>1, <1>4, <1>5, <2>4
  <1> QED BY <1>1, <1>6

\* A set of numbers with a bound has a greatest one.
LEMMA Greatest ==
  ASSUME NEW S, S \subseteq Nat, S # {}, NEW top \in Nat, \A x \in S : x <= top
  PROVE  \E x \in S : \A y \in S : y <= x
  <1> DEFINE T == {n \in Nat : \A x \in S : x <= n}
  <1>1. T \subseteq Nat /\ T # {}
    OBVIOUS
  <1>2. PICK n \in T : \A m \in T : n <= m
    BY <1>1, Least
  <1>3. CASE n \in S
    BY <1>2, <1>3
  <1>4. CASE n \notin S
    <2>1. \A x \in S : x < n
      BY <1>2, <1>4
    <2>2. n > 0
      <3>1. PICK x \in S : TRUE
        OBVIOUS
      <3>2. x \in Nat /\ n \in Nat /\ x < n
        BY <1>2, <2>1, <3>1
      <3> QED BY <3>2
    <2>3. n - 1 \in T
      BY <2>1, <2>2, <1>2
    <2> QED BY <2>3, <1>2
  <1> QED BY <1>3, <1>4

\* The numbers of an existing template's versions.
LEMMA Numbers ==
    ASSUME Store, NEW id
    PROVE  /\ VersionsOf(id) # {} => Latest(id) \in VersionsOf(id)
           /\ MaxNum(id) \in Nat
           /\ \A v \in VersionsOf(id) : v.num <= MaxNum(id)
           /\ MaxNum(id) # 0 => Has(id, MaxNum(id))
           /\ VersionsOf(id) # {} => MaxNum(id) # 0
  <1>1. \A v \in versions : v.num \in Nat \ {0}
    BY DEF Store, VersionOK
  <1>2. PICK top \in Nat : \A v \in versions : v.num <= top
    BY DEF Store, Numbered
  <1>3. CASE VersionsOf(id) = {}
    BY <1>3 DEF MaxNum
  <1>4. CASE VersionsOf(id) # {}
    <2> DEFINE S == {v.num : v \in VersionsOf(id)}
    <2>1. S \subseteq Nat /\ S # {} /\ \A x \in S : x <= top
      BY <1>1, <1>2, <1>4 DEF VersionsOf
    <2>2. PICK n \in S : \A m \in S : m <= n
      BY <2>1, Greatest
    <2>3. \E v \in VersionsOf(id) : \A w \in VersionsOf(id) : w.num <= v.num
      BY <2>2
    <2>4. /\ Latest(id) \in VersionsOf(id)
          /\ \A w \in VersionsOf(id) : w.num <= Latest(id).num
      BY <2>3 DEF Latest
    <2> QED BY <1>1, <1>4, <2>4 DEF MaxNum, Has, VersionsOf
  <1> QED BY <1>3, <1>4

\* A version has the number 0 nowhere, so a current one shows in CurrentNum.
LEMMA Current ==
    ASSUME Store, NEW id
    PROVE  /\ CurrentNum(id) # 0 <=> \E v \in VersionsOf(id) : v.current
           /\ CurrentNum(id) # 0 =>
                \E v \in VersionsOf(id) : v.num = CurrentNum(id) /\ v.current
  <1>1. \A v \in versions : v.num # 0
    BY DEF Store, VersionOK
  <1> QED BY <1>1 DEF CurrentNum, VersionsOf

\* A number names one version.
LEMMA Bodies ==
    ASSUME Store, NEW v \in versions
    PROVE  BodyOf(v.tpl, v.num) = v.body
  <1>1. v \in VersionsOf(v.tpl) /\ \A w \in VersionsOf(v.tpl) : w.num = v.num => w = v
    BY DEF VersionsOf, Store, Numbered
  <1> QED BY <1>1 DEF BodyOf

\* From its row or from its place in the list, a row has one order.
LEMMA Places ==
    ASSUME NEW list, Listed(list), NEW i \in Int, NEW s
    PROVE  \/ /\ OrderBefore(i, s, list) = s.order
              /\ \A k \in DOMAIN list : k < i => ~Updates(list, k, s)
           \/ /\ OrderBefore(i, s, list) \in DOMAIN list
              /\ OrderBefore(i, s, list) < i
              /\ Updates(list, OrderBefore(i, s, list), s)
  BY DEF OrderBefore

\* Renumbering gives rows new orders, which stay apart, and changes nothing else.
LEMMA Renumbers ==
    ASSUME NEW rows, rows \subseteq StepRows, NEW list, Listed(list),
           \A s, t \in rows : s.id = t.id \/ s.order = t.order => s = t,
           NEW moved, moved = Renumbered(rows, list), moved # Clash
    PROVE  /\ moved \subseteq StepRows
           /\ \A s, t \in moved : s.id = t.id \/ s.order = t.order => s = t
           /\ \A x \in moved : \E s \in rows : x = [s EXCEPT !.order = x.order]
           /\ \A s \in rows : \E x \in moved : x = [s EXCEPT !.order = x.order]
  <1> DEFINE Order(s) == OrderBefore(Len(list) + 1, s, list)
             F(s) == [s EXCEPT !.order = Order(s)]
  <1>1. /\ moved = {F(s) : s \in rows}
        /\ \A i \in DOMAIN list : \A s, t \in rows :
              ~(Updates(list, i, s) /\ t # s /\ OrderBefore(i, t, list) = i)
    BY Zenon DEF Renumbered
  <1>2. Len(list) \in Nat /\ DOMAIN list = 1 .. Len(list)
    BY LenProperties DEF Listed
  <1>3. ASSUME NEW s \in rows
        PROVE  Order(s) \in Nat
    <2>1. s.order \in Nat
      BY DEF StepRows
    <2> QED BY <1>2, <2>1, Places
  <1>4. ASSUME NEW s \in rows
        PROVE  F(s) \in StepRows /\ F(s).id = s.id /\ F(s).order = Order(s)
    <2>1. s \in StepRows
      OBVIOUS
    <2> HIDE DEF Order
    <2> QED BY <1>3, <2>1 DEF StepRows
  <1>5. ASSUME NEW s \in rows, NEW t \in rows, Order(s) = Order(t)
        PROVE  s = t
    <2>1. ASSUME NEW x \in rows, NEW y \in rows, x # y, Order(x) = Order(y), Updates(list, Order(x), x),
                 Order(x) \in DOMAIN list
          PROVE  FALSE
      <3>1. OrderBefore(Order(x), y, list) # Order(x)
        BY <1>1, <2>1
      <3>2. Order(x) \in Int /\ Len(list) + 1 \in Int
        BY <1>2, <2>1
      <3>3. CASE Order(y) = y.order /\ \A k \in DOMAIN list : k < Len(list) + 1 => ~Updates(list, k, y)
        <4>1. \A k \in DOMAIN list : ~Updates(list, k, y)
          BY <1>2, <3>3
        <4>2. OrderBefore(Order(x), y, list) = y.order
          BY <4>1, <3>2, Places
        <4> QED BY <2>1, <3>1, <3>3, <4>2
      <3>4. CASE Updates(list, Order(y), y)
        BY <2>1, <3>4 DEF Updates
      <3> QED BY <3>2, <3>3, <3>4, Places
    <2>2. CASE Order(s) \in DOMAIN list /\ Updates(list, Order(s), s)
      BY <1>5, <2>1, <2>2
    <2>3. CASE Order(t) \in DOMAIN list /\ Updates(list, Order(t), t)
      BY <1>5, <2>1, <2>3
    <2>4. CASE Order(s) = s.order /\ Order(t) = t.order
      BY <1>5, <2>4
    <2> HIDE DEF Order
    <2>5. Len(list) + 1 \in Int
      BY <1>2
    <2> QED BY <2>2, <2>3, <2>4, <2>5, Places DEF Order
  <1> HIDE DEF Order, F
  <1>6. \A s, t \in moved : s.id = t.id \/ s.order = t.order => s = t
    BY <1>1, <1>4, <1>5
  <1>7. ASSUME NEW s \in rows
        PROVE  F(s) = [s EXCEPT !.order = F(s).order]
    BY <1>4 DEF F
  <1> QED BY <1>1, <1>4, <1>6, <1>7

\* Rows are finitely many, since each has an id of its own.
LEMMA FiniteRows ==
    ASSUME NEW rows, rows \subseteq StepRows, \A s, t \in rows : s.id = t.id => s = t
    PROVE  IsFiniteSet(rows)
  <1> DEFINE f == [s \in rows |-> s.id]
  <1>1. \A s \in rows : s.id \in 1 .. MaxSteps
    BY DEF StepRows
  <1>2. f \in [rows -> 1 .. MaxSteps] /\ \A s, t \in rows : f[s] = f[t] => s = t
    BY <1>1
  <1>3. f \in Injection(rows, 1 .. MaxSteps)
    BY <1>2 DEF Injection, IsInjective
  <1>4. IsFiniteSet(1 .. MaxSteps)
    BY FS_Interval, StepsAssumption, 1 \in Int, MaxSteps \in Int
  <1> QED BY <1>3, <1>4, FS_Injection

\* A list of rows in their order is a sequence, and has each of them.
LEMMA OrderedLists ==
    ASSUME NEW rows, rows \subseteq StepRows,
           \A s, t \in rows : s.id = t.id \/ s.order = t.order => s = t
    PROVE  Listed(Ordered(rows)) /\ \A s \in rows : \E i \in DOMAIN Ordered(rows) : Ordered(rows)[i] = s
  <1> DEFINE Upto(s) == {t \in rows : t.order <= s.order}
             n == Cardinality(rows)
             list == Ordered(rows)
  <1>1. IsFiniteSet(rows) /\ n \in Nat
    BY FiniteRows, FS_CardinalityType
  <1>2. list = [i \in 1 .. n |-> CHOOSE s \in rows : Cardinality(Upto(s)) = i]
    BY DEF Ordered
  <1>3. \A s \in rows : s.order \in Nat
    BY DEF StepRows
  <1>4. ASSUME NEW s \in rows
        PROVE  Upto(s) \in SUBSET rows /\ s \in Upto(s) /\ IsFiniteSet(Upto(s))
               /\ Cardinality(Upto(s)) \in 1 .. n
    <2>1. Upto(s) \in SUBSET rows /\ s \in Upto(s)
      BY <1>3
    <2> HIDE DEF Upto
    <2>2. IsFiniteSet(Upto(s)) /\ Cardinality(Upto(s)) <= n
      BY <1>1, <2>1, FS_Subset
    <2>3. Cardinality(Upto(s)) \in Nat /\ Cardinality(Upto(s)) # 0
      BY <2>1, <2>2, FS_CardinalityType, FS_EmptySet
    <2> QED BY <1>1, <2>1, <2>2, <2>3
  <1>5. ASSUME NEW s \in rows, NEW t \in rows, Cardinality(Upto(s)) = Cardinality(Upto(t))
        PROVE  s = t
    <2>1. ASSUME NEW x \in rows, NEW y \in rows, Cardinality(Upto(x)) = Cardinality(Upto(y)),
                 x.order < y.order
          PROVE  FALSE
      <3>1. Upto(x) \in SUBSET Upto(y) /\ y \notin Upto(x) /\ y \in Upto(y)
        BY <1>3, <2>1
      <3> HIDE DEF Upto
      <3>2. Upto(x) = Upto(y)
        BY <1>4, <2>1, <3>1, FS_Subset
      <3> QED BY <3>1, <3>2
    <2>2. s.order = t.order
      BY <1>3, <1>5, <2>1
    <2> QED BY <2>2
  <1> HIDE DEF Upto, n, list
  <1>6. DOMAIN list = 1 .. n
    BY <1>2
  <1>7. Listed(list)
    <2>1. list \in [1 .. n -> {list[i] : i \in DOMAIN list}]
      BY <1>2
    <2> QED BY <1>1, <2>1, SeqDef DEF Listed
  <1>8. ASSUME NEW s \in rows
        PROVE  \E i \in DOMAIN list : list[i] = s
    <2>1. PICK i \in 1 .. n : i = Cardinality(Upto(s))
      BY <1>4
    <2>2. list[i] = CHOOSE t \in rows : Cardinality(Upto(t)) = i
      BY <1>2
    <2>3. list[i] \in rows /\ Cardinality(Upto(list[i])) = i
      BY <2>1, <2>2
    <2>4. list[i] = s
      BY <1>5, <2>1, <2>3
    <2> QED BY <1>6, <2>4
  <1> QED BY <1>7, <1>8 DEF list

\* Moving an element of a list to another place leaves a list.
LEMMA RearrangedLists ==
    ASSUME NEW list, Listed(list), NEW id, NEW order \in Nat, \E i \in DOMAIN list : list[i].id = id
    PROVE  Listed(Rearranged(list, id, order))
  <1> DEFINE S == {list[i] : i \in DOMAIN list}
  <1>1. PICK from : from = CHOOSE i \in DOMAIN list : list[i].id = id
    OBVIOUS
  <1>2. PICK place : place = IF order < 1 THEN 1 ELSE IF order > Len(list) THEN Len(list) ELSE order
    OBVIOUS
  <1>3. Rearranged(list, id, order) = InsertAt(RemoveAt(list, from), place, list[from])
    BY <1>1, <1>2, Zenon DEF Rearranged
  <1>4. list \in Seq(S) /\ Len(list) \in Nat /\ DOMAIN list = 1 .. Len(list)
    BY LenProperties DEF Listed
  <1>n. PICK n \in Nat : n = Len(list)
    BY <1>4
  <1>5. from \in 1 .. n /\ list[from] \in S
    BY <1>1, <1>4, <1>n
  <1> HIDE DEF S
  <1>6. RemoveAt(list, from) \in Seq(S) /\ Len(RemoveAt(list, from)) = n - 1
    <2>1. \A i \in 1 .. n : list[i] \in S
      BY <1>4, <1>n, ElementOfSeq
    <2>2. SubSeq(list, 1, from - 1) \in Seq(S) /\ Len(SubSeq(list, 1, from - 1)) = from - 1
      BY <1>5, <2>1, SubSeqProperties, 1 \in Int, from - 1 \in Int
    <2>3. SubSeq(list, from + 1, n) \in Seq(S) /\ Len(SubSeq(list, from + 1, n)) = n - from
      <3>1. \A i \in from + 1 .. n : list[i] \in S
        BY <1>5, <2>1
      <3>2. from + 1 \in Int /\ n \in Int
        BY <1>5
      <3>3. /\ SubSeq(list, from + 1, n) \in Seq(S)
            /\ Len(SubSeq(list, from + 1, n)) = IF from + 1 <= n THEN n - (from + 1) + 1 ELSE 0
        BY <3>1, <3>2, SubSeqProperties
      <3> QED BY <1>5, <3>3
    <2>4. RemoveAt(list, from) = SubSeq(list, 1, from - 1) \o SubSeq(list, from + 1, n)
      BY <1>n, Zenon DEF RemoveAt
    <2>5. /\ RemoveAt(list, from) \in Seq(S)
          /\ Len(RemoveAt(list, from)) = (from - 1) + (n - from)
      BY <2>2, <2>3, <2>4, ConcatProperties
    <2> QED BY <1>5, <2>5
  <1>7. place \in 1 .. n
    BY <1>2, <1>n, <1>5
  <1>8. ASSUME NEW rest \in Seq(S), Len(rest) = n - 1, NEW x \in S
        PROVE  InsertAt(rest, place, x) \in Seq(S)
    <2>1. \A i \in 1 .. (n - 1) : rest[i] \in S
      BY <1>8, ElementOfSeq
    <2>2. SubSeq(rest, 1, place - 1) \in Seq(S)
      <3>1. 1 \in Int /\ place - 1 \in Int /\ \A i \in 1 .. (place - 1) : rest[i] \in S
        BY <1>7, <2>1
      <3> QED BY <3>1, SubSeqProperties
    <2>3. SubSeq(rest, place, n - 1) \in Seq(S)
      <3>1. place \in Int /\ n - 1 \in Int /\ \A i \in place .. (n - 1) : rest[i] \in S
        BY <1>7, <2>1
      <3> QED BY <3>1, SubSeqProperties
    <2>4. InsertAt(rest, place, x) = SubSeq(rest, 1, place - 1) \o <<x>> \o SubSeq(rest, place, n - 1)
      BY <1>8, Zenon DEF InsertAt
    <2>5. <<x>> \in Seq(S)
      BY <1>8
    <2>6. SubSeq(rest, 1, place - 1) \o <<x>> \in Seq(S)
      BY <2>2, <2>5, ConcatProperties
    <2> QED BY <2>3, <2>4, <2>6, ConcatProperties
  <1>9. ASSUME NEW l \in Seq(S)
        PROVE  Listed(l)
    <2>1. l \in [1 .. Len(l) -> S] /\ Len(l) \in Nat /\ DOMAIN l = 1 .. Len(l)
      BY LenProperties
    <2>2. l \in [1 .. Len(l) -> {l[i] : i \in DOMAIN l}]
      BY <2>1
    <2> QED BY <2>1, <2>2, SeqDef DEF Listed
  <1> QED BY <1>3, <1>5, <1>6, <1>8, <1>9

----------------------------------------------------------------------------
(* The initial states                                                      *)

\* The template and its versions, as the starts have them.
LEMMA InitStore == Init => Store /\ CurrentInv
  <1> SUFFICES ASSUME Init
               PROVE  Store /\ CurrentInv
    OBVIOUS
  <1>1. PICK s \in Start : TplInit(s) /\ steps = s.steps
    BY DEF Init
  <1>2. TplStartOK(s) /\ MaxTemplates \in Nat
    BY StartAssumption, StudioAssumption DEF StartOK
  <1>3. /\ tpl = s.tpl /\ versions = s.versions /\ logs = {} /\ mail = {} /\ cut = {}
        /\ made = IF tpl = None THEN 0 ELSE 1
    BY <1>1 DEF TplInit
  <1>4. TplOK
    BY <1>2, <1>3 DEF TplOK, TplStartOK
  <1>5. PICK n \in Nat : {v.num : v \in versions} = 1 .. n
    BY <1>2, <1>3, FS_CardinalityType DEF TplStartOK
  <1>6. ASSUME NEW v \in versions
        PROVE  /\ v = [tpl |-> 1, num |-> v.num, body |-> v.body,
                       approved |-> v.approved, current |-> v.current]
               /\ v.tpl = 1 /\ Exists(1) /\ v.num \in 1 .. n
               /\ v.approved \in BOOLEAN /\ v.current \in BOOLEAN /\ (v.current => v.approved)
               /\ (v.approved => \E w \in versions : w.current)
               /\ \A w \in versions : v.num = w.num => v = w
    <2>1. /\ v = [tpl |-> 1, num |-> v.num, body |-> v.body,
                  approved |-> v.approved, current |-> v.current]
          /\ tpl # None /\ v.approved \in BOOLEAN /\ v.current \in BOOLEAN /\ (v.current => v.approved)
          /\ (v.approved => \E w \in versions : w.current)
          /\ \A w \in versions : v.num = w.num => v = w
      BY <1>2, <1>3 DEF TplStartOK
    <2>2. v.tpl = 1
      BY <2>1
    <2>3. Exists(1)
      BY <1>2, <1>3, <2>1 DEF Exists, TplStartOK
    <2>4. v.num \in 1 .. n
      BY <1>5
    <2> QED BY <2>1, <2>2, <2>3, <2>4
  <1>7. \A v \in versions : VersionOK(v)
    <2> SUFFICES ASSUME NEW v \in versions
                 PROVE  VersionOK(v)
      OBVIOUS
    <2>1. v = [tpl |-> v.tpl, num |-> v.num, body |-> v.body,
               approved |-> v.approved, current |-> v.current]
      BY <1>6
    <2> QED BY <1>6, <2>1 DEF VersionOK
  <1>8. Numbered
    <2>1. \A v \in versions : \A m \in 1 .. v.num : Has(v.tpl, m)
      <3> SUFFICES ASSUME NEW v \in versions, NEW m \in 1 .. v.num
                   PROVE  Has(v.tpl, m)
        OBVIOUS
      <3>1. m \in 1 .. n
        BY <1>6
      <3>2. \E w \in versions : w.num = m
        BY <1>5, <3>1
      <3> QED BY <1>6, <3>2 DEF Has
    <2> QED BY <1>6, <2>1 DEF Numbered
  <1>9. CurrentInv
    BY <1>6 DEF CurrentInv
  <1> QED BY <1>3, <1>4, <1>7, <1>8, <1>9 DEF Store

\* The requests and the workflow, as the starts have them.
LEMMA InitWorkflow == Init => Requests /\ Workflow
  <1> SUFFICES ASSUME Init
               PROVE  Requests /\ Workflow
    OBVIOUS
  <1>1. PICK s \in Start : TplInit(s) /\ steps = s.steps
    BY DEF Init
  <1>2. StartOK(s)
    BY StartAssumption
  <1>3. /\ tpl = s.tpl /\ made = (IF tpl = None THEN 0 ELSE 1) /\ left = s.left
        /\ page = [p \in Procs |-> None] /\ job = [p \in Procs |-> Idle]
    BY <1>1 DEF TplInit
  <1>4. \A p \in Procs : job[p].pc = "idle"
    BY <1>3 DEF Idle
  <1>5. Requests
    BY <1>2, <1>3, <1>4 DEF Requests, JobOK, StartOK, TplStartOK, TplPcs
  <1>6. \A p \in Procs : job[p].pc \notin {"create", "renumber", "delete"}
    BY <1>4
  <1>7. Rows
    BY <1>1, <1>2 DEF StartOK, Rows
  <1>8. ASSUME NEW x \in steps
        PROVE  StepOK(x) /\ (x.type = "send" => Resolves(x) \/ x.key > made)
    <2>1. /\ x.tpl = None \/ (tpl # None /\ x.tpl = 1)
          /\ IF x.type = "send" THEN x.tpl # None \/ x.key > made ELSE x.tpl = None /\ x.key = 0
      BY <1>1, <1>2, <1>3 DEF StartOK
    <2>2. tpl # None => tpl.id = 1
      BY <1>2, <1>3 DEF StartOK, TplStartOK
    <2>3. made \in {0, 1}
      BY <1>3
    <2> QED BY <2>1, <2>2, <2>3 DEF StepOK, Exists, Resolves
  <1>9. Runs
    <2>1. exec = [e \in Execs |-> [state |-> "absent"]] /\ sent = [e \in Execs |-> {}]
          /\ sweep = [c \in Copies |-> Idle] /\ overtaken = {}
          /\ raced = {} /\ unkeyed = {} /\ orphaned = {} /\ collided = ""
      BY DEF Init
    <2>2. ASSUME NEW e \in Execs
          PROVE  ExecOK(e)
      <3>1. exec[e].state = "absent" /\ sent[e] = {}
        BY <2>1
      <3> QED BY <3>1 DEF ExecOK
    <2>3. (\A c \in Copies : SweptOK(c)) /\ Judgements
      BY <2>1 DEF SweptOK, Judgements
    <2> QED BY <2>1, <2>2, <2>3 DEF Runs
  <1> QED BY <1>5, <1>6, <1>7, <1>8, <1>9 DEF Workflow, Hands, GuardInv, SendStepsResolve

----------------------------------------------------------------------------
(* Requests from one state to the next                                     *)

\* No step makes up a template of old, or takes a version from one that stays.
Persists ==
    /\ made \in Nat /\ made' \in Nat /\ made <= made'
    /\ \A id \in 1 .. made : Exists(id)' => Exists(id)
    /\ \A id \in 1 .. made : \A n : Exists(id)' /\ Has(id, n) => Has(id, n)'

Calm == UNCHANGED <<tpl, made, versions, logs, mail, cut>>

\* What a request has in hand stays good.
LEMMA JobKept ==
    ASSUME Persists, NEW j, JobOK(j)
    PROVE  JobOK(j)'
  <1>1. j.pc \in TplPcs => j.tpl \in 1 .. made /\ j.tpl \in 1 .. made'
    BY DEF JobOK, Persists
  <1>2. ASSUME j.pc \in {"insert", "generate"}, Exists(j.tpl)', NEW n \in 1 .. (j.num - 1)
        PROVE  Has(j.tpl, n)'
    BY <1>1, <1>2 DEF JobOK, Persists, TplPcs
  <1>3. ASSUME j.pc \in {"clear", "mark", "activate"}, Exists(j.tpl)'
        PROVE  Has(j.tpl, j.num)'
    BY <1>1, <1>3 DEF JobOK, Persists, TplPcs
  <1> HIDE DEF TplPcs
  <1> QED BY <1>1, <1>2, <1>3 DEF JobOK

\* The others go on with what they had.
LEMMA RequestsKept ==
    ASSUME Requests, Persists, NEW p \in Procs, NEW j, JobOK(j)',
           job' = [job EXCEPT ![p] = j], DOMAIN page' = Procs,
           left' \in [{"tpl", "steps"} -> Nat]
    PROVE  Requests'
  <1>1. job' = [q \in Procs |-> job'[q]]
    BY DEF Requests
  <1>2. ASSUME NEW q \in Procs
        PROVE  JobOK(job[q])'
    <2>1. CASE q = p
      <3>1. job'[q] = j
        BY <2>1 DEF Requests
      <3> QED BY <3>1 DEF JobOK
    <2>2. CASE q # p
      <3>1. PICK k : k = job[q]
        OBVIOUS
      <3>2. job'[q] = k /\ JobOK(k)
        BY <2>2, <3>1 DEF Requests
      <3>3. JobOK(k)'
        BY <3>2, JobKept
      <3> QED BY <3>2, <3>3 DEF JobOK
    <2> QED BY <2>1, <2>2
  <1> QED BY <1>1, <1>2 DEF Requests

\* A request that comes in, goes on or is answered.
LEMMA RequestIs ==
    ASSUME Requests, NEW p \in Procs, NEW kind \in {"tpl", "steps"}, NEW r, Request(p, kind, r)
    PROVE  /\ job[p].pc = "idle" /\ job' = [job EXCEPT ![p] = r]
           /\ left' \in [{"tpl", "steps"} -> Nat]
  <1>1. left[kind] \in Nat /\ left[kind] > 0 /\ left' = [left EXCEPT ![kind] = left[kind] - 1]
    BY DEF Requests, Request
  <1>2. left[kind] - 1 \in Nat
    BY <1>1
  <1> QED BY <1>1, <1>2 DEF Requests, Request, Idle

\* A request that is answered leaves its process idle.
LEMMA AnswerIs ==
    ASSUME Requests, NEW p \in Procs, Answer(p)
    PROVE  /\ job' = [job EXCEPT ![p] = Idle] /\ JobOK(Idle) /\ Idle.pc = "idle"
           /\ left' \in [{"tpl", "steps"} -> Nat]
  BY DEF Answer, Requests, JobOK, Idle, TplPcs

\* A request that goes on changes its control point only.
LEMMA GotoIs ==
    ASSUME Requests, NEW p \in Procs, NEW pc, Goto(p, pc), "pc" \in DOMAIN job[p]
    PROVE  /\ job' = [job EXCEPT ![p] = [job[p] EXCEPT !.pc = pc]]
           /\ left' \in [{"tpl", "steps"} -> Nat]
  BY DEF Goto, Requests

\* Nothing that is stored changes.
LEMMA CalmKeeps ==
    ASSUME Store, Calm
    PROVE  Store' /\ Persists
  <1>1. /\ TplOK' = TplOK /\ Numbered' = Numbered /\ \A id : Exists(id)' = Exists(id)
        /\ \A id, n : Has(id, n)' = Has(id, n)
    BY DEF Calm, TplOK, Numbered, Exists, Has
  <1>2. \A v : VersionOK(v)' = VersionOK(v)
    BY <1>1 DEF VersionOK
  <1>3. (\A l : LogOK(l)' = LogOK(l)) /\ \A m : MailOK(m)' = MailOK(m)
    BY <1>1 DEF Calm, LogOK, MailOK
  <1>4. made \in Nat
    BY DEF Store, TplOK
  <1> QED BY <1>1, <1>2, <1>3, <1>4 DEF Calm, Store, Persists

\* Every number up to the highest was given.
LEMMA Dense ==
    ASSUME Store, NEW id, NEW n \in 1 .. MaxNum(id)
    PROVE  Has(id, n)
  <1>1. MaxNum(id) \in Nat /\ MaxNum(id) # 0
    BY Numbers
  <1>2. PICK v \in versions : v.tpl = id /\ v.num = MaxNum(id)
    BY <1>1, Numbers DEF Has
  <1> QED BY <1>2 DEF Store, Numbered

\* An existing template is the last one made.
LEMMA TplIs ==
    ASSUME Store, tpl # None
    PROVE  /\ tpl \in TplRows /\ tpl.id = made /\ tpl.id \in 1 .. made /\ Exists(tpl.id)
           /\ tpl.required \subseteq tpl.declared
  <1>1. tpl \in TplRows /\ tpl.id = made /\ tpl.required \subseteq tpl.declared
    BY DEF Store, TplOK
  <1>2. tpl.id \in Nat \ {0}
    BY <1>1 DEF TplRows
  <1> QED BY <1>1, <1>2 DEF Exists

\* A version that is to be inserted under the next number.
LEMMA InsertingIs ==
    ASSUME Store, NEW id \in 1 .. made, NEW body, NEW draft, draft.required \subseteq draft.vars,
           draft.vars \subseteq Vars, NEW typed, NEW j, NEW pc \in {"insert", "generate"},
           j = [Inserting(id, body, draft, typed) EXCEPT !.pc = pc]
    PROVE  JobOK(j) /\ j.pc = pc
  <1>1. MaxNum(id) \in Nat /\ \A n \in 1 .. MaxNum(id) : Has(id, n)
    BY Dense, Numbers
  <1>2. /\ j.pc = pc /\ j.tpl = id /\ j.num = MaxNum(id) + 1
        /\ j.required = draft.required /\ j.vars = draft.vars
    BY DEF Inserting
  <1>3. j.num - 1 = MaxNum(id) /\ j.num \in Nat \ {0}
    BY <1>1, <1>2
  <1> QED BY <1>1, <1>2, <1>3 DEF JobOK, TplPcs

----------------------------------------------------------------------------
(* The steps of the template's requests                                    *)

\* A request of a template page takes a step: those of the workflow rest, no deletion is
\* asked for or carried out, and the template stays or is made.
Takes(p) ==
    /\ job[p].pc \notin {"create", "renumber", "delete"}
    /\ DOMAIN page' = Procs /\ left' \in [{"tpl", "steps"} -> Nat]
    /\ \E j : /\ job' = [job EXCEPT ![p] = j] /\ JobOK(j)'
              /\ j.pc \notin {"create", "renumber", "delete"}
    /\ tpl # None => tpl' # None /\ tpl'.id = tpl.id /\ made' = made
    /\ tpl = None => \/ tpl' = None /\ made' = made
                     \/ tpl' # None /\ tpl'.id = made' /\ made' = made + 1

\* Requests that come in or go on, and store nothing.
LEMMA CalmTakes ==
    ASSUME Store, Requests, NEW p \in Procs, Calm,
           job[p].pc \notin {"create", "renumber", "delete"},
           DOMAIN page' = Procs, left' \in [{"tpl", "steps"} -> Nat],
           NEW j, job' = [job EXCEPT ![p] = j], JobOK(j), j.pc \notin {"create", "renumber", "delete"}
    PROVE  Takes(p)
  <1>1. JobOK(j)'
    BY CalmKeeps, JobKept
  <1>2. tpl' = tpl /\ made' = made
    BY DEF Calm
  <1> QED BY <1>1, <1>2 DEF Takes

\* Pages that are shown, and requests that read before they write: nothing is stored.
LEMMA ReadingSteps ==
    ASSUME Store, Requests, NEW p \in Procs,
           \/ TemplateDetail(p) \/ VersionCreate(p) \/ TemplateSetup(p) \/ TemplateRevise(p)
           \/ Approve(p) \/ \E context \in SUBSET Vars : SendTemplate(p, context)
           \/ TemplateGenerate(p) /\ UNCHANGED <<tpl, made>>
    PROVE  Calm /\ Takes(p) /\ job[p].pc = "idle"
  <1> USE DEF Begin
  <1>d. DOMAIN page = Procs /\ job = [q \in Procs |-> job[q]] /\ left \in [{"tpl", "steps"} -> Nat]
        /\ "tpl" \in {"tpl", "steps"}
    BY DEF Requests
  <1>1. CASE TemplateDetail(p)
    <2>0. PICK form : page' = [page EXCEPT ![p] = form]
      BY <1>1, Zenon DEF TemplateDetail
    <2>1. Calm /\ job' = job /\ left' = left /\ job[p] = Idle /\ DOMAIN page' = Procs
      <3>1. DOMAIN page' = Procs
        BY <1>d, <2>0
      <3>2. job[p] = Idle /\ UNCHANGED <<tpl, made, versions, logs, mail, job, cut, left>>
        BY <1>1, Zenon DEF TemplateDetail
      <3> QED BY <3>1, <3>2 DEF Calm
    <2>2. job' = [job EXCEPT ![p] = Idle] /\ job[p].pc = "idle"
      BY <2>1, <1>d DEF Idle
    <2>3. JobOK(Idle) /\ Idle.pc = "idle"
      BY DEF JobOK, Idle, TplPcs
    <2> QED BY <1>d, <2>1, <2>2, <2>3, CalmTakes
  <1>2. ASSUME NEW r, Request(p, "tpl", r), JobOK(r), r.pc \in TplPcs \ {"delete"},
               UNCHANGED tplVars
        PROVE  Calm /\ Takes(p) /\ job[p].pc = "idle"
    <2>1. Calm /\ DOMAIN page' = Procs
      BY <1>2, <1>d DEF tplVars, Calm
    <2>2. job[p].pc = "idle" /\ job' = [job EXCEPT ![p] = r] /\ left' \in [{"tpl", "steps"} -> Nat]
      BY <1>2, <1>d, RequestIs
    <2> QED BY <1>2, <2>1, <2>2, CalmTakes DEF TplPcs
  <1>3. ASSUME tpl # None, NEW body, NEW typed, NEW r, r = Inserting(tpl.id, body, ByHand, typed)
        PROVE  JobOK(r) /\ r.pc = "insert"
    <2>1. r = [Inserting(tpl.id, body, ByHand, typed) EXCEPT !.pc = "insert"]
      BY <1>3 DEF Inserting
    <2>2. ByHand.required \subseteq ByHand.vars /\ ByHand.vars \subseteq Vars
      BY DEF ByHand
    <2>3. tpl.id \in 1 .. made
      BY <1>3, TplIs
    <2> QED BY <1>3, <2>1, <2>2, <2>3, InsertingIs
  <1>4. ASSUME tpl # None, NEW r, NEW fresh \in BOOLEAN, r = Asked(tpl.id, fresh)
        PROVE  JobOK(r) /\ r.pc = "llm"
    <2>1. r.pc = "llm" /\ r.tpl = tpl.id
      BY <1>4 DEF Asked
    <2> QED BY <1>4, <2>1, TplIs DEF JobOK, TplPcs
  <1>5. CASE VersionCreate(p)
    <2>1. tpl # None /\ UNCHANGED tplVars
      BY <1>5 DEF VersionCreate, Exists
    <2>2. \E body, typed : Request(p, "tpl", Inserting(tpl.id, body, ByHand, typed))
      BY <1>5, Zenon DEF VersionCreate
    <2>3. PICK r : Request(p, "tpl", r) /\ \E body, typed : r = Inserting(tpl.id, body, ByHand, typed)
      BY <2>2
    <2> QED BY <1>2, <1>3, <2>1, <2>3 DEF TplPcs
  <1>6. CASE TemplateSetup(p)
    <2>1. tpl # None /\ UNCHANGED tplVars
      BY <1>6 DEF TemplateSetup
    <2>2. \/ Request(p, "tpl", Asked(tpl.id, TRUE))
          \/ \E body, typed : Request(p, "tpl", Inserting(tpl.id, body, ByHand, typed))
      BY <1>6, Zenon DEF TemplateSetup
    <2>3. PICK r : /\ Request(p, "tpl", r)
                   /\ r = Asked(tpl.id, TRUE) \/ \E body, typed : r = Inserting(tpl.id, body, ByHand, typed)
      BY <2>2
    <2> QED BY <1>2, <1>3, <1>4, <2>1, <2>3 DEF TplPcs
  <1>7. CASE TemplateRevise(p)
    <2>1. tpl # None /\ UNCHANGED tplVars /\ Request(p, "tpl", Asked(tpl.id, FALSE))
      BY <1>7 DEF TemplateRevise
    <2>2. PICK r : r = Asked(tpl.id, FALSE)
      OBVIOUS
    <2> QED BY <1>2, <1>4, <2>1, <2>2 DEF TplPcs
  <1>8. CASE TemplateGenerate(p) /\ UNCHANGED <<tpl, made>>
    <2>1. tpl # None
      <3>1. CASE CreateTemplate
        <4>1. made' = made + 1 /\ made \in Nat
          BY <3>1 DEF CreateTemplate, Store, TplOK
        <4> QED BY <1>8, <4>1
      <3> QED BY <1>8, <3>1 DEF TemplateGenerate
    <2>2. UNCHANGED tplVars /\ Request(p, "tpl", Asked(tpl.id, TRUE))
      BY <1>8 DEF TemplateGenerate, tplVars
    <2>3. PICK r : r = Asked(tpl.id, TRUE)
      OBVIOUS
    <2> QED BY <1>2, <1>4, <2>1, <2>2, <2>3 DEF TplPcs
  <1>9. CASE Approve(p)
    <2>1. PICK r : r = [pc |-> "clear", tpl |-> tpl.id, num |-> MaxNum(tpl.id)]
      OBVIOUS
    <2>2. tpl # None /\ UNCHANGED tplVars /\ Request(p, "tpl", r) /\ VersionsOf(tpl.id) # {}
      BY <1>9, <2>1 DEF Approve
    <2>3. Has(tpl.id, MaxNum(tpl.id))
      BY <2>2, Numbers
    <2>4. JobOK(r)
      BY <2>1, <2>2, <2>3, TplIs DEF JobOK, TplPcs
    <2>5. r.pc = "clear"
      BY <2>1
    <2> QED BY <1>2, <2>2, <2>4, <2>5 DEF TplPcs
  <1>10. ASSUME NEW context \in SUBSET Vars, SendTemplate(p, context)
         PROVE  Calm /\ Takes(p) /\ job[p].pc = "idle"
    <2>1. PICK r : r = [pc |-> "validate", tpl |-> tpl.id, context |-> context,
                        names |-> CurrentNum(tpl.id)]
      OBVIOUS
    <2>2. tpl # None /\ UNCHANGED tplVars /\ Request(p, "tpl", r)
      BY <1>10, <2>1 DEF SendTemplate
    <2>3. JobOK(r)
      BY <2>1, <2>2, TplIs DEF JobOK, TplPcs
    <2>4. r.pc = "validate"
      BY <2>1
    <2> QED BY <1>2, <2>2, <2>3, <2>4 DEF TplPcs
  <1> QED BY <1>1, <1>5, <1>6, <1>7, <1>8, <1>9, <1>10

\* The LLM's answers, and the errors that end a request.
LEMMA WaitingSteps ==
    ASSUME Store, Requests, NEW p \in Procs,
           \/ DraftArrives(p) \/ RevisionArrives(p) \/ LlmFails(p) \/ InsertFails(p) \/ MarkFails(p)
           \/ Validate(p) /\ UNCHANGED mail
    PROVE  Calm /\ Takes(p)
  <1>d. /\ DOMAIN page = Procs /\ left \in [{"tpl", "steps"} -> Nat]
        /\ JobOK(job[p]) /\ JobOK(Idle) /\ Idle.pc = "idle"
    BY DEF Requests, JobOK, Idle, TplPcs
  <1>1. ASSUME NEW pc \in TplPcs \ {"delete"}, job[p].pc = pc, NEW j, job' = [job EXCEPT ![p] = j],
               JobOK(j), j.pc \notin {"create", "renumber", "delete"},
               left' \in [{"tpl", "steps"} -> Nat], UNCHANGED tplVars
        PROVE  Calm /\ Takes(p)
    <2>1. Calm /\ DOMAIN page' = Procs
      BY <1>1, <1>d DEF tplVars, Calm
    <2>2. job[p].pc \notin {"create", "renumber", "delete"}
      BY <1>1 DEF TplPcs
    <2> QED BY <1>1, <2>1, <2>2, CalmTakes
  <1>2. ASSUME NEW pc \in TplPcs \ {"delete"}, job[p].pc = pc, Answer(p), UNCHANGED tplVars
        PROVE  Calm /\ Takes(p)
    <2>1. job' = [job EXCEPT ![p] = Idle] /\ left' \in [{"tpl", "steps"} -> Nat]
      BY <1>2, AnswerIs
    <2>2. Idle.pc \notin {"create", "renumber", "delete"}
      BY <1>d
    <2> QED BY <1>1, <1>2, <1>d, <2>1, <2>2
  <1>3. CASE DraftArrives(p)
    <2>1. PICK d \in Drafts : job' = [job EXCEPT ![p] =
            [Inserting(job[p].tpl, d.body, d, <<>>) EXCEPT !.pc = "generate"]]
      BY <1>3, Zenon DEF DraftArrives
    <2>2. PICK j : j = [Inserting(job[p].tpl, d.body, d, <<>>) EXCEPT !.pc = "generate"]
      OBVIOUS
    <2>3. job[p].pc = "llm" /\ left' = left /\ UNCHANGED tplVars
      BY <1>3 DEF DraftArrives
    <2>4. job[p].tpl \in 1 .. made
      BY <1>d, <2>3 DEF JobOK, TplPcs
    <2>5. d.required \subseteq d.vars /\ d.vars \subseteq Vars
      BY StudioAssumption
    <2>6. JobOK(j) /\ j.pc = "generate"
      BY <2>2, <2>4, <2>5, InsertingIs
    <2> QED BY <1>1, <1>d, <2>1, <2>2, <2>3, <2>6 DEF TplPcs
  <1>4. CASE RevisionArrives(p)
    <2>1. PICK d \in Drafts : job' = [job EXCEPT ![p] = Inserting(job[p].tpl, d.body, ByHand, <<>>)]
      BY <1>4, Zenon DEF RevisionArrives
    <2>2. PICK j : j = Inserting(job[p].tpl, d.body, ByHand, <<>>)
      OBVIOUS
    <2>3. job[p].pc = "llm" /\ left' = left /\ UNCHANGED tplVars
      BY <1>4 DEF RevisionArrives
    <2>4. job[p].tpl \in 1 .. made
      BY <1>d, <2>3 DEF JobOK, TplPcs
    <2>5. ByHand.required \subseteq ByHand.vars /\ ByHand.vars \subseteq Vars
      BY DEF ByHand
    <2>6. j = [Inserting(job[p].tpl, d.body, ByHand, <<>>) EXCEPT !.pc = "insert"]
      BY <2>2 DEF Inserting
    <2>7. JobOK(j) /\ j.pc = "insert"
      BY <2>4, <2>5, <2>6, InsertingIs
    <2> QED BY <1>1, <1>d, <2>1, <2>2, <2>3, <2>7 DEF TplPcs
  <1>5. CASE LlmFails(p) \/ InsertFails(p) \/ MarkFails(p)
    BY <1>2, <1>5 DEF LlmFails, InsertFails, MarkFails, TplPcs
  <1>6. CASE Validate(p) /\ UNCHANGED mail
    <2>1. job[p].pc = "validate" /\ UNCHANGED tplVars /\ (Goto(p, "render") \/ Answer(p))
      BY <1>6 DEF Validate, tplVars
    <2>2. CASE Answer(p)
      BY <1>2, <2>1, <2>2 DEF TplPcs
    <2>3. CASE Goto(p, "render")
      <3>1. PICK r : r = job[p]
        OBVIOUS
      <3>2. r = [pc |-> "validate", tpl |-> r.tpl, context |-> r.context, names |-> r.names]
            /\ r.tpl \in 1 .. made
        BY <1>d, <2>1, <3>1 DEF JobOK, TplPcs
      <3>3. PICK j : j = [r EXCEPT !.pc = "render"]
        OBVIOUS
      <3>4. j = [pc |-> "render", tpl |-> r.tpl, context |-> r.context, names |-> r.names]
        BY <3>2, <3>3
      <3>5. JobOK(j) /\ j.pc = "render"
        BY <3>2, <3>4 DEF JobOK, TplPcs
      <3>6. job' = [job EXCEPT ![p] = j] /\ left' \in [{"tpl", "steps"} -> Nat]
        <4>1. "pc" \in DOMAIN job[p]
          BY <3>1, <3>2
        <4> QED BY <2>3, <3>1, <3>3, <4>1, GotoIs
      <3> QED BY <1>1, <2>1, <3>5, <3>6 DEF TplPcs
    <2> QED BY <2>1, <2>2, <2>3
  <1> QED BY <1>3, <1>4, <1>5, <1>6

\* The key had no template, so nothing of one is left.
LEMMA NoRemains ==
    ASSUME Store, tpl = None
    PROVE  versions = {} /\ logs = {}
  <1>1. versions = {}
    BY DEF Store, VersionOK, Exists
  <1> QED BY <1>1 DEF Store, LogOK

\* A template is made.
LEMMA TemplateSteps ==
    ASSUME Store, Requests, NEW p \in Procs, CreateTemplate, NEW r, Request(p, "tpl", r),
           r = Idle \/ r = Asked(tpl'.id, TRUE), UNCHANGED <<versions, logs, mail, page, cut>>
    PROVE  Store' /\ Persists /\ Takes(p) /\ job[p].pc = "idle"
  <1>1. PICK footer \in Footers : tpl' = Shell(footer)
    BY DEF CreateTemplate
  <1>2. /\ tpl = None /\ made \in Nat /\ made' = made + 1 /\ made' \in 0 .. MaxTemplates
        /\ versions' = {} /\ logs' = {} /\ mail' = mail /\ cut' = cut
    BY NoRemains, StudioAssumption DEF CreateTemplate, Store, TplOK
  <1>3. tpl' \in TplRows /\ tpl'.id = made + 1 /\ tpl'.required \subseteq tpl'.declared /\ tpl' # None
    <2>1. tpl' = [id |-> made + 1, active |-> FALSE, declared |-> {}, required |-> {}, footer |-> footer]
      BY <1>1 DEF Shell
    <2>2. tpl' \in TplRows
      BY <1>2, <2>1 DEF TplRows
    <2> QED BY <2>1, <2>2, NoneAssumption
  <1>4. \A m \in mail' : MailOK(m)'
    <2> SUFFICES ASSUME NEW m \in mail
                 PROVE  MailOK(m)'
      BY <1>2
    <2>1. m.tpl \in 1 .. made
      BY DEF Store, MailOK
    <2> QED BY <1>2, <1>3, <2>1 DEF MailOK, Exists
  <1>5. Store'
    BY <1>2, <1>3, <1>4 DEF Store, TplOK, Numbered
  <1>6. Persists
    BY <1>2, <1>3 DEF Persists, Exists
  <1>7. job[p].pc = "idle" /\ job' = [job EXCEPT ![p] = r] /\ left' \in [{"tpl", "steps"} -> Nat]
    <2>1. "tpl" \in {"tpl", "steps"}
      OBVIOUS
    <2> QED BY <2>1, RequestIs
  <1>8. JobOK(r)' /\ r.pc \notin {"create", "renumber", "delete"}
    <2>1. r.pc \in {"idle", "llm"} /\ (r.pc = "llm" => r.tpl \in 1 .. made')
      BY <1>2, <1>3 DEF Idle, Asked
    <2> QED BY <2>1 DEF JobOK, TplPcs
  <1> QED BY <1>2, <1>3, <1>5, <1>6, <1>7, <1>8 DEF Takes, Requests

\* A version comes, under a number nobody had.
LEMMA InsertSteps ==
    ASSUME Store, Requests, NEW p \in Procs, InsertVersion(p) \/ InsertDraft(p)
    PROVE  /\ Store' /\ Persists /\ Takes(p) /\ job[p].pc \in {"insert", "generate"}
           /\ versions \subseteq versions' /\ cut' = cut
           /\ \A v \in versions' \ versions : ~v.approved
           /\ \A v \in versions' \ versions : v.num = MaxNum(v.tpl) + 1
  <1>1. PICK j : j = job[p]
    OBVIOUS
  <1>2. /\ j.pc \in {"insert", "generate"} /\ Accepted(j) /\ versions' = versions \cup {NewVersion(j)}
        /\ Answer(p) /\ UNCHANGED <<made, logs, mail, page, cut>>
        /\ \/ tpl' = tpl
           \/ tpl' = [tpl EXCEPT !.declared = tpl.declared \cup j.vars,
                                 !.required = (tpl.required \ j.vars) \cup j.required]
    BY <1>1 DEF InsertVersion, InsertDraft
  <1>3. /\ j.num \in Nat \ {0} /\ j.required \subseteq j.vars /\ j.vars \subseteq Vars
        /\ Exists(j.tpl) /\ \A n \in 1 .. (j.num - 1) : Has(j.tpl, n)
    BY <1>1, <1>2 DEF Requests, JobOK, Accepted
  <1>4. tpl # None /\ tpl \in TplRows /\ tpl.id = made /\ j.tpl = made /\ tpl.required \subseteq tpl.declared
    BY <1>3, TplIs DEF Exists
  <1>5. /\ tpl' \in TplRows /\ tpl'.id = tpl.id /\ tpl'.required \subseteq tpl'.declared /\ tpl' # None
    <2>1. PICK t : t = tpl
      OBVIOUS
    <2>2. t = [id |-> t.id, active |-> t.active, declared |-> t.declared, required |-> t.required,
               footer |-> t.footer] /\ t.id \in Nat \ {0} /\ t.active \in BOOLEAN
          /\ t.declared \in SUBSET Vars /\ t.required \in SUBSET Vars /\ t.footer \in Footers
      BY <1>4, <2>1 DEF TplRows
    <2>3. \/ tpl' = t
          \/ tpl' = [id |-> t.id, active |-> t.active, declared |-> t.declared \cup j.vars,
                     required |-> (t.required \ j.vars) \cup j.required, footer |-> t.footer]
      BY <1>2, <2>1, <2>2
    <2>4. tpl' \in TplRows /\ tpl'.id = t.id
      BY <1>3, <1>4, <2>1, <2>2, <2>3 DEF TplRows
    <2>5. tpl'.required \subseteq tpl'.declared
      BY <1>3, <1>4, <2>1, <2>3
    <2> QED BY <2>1, <2>4, <2>5, NoneAssumption
  <1>6. PICK new : new = NewVersion(j)
    OBVIOUS
  <1>7. /\ new = [tpl |-> j.tpl, num |-> j.num, body |-> j.body, approved |-> FALSE, current |-> FALSE]
        /\ versions' = versions \cup {new} /\ \A v \in versions : ~(v.tpl = j.tpl /\ v.num = j.num)
    BY <1>2, <1>6 DEF NewVersion, Accepted, VersionsOf
  <1>8. /\ new.tpl = j.tpl /\ new.num = j.num /\ ~new.approved /\ ~new.current
        /\ new.approved \in BOOLEAN /\ new.current \in BOOLEAN
        /\ new = [tpl |-> new.tpl, num |-> new.num, body |-> new.body,
                  approved |-> new.approved, current |-> new.current]
    BY <1>7
  <1>9. /\ \A id : Exists(id)' <=> Exists(id)
        /\ \A id, n : Has(id, n)' <=> Has(id, n) \/ (id = j.tpl /\ n = j.num)
    BY <1>4, <1>5, <1>7, <1>8 DEF Exists, Has
  <1>10. \A v \in versions' : VersionOK(v)'
    <2>1. VersionOK(new)'
      BY <1>3, <1>8, <1>9 DEF VersionOK
    <2>2. ASSUME NEW v \in versions
          PROVE  VersionOK(v)'
      BY <1>9 DEF VersionOK, Store
    <2> QED BY <1>7, <2>1, <2>2
  <1>11. Numbered'
    <2>1. \A v, w \in versions' : v.tpl = w.tpl /\ v.num = w.num => v = w
      <3>1. \A v, w \in versions : v.tpl = w.tpl /\ v.num = w.num => v = w
        BY DEF Store, Numbered
      <3>2. \A v \in versions : ~(v.tpl = new.tpl /\ v.num = new.num)
        BY <1>7, <1>8
      <3>3. versions' = versions \cup {new}
        BY <1>7
      <3> QED BY <3>1, <3>2, <3>3
    <2>2. ASSUME NEW v \in versions', NEW n \in 1 .. v.num
          PROVE  Has(v.tpl, n)'
      <3>1. CASE v \in versions
        BY <1>9, <2>2, <3>1 DEF Store, Numbered
      <3>2. CASE v = new
        <4>1. n \in 1 .. (j.num - 1) \/ n = j.num
          BY <1>3, <1>8, <2>2, <3>2
        <4> QED BY <1>3, <1>8, <1>9, <3>2, <4>1
      <3> QED BY <1>7, <3>1, <3>2
    <2>3. \E top \in Nat : \A v \in versions' : v.num <= top
      <3>1. PICK top \in Nat : \A v \in versions : v.num <= top
        BY DEF Store, Numbered
      <3>2. PICK t \in Nat : top <= t /\ j.num <= t
        BY <1>3
      <3>3. \A v \in versions : v.num \in Nat
        BY DEF Store, VersionOK
      <3>4. \A v \in versions' : v.num <= t
        BY <1>7, <1>8, <3>1, <3>2, <3>3
      <3> QED BY <3>4
    <2> QED BY <2>1, <2>2, <2>3 DEF Numbered
  <1>12. \A l \in logs' : LogOK(l)'
    BY <1>2, <1>7 DEF Store, LogOK
  <1>13. \A m \in mail' : MailOK(m)'
    <2> SUFFICES ASSUME NEW m \in mail
                 PROVE  MailOK(m)'
      BY <1>2
    <2>1. MailOK(m)
      BY DEF Store
    <2>2. ~(m.tpl = j.tpl /\ m.tried = j.num)
      BY <1>3, <1>7, <2>1 DEF MailOK, Has
    <2> QED BY <1>2, <1>7, <1>8, <1>9, <2>1, <2>2 DEF MailOK
  <1>14. Store'
    BY <1>2, <1>4, <1>5, <1>10, <1>11, <1>12, <1>13 DEF Store, TplOK
  <1>15. Persists
    BY <1>2, <1>4, <1>9 DEF Persists, TplRows
  <1>16. j.num = MaxNum(j.tpl) + 1
    <2>1. MaxNum(j.tpl) \in Nat
      BY Numbers
    <2>2. ~(j.num <= MaxNum(j.tpl))
      <3> SUFFICES ASSUME j.num <= MaxNum(j.tpl)
                   PROVE  FALSE
        OBVIOUS
      <3>1. j.num \in 1 .. MaxNum(j.tpl)
        BY <1>3, <2>1
      <3> QED BY <1>7, <3>1, Dense DEF Has
    <2>3. ~(MaxNum(j.tpl) + 1 < j.num)
      <3> SUFFICES ASSUME MaxNum(j.tpl) + 1 \in 1 .. (j.num - 1)
                   PROVE  FALSE
        BY <1>3, <2>1
      <3>1. PICK v \in versions : v.tpl = j.tpl /\ v.num = MaxNum(j.tpl) + 1
        BY <1>3 DEF Has
      <3>2. v.num <= MaxNum(j.tpl)
        BY <3>1, Numbers DEF VersionsOf
      <3> QED BY <2>1, <3>1, <3>2
    <2> QED BY <1>3, <2>1, <2>2, <2>3
  <1>17. Takes(p)
    <2>1. job' = [job EXCEPT ![p] = Idle] /\ JobOK(Idle) /\ Idle.pc = "idle"
          /\ left' \in [{"tpl", "steps"} -> Nat]
      BY <1>2, AnswerIs
    <2>2. JobOK(Idle)'
      BY <1>15, <2>1, JobKept
    <2> QED BY <1>1, <1>2, <1>4, <1>5, <2>1, <2>2 DEF Takes, Requests
  <1> QED BY <1>1, <1>2, <1>7, <1>8, <1>14, <1>15, <1>16, <1>17

\* Versions get other marks: no approval is taken back.
Relabels ==
    /\ \A x \in versions' : VersionOK(x) /\ \E v \in versions : SameVersion(v, x) /\ (v.approved => x.approved)
    /\ \A v \in versions : \E x \in versions' : SameVersion(v, x)
    /\ \A v \in versions : \A x, y \in versions' : SameVersion(v, x) /\ SameVersion(v, y) => x = y

\* Markers of versions may change, as long as approvals stay and each version does.
LEMMA RelabelStores ==
    ASSUME Store, Relabels, UNCHANGED <<tpl, made, logs, mail, cut>>
    PROVE  Store' /\ Persists
  <1>1. \A id : Exists(id)' <=> Exists(id)
    BY DEF Exists
  <1>2. \A id, n : Has(id, n)' <=> Has(id, n)
    BY DEF Relabels, SameVersion, Has
  <1>3. \A v \in versions' : VersionOK(v)'
    BY <1>1 DEF Relabels, VersionOK
  <1>4. Numbered'
    <2>1. ASSUME NEW x \in versions', NEW y \in versions', x.tpl = y.tpl, x.num = y.num
          PROVE  x = y
      <3>1. PICK v \in versions, w \in versions : SameVersion(v, x) /\ SameVersion(w, y)
        BY DEF Relabels
      <3>2. v = w
        BY <2>1, <3>1 DEF SameVersion, Store, Numbered
      <3> QED BY <3>1, <3>2 DEF Relabels
    <2>2. ASSUME NEW x \in versions', NEW n \in 1 .. x.num
          PROVE  Has(x.tpl, n)'
      <3>1. PICK v \in versions : v.tpl = x.tpl /\ v.num = x.num
        BY DEF Relabels, SameVersion
      <3> QED BY <1>2, <2>2, <3>1 DEF Store, Numbered
    <2>3. \E top \in Nat : \A x \in versions' : x.num <= top
      BY DEF Relabels, SameVersion, Store, Numbered
    <2> QED BY <2>1, <2>2, <2>3 DEF Numbered
  <1>5. \A l \in logs' : LogOK(l)'
    <2> SUFFICES ASSUME NEW l \in logs
                 PROVE  LogOK(l)'
      OBVIOUS
    <2>1. PICK v \in versions : v.tpl = l.tpl /\ v.num = l.num /\ RenderEmailVersion(v.body, l.context)
      BY DEF Store, LogOK
    <2>2. PICK x \in versions' : SameVersion(v, x)
      BY DEF Relabels
    <2> QED BY <2>1, <2>2 DEF LogOK, SameVersion
  <1>6. \A m \in mail' : MailOK(m)'
    <2> SUFFICES ASSUME NEW m \in mail
                 PROVE  MailOK(m)'
      OBVIOUS
    <2>1. MailOK(m)
      BY DEF Store
    <2>2. ASSUME NEW x \in versions', x.tpl = m.tpl, x.num = m.tried
          PROVE  /\ m.why = "rendered" => x.approved
                 /\ m.why = "render" => ~RenderEmailVersion(x.body, m.context)
      <3>1. PICK v \in versions : SameVersion(v, x) /\ (v.approved => x.approved)
        BY DEF Relabels
      <3> QED BY <2>1, <2>2, <3>1 DEF MailOK, SameVersion
    <2> QED BY <1>1, <1>2, <2>1, <2>2 DEF MailOK
  <1>7. TplOK'
    BY DEF Store, TplOK
  <1> QED BY <1>1, <1>2, <1>3, <1>4, <1>5, <1>6, <1>7 DEF Store, TplOK, Persists

\* An approval goes on to its next statement.
LEMMA ApprovalGoesOn ==
    ASSUME Store, Requests, NEW p \in Procs, job[p].pc \in {"clear", "mark"}, Persists, UNCHANGED <<tpl, made, page>>,
           NEW pc \in {"mark", "activate"}, Goto(p, pc)
    PROVE  Takes(p) /\ job'[p].pc = pc /\ job'[p].tpl = job[p].tpl
  <1>1. PICK r : r = job[p]
    OBVIOUS
  <1>2. JobOK(r) /\ r = [pc |-> r.pc, tpl |-> r.tpl, num |-> r.num] /\ r.tpl \in 1 .. made
        /\ (Exists(r.tpl) => Has(r.tpl, r.num))
    BY <1>1 DEF Requests, JobOK, TplPcs
  <1>3. PICK j : j = [r EXCEPT !.pc = pc]
    OBVIOUS
  <1>4. j = [pc |-> pc, tpl |-> r.tpl, num |-> r.num]
    BY <1>2, <1>3
  <1>5. JobOK(j) /\ j.pc = pc /\ j.tpl = r.tpl
    BY <1>2, <1>4 DEF JobOK, TplPcs
  <1>6. JobOK(j)'
    BY <1>5, JobKept
  <1>7. job' = [job EXCEPT ![p] = j] /\ left' \in [{"tpl", "steps"} -> Nat]
    <2>1. "pc" \in DOMAIN job[p]
      BY <1>1, <1>2
    <2> QED BY <1>1, <1>3, <2>1, GotoIs
  <1>8. job'[p] = j
    BY <1>7 DEF Requests
  <1>9. j.pc \notin {"create", "renumber", "delete"} /\ job[p].pc \notin {"create", "renumber", "delete"}
    BY <1>5
  <1> QED BY <1>1, <1>5, <1>6, <1>7, <1>8, <1>9 DEF Takes, Requests

\* First statement of an approval: no version is current, and the process is to mark one.
LEMMA ClearSteps ==
    ASSUME Store, Requests, NEW p \in Procs, ClearCurrent(p)
    PROVE  /\ Store' /\ Persists /\ Takes(p)
           /\ cut' = cut /\ job[p].pc = "clear" /\ job'[p].pc = "mark" /\ job'[p].tpl = job[p].tpl
           /\ \A x \in versions' : \E v \in versions : SameVersion(v, x) /\ v.approved = x.approved
           /\ \A v \in versions : v.tpl # job[p].tpl => v \in versions'
           /\ \A v \in versions : \E x \in versions' : SameVersion(v, x)
  <1>1. PICK id : id = job[p].tpl
    OBVIOUS
  <1>2. /\ job[p].pc = "clear" /\ Goto(p, "mark") /\ UNCHANGED <<tpl, made, logs, mail, page, cut>>
        /\ versions' = {IF v.tpl = id THEN [v EXCEPT !.current = FALSE] ELSE v : v \in versions}
    BY <1>1 DEF ClearCurrent
  <1>3. ASSUME NEW v \in versions, NEW x, x = IF v.tpl = id THEN [v EXCEPT !.current = FALSE] ELSE v
        PROVE  VersionOK(x) /\ SameVersion(v, x) /\ v.approved = x.approved
    <2>1. VersionOK(v)
      BY DEF Store
    <2>2. PICK w : w = v
      OBVIOUS
    <2>3. CASE w.tpl = id
      <3>1. x = [tpl |-> w.tpl, num |-> w.num, body |-> w.body, approved |-> w.approved, current |-> FALSE]
        BY <1>3, <2>1, <2>2, <2>3 DEF VersionOK
      <3> QED BY <2>1, <2>2, <3>1 DEF VersionOK, SameVersion
    <2> QED BY <1>3, <2>1, <2>2, <2>3 DEF SameVersion
  <1> DEFINE F(v) == IF v.tpl = id THEN [v EXCEPT !.current = FALSE] ELSE v
  <1>4. \A v \in versions : VersionOK(F(v)) /\ SameVersion(v, F(v)) /\ v.approved = F(v).approved
    BY <1>3
  <1>5. versions' = {F(v) : v \in versions} /\ \A v \in versions : v.tpl # id => F(v) = v
    BY <1>2
  <1> HIDE DEF F
  <1>6. Relabels
    <2>1. ASSUME NEW v \in versions, NEW x \in versions', SameVersion(v, x)
          PROVE  x = F(v)
      <3>1. PICK w \in versions : x = F(w)
        BY <1>5
      <3>2. v = w
        BY <1>4, <2>1, <3>1 DEF SameVersion, Store, Numbered
      <3> QED BY <3>1, <3>2
    <2> QED BY <1>4, <1>5, <2>1 DEF Relabels
  <1>7. Store' /\ Persists
    BY <1>2, <1>6, RelabelStores
  <1>8. Takes(p) /\ job'[p].pc = "mark" /\ job'[p].tpl = job[p].tpl
    BY <1>2, <1>7, ApprovalGoesOn
  <1> QED BY <1>1, <1>2, <1>4, <1>5, <1>7, <1>8

\* Second statement: the version the approval was for is current again.
LEMMA MarkSteps ==
    ASSUME Store, Requests, NEW p \in Procs, MarkCurrent(p)
    PROVE  /\ Store' /\ Persists /\ Takes(p)
           /\ cut' = cut /\ job[p].pc = "mark" /\ job'[p].pc = "activate"
           /\ \E x \in versions' : x.tpl = job[p].tpl /\ x.current
           /\ \A x \in versions' : \E v \in versions : SameVersion(v, x)
           /\ \A v \in versions : v.tpl # job[p].tpl => v \in versions'
           /\ \A x \in versions' : x.tpl # job[p].tpl => x \in versions
           /\ \A v \in versions : \E x \in versions' : SameVersion(v, x)
  <1>1. PICK j : j = job[p]
    OBVIOUS
  <1>2. /\ j.pc = "mark" /\ Goto(p, "activate") /\ UNCHANGED <<tpl, made, logs, mail, page, cut>>
        /\ Marked(j) # {} /\ Marked(j) \subseteq versions
        /\ versions' = {IF v \in Marked(j) THEN [v EXCEPT !.approved = TRUE, !.current = TRUE] ELSE v
                        : v \in versions}
    BY <1>1 DEF MarkCurrent, Marked
  <1>3. ASSUME NEW v \in versions, NEW x,
               x = IF v \in Marked(j) THEN [v EXCEPT !.approved = TRUE, !.current = TRUE] ELSE v
        PROVE  VersionOK(x) /\ SameVersion(v, x) /\ (v.approved => x.approved)
               /\ (v \in Marked(j) => x.current)
    <2>1. VersionOK(v)
      BY DEF Store
    <2>2. PICK w : w = v
      OBVIOUS
    <2>3. CASE w \in Marked(j)
      <3>1. x = [tpl |-> w.tpl, num |-> w.num, body |-> w.body, approved |-> TRUE, current |-> TRUE]
        BY <1>3, <2>1, <2>2, <2>3 DEF VersionOK
      <3> QED BY <2>1, <2>2, <3>1 DEF VersionOK, SameVersion
    <2> QED BY <1>3, <2>1, <2>2, <2>3 DEF SameVersion
  <1> DEFINE F(v) == IF v \in Marked(j) THEN [v EXCEPT !.approved = TRUE, !.current = TRUE] ELSE v
  <1>4. \A v \in versions : VersionOK(F(v)) /\ SameVersion(v, F(v)) /\ (v.approved => F(v).approved)
                            /\ (v \in Marked(j) => F(v).current)
    BY <1>3
  <1>5. versions' = {F(v) : v \in versions} /\ \A v \in versions : v.tpl # j.tpl => F(v) = v
    BY <1>2 DEF Marked
  <1> HIDE DEF F
  <1>6. Relabels
    <2>1. ASSUME NEW v \in versions, NEW x \in versions', SameVersion(v, x)
          PROVE  x = F(v)
      <3>1. PICK w \in versions : x = F(w)
        BY <1>5
      <3>2. v = w
        BY <1>4, <2>1, <3>1 DEF SameVersion, Store, Numbered
      <3> QED BY <3>1, <3>2
    <2> QED BY <1>4, <1>5, <2>1 DEF Relabels
  <1>7. Store' /\ Persists
    BY <1>2, <1>6, RelabelStores
  <1>8. Takes(p) /\ job'[p].pc = "activate" /\ job'[p].tpl = job[p].tpl
    BY <1>1, <1>2, <1>7, ApprovalGoesOn
  <1>9. \E x \in versions' : x.tpl = j.tpl /\ x.current
    <2>1. PICK v \in Marked(j) : v \in versions /\ v.tpl = j.tpl
      BY <1>2 DEF Marked
    <2> QED BY <1>4, <1>5, <2>1 DEF SameVersion
  <1>10. \A x \in versions' : x.tpl # j.tpl => x \in versions
    BY <1>4, <1>5 DEF SameVersion
  <1> QED BY <1>1, <1>2, <1>4, <1>5, <1>7, <1>8, <1>9, <1>10

\* The last statement of a request: its process is idle again.
LEMMA AnswerTakes ==
    ASSUME Store, Requests, NEW p \in Procs, Answer(p), Persists, UNCHANGED <<made, page>>,
           job[p].pc \notin {"create", "renumber", "delete"},
           (tpl = None) <=> (tpl' = None), tpl # None => tpl'.id = tpl.id
    PROVE  Takes(p)
  <1>1. job' = [job EXCEPT ![p] = Idle] /\ JobOK(Idle) /\ Idle.pc = "idle"
        /\ left' \in [{"tpl", "steps"} -> Nat]
    BY AnswerIs
  <1>2. JobOK(Idle)'
    BY <1>1, JobKept
  <1> QED BY <1>1, <1>2 DEF Takes, Requests

\* Third statement: the template, if it is still there, is active.
LEMMA ActivateSteps ==
    ASSUME Store, Requests, NEW p \in Procs, Activate(p)
    PROVE  Store' /\ Persists /\ Takes(p) /\ job[p].pc = "activate" /\ UNCHANGED <<versions, cut>>
  <1>1. /\ job[p].pc = "activate" /\ Answer(p) /\ UNCHANGED <<made, versions, logs, mail, page, cut>>
        /\ tpl' = IF Exists(job[p].tpl) THEN [tpl EXCEPT !.active = TRUE] ELSE tpl
    BY DEF Activate
  <1>2. /\ TplOK' /\ made \in Nat
        /\ (tpl = None) <=> (tpl' = None)
        /\ tpl # None => tpl'.id = tpl.id
    <2>1. CASE tpl = None
      BY <1>1, <2>1 DEF Exists, Store, TplOK
    <2>2. CASE tpl # None
      <3>1. PICK t : t = tpl
        OBVIOUS
      <3>2. t \in TplRows /\ t.id = made /\ t.required \subseteq t.declared
        BY <2>2, <3>1, TplIs
      <3>3. t = [id |-> t.id, active |-> t.active, declared |-> t.declared, required |-> t.required,
                 footer |-> t.footer] /\ t.id \in Nat \ {0} /\ t.active \in BOOLEAN
            /\ t.declared \in SUBSET Vars /\ t.required \in SUBSET Vars /\ t.footer \in Footers
        BY <3>2 DEF TplRows
      <3>4. \/ tpl' = t
            \/ tpl' = [id |-> t.id, active |-> TRUE, declared |-> t.declared, required |-> t.required,
                       footer |-> t.footer]
        BY <1>1, <3>1, <3>3
      <3>5. PICK u : u = tpl'
        OBVIOUS
      <3>6. u.id = t.id /\ u.required = t.required /\ u.declared = t.declared
        BY <3>3, <3>4, <3>5
      <3>7. u \in TplRows
        <4>1. CASE tpl' = t
          BY <3>2, <3>5, <4>1
        <4>2. CASE u = [id |-> t.id, active |-> TRUE, declared |-> t.declared, required |-> t.required,
                        footer |-> t.footer]
          BY <3>3, <4>2 DEF TplRows
        <4> QED BY <3>4, <3>5, <4>1, <4>2
      <3>8. tpl' # None /\ made \in 0 .. MaxTemplates
        BY <3>5, <3>7, NoneAssumption DEF Store, TplOK
      <3>9. TplOK'
        BY <1>1, <3>1, <3>2, <3>5, <3>6, <3>7, <3>8 DEF TplOK
      <3> QED BY <2>2, <3>1, <3>5, <3>6, <3>8, <3>9
    <2> QED BY <2>1, <2>2
  <1>3. (\A id : Exists(id)' <=> Exists(id)) /\ \A id, n : Has(id, n)' = Has(id, n)
    BY <1>1, <1>2 DEF Exists, Has
  <1>4. \A v \in versions' : VersionOK(v)'
    BY <1>1, <1>3 DEF Store, VersionOK
  <1>5. Numbered'
    BY <1>1 DEF Store, Numbered, Has
  <1>6. \A l \in logs' : LogOK(l)'
    BY <1>1 DEF Store, LogOK
  <1>7. \A m \in mail' : MailOK(m)'
    BY <1>1, <1>3 DEF Store, MailOK
  <1>8. Store' /\ Persists
    BY <1>1, <1>2, <1>3, <1>4, <1>5, <1>6, <1>7 DEF Store, Persists
  <1> QED BY <1>1, <1>2, <1>8, AnswerTakes

\* A preview is logged, and what it says of its version is so.
LEMMA PreviewSteps ==
    ASSUME Store, Requests, NEW p \in Procs, NEW context, Preview(p, context)
    PROVE  Store' /\ Persists /\ Takes(p) /\ job[p].pc = "idle" /\ UNCHANGED <<versions, cut>>
  <1>1. PICK l : l = [tpl |-> tpl.id, num |-> MaxNum(tpl.id), context |-> context]
    OBVIOUS
  <1>2. /\ tpl # None /\ VersionsOf(tpl.id) # {} /\ RenderEmailVersion(LatestBody(tpl.id), context)
        /\ logs' = logs \cup {l} /\ Request(p, "tpl", Idle)
        /\ UNCHANGED <<tpl, made, versions, mail, page, cut>>
    BY <1>1 DEF Preview, Begin
  <1>3. LogOK(l)
    <2>1. Latest(tpl.id) \in VersionsOf(tpl.id)
      BY <1>2, Numbers
    <2>2. MaxNum(tpl.id) = Latest(tpl.id).num /\ LatestBody(tpl.id) = Latest(tpl.id).body
      BY <1>2 DEF MaxNum, LatestBody
    <2> QED BY <1>1, <1>2, <2>1, <2>2 DEF LogOK, VersionsOf
  <1>4. \A k \in logs' : LogOK(k)'
    BY <1>2, <1>3 DEF Store, LogOK
  <1>5. (\A id : Exists(id)' = Exists(id)) /\ \A id, n : Has(id, n)' = Has(id, n)
    BY <1>2 DEF Exists, Has
  <1>6. /\ TplOK' /\ Numbered' /\ made \in Nat
        /\ (\A v \in versions' : VersionOK(v)') /\ \A m \in mail' : MailOK(m)'
    BY <1>2, <1>5 DEF Store, TplOK, Numbered, VersionOK, MailOK
  <1>7. Store' /\ Persists
    BY <1>2, <1>4, <1>5, <1>6 DEF Store, Persists
  <1>8. job[p].pc = "idle" /\ job' = [job EXCEPT ![p] = Idle] /\ left' \in [{"tpl", "steps"} -> Nat]
    <2>1. "tpl" \in {"tpl", "steps"}
      OBVIOUS
    <2> QED BY <1>2, <2>1, RequestIs
  <1>9. JobOK(Idle)' /\ Idle.pc = "idle"
    BY DEF Idle, JobOK, TplPcs
  <1> QED BY <1>2, <1>7, <1>8, <1>9 DEF Takes, Requests

\* A message is made, or fails: what it says of its version is so.
LEMMA MailSteps ==
    ASSUME Store, Requests, NEW p \in Procs, (Validate(p) /\ mail' # mail) \/ Render(p)
    PROVE  /\ Store' /\ Persists /\ Takes(p) /\ UNCHANGED <<versions, cut>>
           /\ job[p].pc \in {"validate", "render"}
  <1>1. PICK j : j = job[p]
    OBVIOUS
  <1>2. /\ j.pc \in {"validate", "render"} /\ Answer(p) /\ UNCHANGED <<tpl, made, versions, logs, page, cut>>
    BY <1>1 DEF Validate, Render
  <1>3. j.tpl \in 1 .. made
    BY <1>1, <1>2 DEF Requests, JobOK, TplPcs
  <1>4. ASSUME NEW m, m.tpl = j.tpl, m.tried = 0, m.why \notin {"rendered", "render"}
        PROVE  MailOK(m)
    BY <1>3, <1>4 DEF MailOK
  <1>5. ASSUME NEW m, m.tpl = j.tpl, m.tried = CurrentNum(j.tpl), m.tried # 0,
               m.why = "render" => ~RenderEmailVersion(BodyOf(j.tpl, m.tried), m.context)
        PROVE  MailOK(m)
    <2>1. PICK v \in versions : v.tpl = j.tpl /\ v.num = m.tried /\ v.current
      BY <1>5, Current DEF VersionsOf
    <2>2. v.approved /\ \A w \in versions : w.tpl = v.tpl /\ w.num = v.num => w = v
      BY <2>1 DEF Store, VersionOK, Numbered
    <2>3. BodyOf(j.tpl, m.tried) = v.body
      BY <2>1, Bodies
    <2> QED BY <1>3, <1>5, <2>1, <2>2, <2>3 DEF MailOK, Has
  <1>6. PICK new : mail' = mail \cup {new} /\ MailOK(new)
    <2>1. CASE Validate(p) /\ mail' # mail
      <3>1. mail' = mail \cup {Message(j, 0, "variables")}
        BY <1>1, <2>1 DEF Validate
      <3>2. PICK m : m = Message(j, 0, "variables")
        OBVIOUS
      <3>3. m.tpl = j.tpl /\ m.tried = 0 /\ m.why = "variables"
        BY <3>2 DEF Message
      <3> QED BY <1>4, <3>1, <3>2, <3>3
    <2>2. CASE Render(p)
      <3> DEFINE num == CurrentNum(j.tpl)
                 why == IF num = 0 THEN "unapproved"
                        ELSE IF ~RenderEmailVersion(BodyOf(j.tpl, num), j.context)
                        THEN "render"
                        ELSE IF ~(tpl.footer \subseteq j.context) THEN "footer" ELSE "rendered"
      <3>1. mail' = mail \cup {Message(j, num, why)}
        BY <1>1, <2>2, Zenon DEF Render
      <3>2. PICK m : m = Message(j, num, why)
        OBVIOUS
      <3>3. m.tpl = j.tpl /\ m.tried = num /\ m.why = why /\ m.context = j.context
        BY <3>2, Zenon DEF Message
      <3>4. CASE num = 0
        BY <1>4, <3>1, <3>2, <3>3, <3>4
      <3>5. CASE num # 0
        <4>1. m.why = "render" => ~RenderEmailVersion(BodyOf(j.tpl, num), j.context)
          BY <3>3, <3>5
        <4>2. m.tried = CurrentNum(j.tpl)
          BY <3>3
        <4> HIDE DEF num, why
        <4>3. MailOK(m)
          BY <1>5, <3>3, <3>5, <4>1, <4>2
        <4> QED BY <3>1, <3>2, <4>3
      <3> QED BY <3>4, <3>5
    <2> QED BY <2>1, <2>2
  <1>7. (\A id : Exists(id)' = Exists(id)) /\ \A id, n : Has(id, n)' = Has(id, n)
    BY <1>2 DEF Exists, Has
  <1>8. /\ TplOK' /\ Numbered' /\ made \in Nat
        /\ (\A v \in versions' : VersionOK(v)') /\ \A l \in logs' : LogOK(l)'
    BY <1>2, <1>7 DEF Store, TplOK, Numbered, VersionOK, LogOK
  <1>9. \A m \in mail' : MailOK(m)'
    BY <1>2, <1>6, <1>7 DEF Store, MailOK
  <1>10. Store' /\ Persists
    BY <1>2, <1>7, <1>8, <1>9 DEF Store, Persists
  <1>11. Takes(p)
    <2>1. job[p].pc \notin {"create", "renumber", "delete"}
      BY <1>1, <1>2
    <2> QED BY <1>2, <1>10, <2>1, AnswerTakes
  <1> QED BY <1>1, <1>2, <1>10, <1>11

\* The template goes with all that is its own.
LEMMA RemoveStores ==
    ASSUME Store, Requests, NEW p \in Procs, RemoveTemplate(p)
    PROVE  /\ Store' /\ Persists /\ versions' \subseteq versions /\ cut' = cut /\ made' = made
           /\ \A v, w \in versions : v \in versions' /\ w.tpl = v.tpl => w \in versions'
  <1>1. PICK id : id = job[p].tpl
    OBVIOUS
  <1>2. /\ tpl' = IF Exists(id) THEN None ELSE tpl
        /\ versions' = versions \ VersionsOf(id)
        /\ logs' = {l \in logs : l.tpl # id}
        /\ UNCHANGED <<made, mail, cut>>
    BY <1>1 DEF RemoveTemplate, Deleted
  <1>3. made \in Nat /\ TplOK'
    BY <1>2 DEF Store, TplOK
  <1>4. CASE Exists(id)
    <2>1. \A v \in versions : v.tpl = id
      BY <1>4 DEF Store, VersionOK, Exists
    <2>2. versions' = {} /\ tpl' = None
      BY <1>2, <1>4, <2>1 DEF VersionsOf
    <2>3. logs' = {}
      BY <1>2, <2>1 DEF Store, LogOK
    <2>4. \A m \in mail' : MailOK(m)'
      BY <1>2, <2>2 DEF Store, MailOK, Exists
    <2>5. Store'
      BY <1>2, <1>3, <2>2, <2>3, <2>4 DEF Store, Numbered
    <2> QED BY <1>2, <1>3, <2>2, <2>5 DEF Persists, Exists
  <1>5. CASE ~Exists(id)
    <2>1. \A v \in versions : v.tpl # id
      BY <1>5 DEF Store, VersionOK
    <2>2. versions' = versions /\ tpl' = tpl
      BY <1>2, <1>5, <2>1 DEF VersionsOf
    <2>3. logs' = logs
      BY <1>2, <2>1 DEF Store, LogOK
    <2>4. Calm
      BY <1>2, <2>2, <2>3 DEF Calm
    <2> QED BY <1>2, <2>2, <2>4, CalmKeeps
  <1> QED BY <1>4, <1>5

\* A process stops: an approval is cut, all else is as it was.
LEMMA DieStores ==
    ASSUME Store, Requests, NEW p \in Procs, Die(p)
    PROVE  /\ Store' /\ Persists /\ UNCHANGED <<tpl, made, versions>> /\ cut \subseteq cut'
           /\ job[p].pc = "mark" => job[p].tpl \in cut'
  <1>1. /\ UNCHANGED <<tpl, made, versions, logs, mail>> /\ made \in Nat
        /\ cut' = IF job[p].pc = "mark" THEN cut \cup {job[p].tpl} ELSE cut
    BY DEF Die, Store, TplOK
  <1>2. job[p].pc = "mark" => job[p].tpl \in 1 .. made
    BY DEF Requests, JobOK, TplPcs
  <1>3. (\A id : Exists(id)' = Exists(id)) /\ \A id, n : Has(id, n)' = Has(id, n)
    BY <1>1 DEF Exists, Has
  <1>4. /\ TplOK' /\ Numbered' /\ \A v \in versions' : VersionOK(v)'
        /\ (\A m \in mail' : MailOK(m)') /\ \A l \in logs' : LogOK(l)'
    BY <1>1, <1>3 DEF Store, TplOK, Numbered, VersionOK, MailOK, LogOK
  <1>5. cut' \subseteq 1 .. made' /\ cut \subseteq cut' /\ (job[p].pc = "mark" => job[p].tpl \in cut')
    BY <1>1, <1>2 DEF Store
  <1>6. Store'
    BY <1>4, <1>5 DEF Store
  <1>7. Persists
    BY <1>1, <1>3 DEF Persists
  <1> QED BY <1>1, <1>5, <1>6, <1>7

----------------------------------------------------------------------------
(* The template's requests keep the invariant                              *)

\* Nobody leaves the statements between which a template has no current version.
MarkersStay == \A q \in Procs : \A id : Marking(q, id) => Marking(q, id)'

\* Approvals that stand between two statements are not touched by another process.
LEMMA OthersMark ==
    ASSUME Requests, NEW p \in Procs, NEW j, job' = [job EXCEPT ![p] = j], job[p].pc # "mark"
    PROVE  MarkersStay
  BY DEF Requests, MarkersStay, Marking

\* Approved versions come from approved ones, and a current one stays.
LEMMA CurrentKept ==
    ASSUME CurrentInv, MarkersStay, cut \subseteq cut',
           \A x \in versions' : x.approved => \E v \in versions : v.tpl = x.tpl /\ v.approved,
           \A x \in versions', v \in versions :
              v.tpl = x.tpl /\ v.current => \E y \in versions' : y.tpl = v.tpl /\ y.current
    PROVE  CurrentInv'
  <1> SUFFICES ASSUME NEW x \in versions', x.approved, x.tpl \notin cut'
               PROVE  \/ \E y \in versions' : y.tpl = x.tpl /\ y.current
                      \/ \E q \in Procs : Marking(q, x.tpl)'
    BY DEF CurrentInv
  <1>1. PICK v \in versions : v.tpl = x.tpl /\ v.approved
    OBVIOUS
  <1>2. CASE \E w \in versions : w.tpl = v.tpl /\ w.current
    BY <1>1, <1>2
  <1>3. CASE \E q \in Procs : Marking(q, v.tpl)
    BY <1>1, <1>3 DEF MarkersStay
  <1> QED BY <1>1, <1>2, <1>3 DEF CurrentInv

\* A request that comes in, goes on or is answered leaves all requests in order.
LEMMA TakesRequests ==
    ASSUME Requests, Persists, NEW p \in Procs, Takes(p)
    PROVE  Requests' /\ (job[p].pc # "mark" => MarkersStay)
  <1>1. PICK j : job' = [job EXCEPT ![p] = j] /\ JobOK(j)'
    BY DEF Takes
  <1>2. DOMAIN page' = Procs /\ left' \in [{"tpl", "steps"} -> Nat]
    BY DEF Takes
  <1> QED BY <1>1, <1>2, RequestsKept, OthersMark

\* Every row is where it was.
Placed == (\A s \in steps : Still(s)') /\ (\A x \in steps' : Still(x))

\* Executions and copies that nobody touches: they are judged as before, or overtaken.
LEMMA RunsKept ==
    ASSUME Workflow, UNCHANGED <<exec, orphaned>>, Edited \/ (UNCHANGED sweepVars /\ (steps' = steps \/ Placed)),
           collided' \in {"", "move", "delete"}, \A s \in steps : HasRow(s.id)',
           raced' \cup unkeyed' \subseteq 1 .. MaxSteps
    PROVE  Runs'
  <1>1. \A id : HasRow(id) => HasRow(id)'
    BY DEF HasRow
  <1>2. /\ UNCHANGED <<sweep, sent>> /\ DOMAIN sweep = Copies
        /\ overtaken' = overtaken \cup Swept \/ overtaken' = overtaken
    BY DEF Edited, sweepVars, Workflow, Runs
  <1>3. ASSUME NEW e \in Execs
        PROVE  ExecOK(e)'
    BY <1>1, <1>2 DEF Workflow, Runs, ExecOK
  <1>4. \A c \in Copies : SweptOK(c)'
    BY <1>2 DEF Workflow, Runs, SweptOK
  <1>5. \A c \in Copies : sweep[c] # Idle => sweep[c].exec \in Execs
    BY DEF Workflow, Runs, SweptOK, CopyOK
  <1>6. Judgements'
    <2>1. CASE Edited
      BY <1>2, <2>1 DEF Edited, Swept, Judgements
    <2>2. CASE overtaken' = overtaken /\ (steps' = steps \/ Placed)
      <3>1. ASSUME NEW s, Still(s)
            PROVE  Still(s)'
        <4>1. PICK t \in steps : t.id = s.id /\ t.order = s.order /\ t.type = s.type
          BY <3>1 DEF Still
        <4>2. t \in steps' \/ Still(t)'
          BY <2>2 DEF Placed
        <4> QED BY <4>1, <4>2 DEF Still
      <3>2. ASSUME NEW h, \A t \in steps : t.order <= h.step.order
            PROVE  \A t \in steps' : t.order <= h.step.order
        BY <2>2, <3>2 DEF Placed, Still
      <3>3. ASSUME NEW h, Fresh(h)
            PROVE  Fresh(h)'
        BY <3>1, <3>2, <3>3 DEF Fresh, Judged
      <3>4. Judgements
        BY DEF Workflow, Runs
      <3> QED BY <1>2, <2>2, <3>3, <3>4 DEF Judgements
    <2> QED BY <2>1, <2>2 DEF sweepVars
  <1>7. orphaned' \cup overtaken' \subseteq Execs
    BY <1>2, <1>5 DEF Swept, Workflow, Runs
  <1> QED BY <1>2, <1>3, <1>4, <1>6, <1>7 DEF Workflow, Runs

\* The workflow does not notice.
LEMMA TakesWorkflow ==
    ASSUME Store, Requests, Workflow, NEW p \in Procs, Takes(p), UNCHANGED stepVars
    PROVE  Workflow'
  <1>1. /\ UNCHANGED <<steps, exec, sent, sweep, raced, unkeyed, orphaned, overtaken, collided>>
        /\ UNCHANGED sweepVars
    BY DEF stepVars, editVars, sweepVars
  <1>2. PICK j : job' = [job EXCEPT ![p] = j] /\ j.pc \notin {"create", "renumber", "delete"}
    BY DEF Takes
  <1>3. /\ job[p].pc \notin {"create", "renumber", "delete"}
        /\ \A q \in Procs : q # p => job'[q] = job[q]
        /\ job'[p].pc \notin {"create", "renumber", "delete"}
    BY <1>2 DEF Takes, Requests
  <1>4. made \in Nat
    BY DEF Store, TplOK
  <1>5. \A id \in 1 .. made : Exists(id)' => Exists(id)
    BY <1>4, TplIs DEF Takes, Exists
  <1>6. \A id : Exists(id) => Exists(id)'
    BY DEF Takes, Exists
  <1>7. Rows' /\ (\A id : HasRow(id)' = HasRow(id))
    BY <1>1 DEF Workflow, Rows, HasRow
  <1>8. \A s \in steps' : StepOK(s)'
    BY <1>1, <1>6 DEF Workflow, StepOK
  <1>9. Hands'
    <2>1. \A q \in Procs : job'[q].pc \in {"create", "renumber"} => q # p /\ job'[q] = job[q]
      BY <1>3
    <2> QED BY <1>7, <2>1 DEF Workflow, Hands
  <1>10. GuardInv'
    <2>1. \A q \in Procs : job'[q].pc = "delete" => q # p /\ job'[q] = job[q]
      BY <1>3
    <2>2. \A q \in Procs : job[q].pc = "delete" => job[q].tpl \in 1 .. made
      BY DEF Requests, JobOK, TplPcs
    <2> QED BY <1>1, <1>5, <2>1, <2>2 DEF Workflow, GuardInv, Keyed
  <1>11. SendStepsResolve'
    <2> SUFFICES ASSUME NEW s \in steps, s.type = "send", ~Resolves(s)', s.id \notin raced \cup unkeyed
                 PROVE  s.key > made'
      BY <1>1 DEF SendStepsResolve
    <2>1. (s.tpl # None \/ s.key # 0) /\ (s.tpl = None \/ Exists(s.tpl)')
      BY <1>6 DEF Workflow, StepOK
    <2>2. tpl' = None
      BY <2>1 DEF Resolves, Exists
    <2>3. tpl = None /\ made' = made
      BY <2>2 DEF Takes
    <2> QED BY <2>3 DEF Workflow, SendStepsResolve, Resolves, Exists
  <1>12. Runs'
    BY <1>1, <1>7, RunsKept DEF Workflow, Runs, HasRow
  <1> QED BY <1>7, <1>8, <1>9, <1>10, <1>11, <1>12 DEF Workflow

\* Every action of a template page keeps the invariant.
LEMMA TplSteps ==
    ASSUME IInv, NEW p \in Procs, TplActions(p), UNCHANGED stepVars
    PROVE  IInv'
  <1> USE DEF IInv
  <1>1. ASSUME Store', Persists, Takes(p), CurrentInv'
        PROVE  IInv'
    BY <1>1, TakesRequests, TakesWorkflow
  <1>2. ASSUME Store', Persists, Takes(p), job[p].pc # "mark", cut' = cut, versions' = versions
        PROVE  IInv'
    <2>1. MarkersStay
      BY <1>2, TakesRequests
    <2>2. CurrentInv'
      BY <1>2, <2>1, CurrentKept
    <2> QED BY <1>1, <1>2, <2>2
  <1>3. ASSUME Calm, Takes(p), job[p].pc # "mark"
        PROVE  IInv'
    <2>1. Store' /\ Persists /\ cut' = cut /\ versions' = versions
      BY <1>3, CalmKeeps DEF Calm
    <2> QED BY <1>2, <1>3, <2>1
  <1>4. CASE TemplateNew(p) \/ TemplateGenerate(p)
    <2>1. CASE TemplateGenerate(p) /\ UNCHANGED <<tpl, made>>
      BY <1>3, <2>1, ReadingSteps
    <2>2. CASE CreateTemplate
      <3>1. PICK r : /\ Request(p, "tpl", r) /\ (r = Idle \/ r = Asked(tpl'.id, TRUE))
                     /\ UNCHANGED <<versions, logs, mail, page, cut>>
        BY <1>4 DEF TemplateNew, TemplateGenerate, Begin
      <3> QED BY <1>2, <2>2, <3>1, TemplateSteps
    <2> QED BY <1>4, <2>1, <2>2 DEF TemplateNew, TemplateGenerate
  <1>5. CASE \/ TemplateDetail(p) \/ VersionCreate(p) \/ TemplateSetup(p) \/ TemplateRevise(p)
             \/ Approve(p) \/ \E context \in SUBSET Vars : SendTemplate(p, context)
    <2>1. Calm /\ Takes(p) /\ job[p].pc = "idle"
      BY <1>5, ReadingSteps
    <2> QED BY <1>3, <2>1
  <1>6. CASE \/ DraftArrives(p) \/ RevisionArrives(p) \/ LlmFails(p) \/ InsertFails(p)
             \/ Validate(p) /\ UNCHANGED mail
    <2>1. Calm /\ Takes(p)
      BY <1>6, WaitingSteps
    <2>2. job[p].pc # "mark"
      BY <1>6 DEF DraftArrives, RevisionArrives, LlmFails, InsertFails, Validate
    <2> QED BY <1>3, <2>1, <2>2
  <1>7. CASE MarkFails(p)
    <2>1. Calm /\ Takes(p)
      BY <1>7, WaitingSteps
    <2>2. Store' /\ Persists /\ cut' = cut /\ versions' = versions
      BY <2>1, CalmKeeps DEF Calm
    <2>3. CurrentInv'
      <3> SUFFICES ASSUME NEW v \in versions, v.approved, v.tpl \notin cut
                   PROVE  \/ \E w \in versions : w.tpl = v.tpl /\ w.current
                          \/ \E q \in Procs : Marking(q, v.tpl)'
        BY <2>2 DEF CurrentInv
      <3>1. job[p].pc = "mark" /\ JobOK(job[p])
        BY <1>7 DEF MarkFails, Requests
      <3>2. CASE v.tpl = job[p].tpl
        <4>1. Exists(v.tpl)
          BY DEF Store, VersionOK
        <4>2. Marked(job[p]) # {}
          BY <3>1, <3>2, <4>1 DEF JobOK, Has, Marked
        <4> QED BY <1>7, <3>2, <4>2 DEF MarkFails, VersionsOf
      <3>3. CASE v.tpl # job[p].tpl
        <4>1. PICK j : job' = [job EXCEPT ![p] = j]
          BY <2>1 DEF Takes
        <4>2. ASSUME NEW q \in Procs, Marking(q, v.tpl)
              PROVE  Marking(q, v.tpl)'
          BY <3>3, <4>1, <4>2 DEF Marking, Requests
        <4> QED BY <4>2 DEF CurrentInv
      <3> QED BY <3>2, <3>3
    <2> QED BY <1>1, <2>1, <2>2, <2>3
  <1>8. CASE InsertVersion(p) \/ InsertDraft(p)
    <2>1. /\ Store' /\ Persists /\ Takes(p) /\ job[p].pc \in {"insert", "generate"}
          /\ versions \subseteq versions' /\ cut' = cut
          /\ \A v \in versions' \ versions : ~v.approved
      BY <1>8, InsertSteps
    <2>2. MarkersStay
      BY <2>1, TakesRequests
    <2>3. CurrentInv'
      BY <2>1, <2>2, CurrentKept
    <2> QED BY <1>1, <2>1, <2>3
  <1>9. CASE ClearCurrent(p)
    <2>1. /\ Store' /\ Persists /\ Takes(p)
          /\ cut' = cut /\ job[p].pc = "clear" /\ job'[p].pc = "mark" /\ job'[p].tpl = job[p].tpl
          /\ \A x \in versions' : \E v \in versions : SameVersion(v, x) /\ v.approved = x.approved
          /\ \A v \in versions : v.tpl # job[p].tpl => v \in versions'
      BY <1>9, ClearSteps
    <2>2. MarkersStay
      BY <2>1, TakesRequests
    <2>3. CurrentInv'
      <3> SUFFICES ASSUME NEW x \in versions', x.approved, x.tpl \notin cut
                   PROVE  \/ \E y \in versions' : y.tpl = x.tpl /\ y.current
                          \/ \E q \in Procs : Marking(q, x.tpl)'
        BY <2>1 DEF CurrentInv
      <3>1. CASE x.tpl = job[p].tpl
        BY <2>1, <3>1 DEF Marking
      <3>2. CASE x.tpl # job[p].tpl
        <4>1. PICK v \in versions : v.tpl = x.tpl /\ v.approved
          BY <2>1 DEF SameVersion
        <4>2. CASE \E w \in versions : w.tpl = x.tpl /\ w.current
          BY <2>1, <3>2, <4>2
        <4>3. CASE \E q \in Procs : Marking(q, x.tpl)
          BY <2>2, <4>3 DEF MarkersStay
        <4> QED BY <4>1, <4>2, <4>3 DEF CurrentInv
      <3> QED BY <3>1, <3>2
    <2> QED BY <1>1, <2>1, <2>3
  <1>10. CASE MarkCurrent(p)
    <2>1. /\ Store' /\ Persists /\ Takes(p)
          /\ cut' = cut /\ job[p].pc = "mark" /\ job'[p].pc = "activate"
          /\ \E x \in versions' : x.tpl = job[p].tpl /\ x.current
          /\ \A v \in versions : v.tpl # job[p].tpl => v \in versions'
          /\ \A x \in versions' : x.tpl # job[p].tpl => x \in versions
      BY <1>10, MarkSteps
    <2>2. CurrentInv'
      <3> SUFFICES ASSUME NEW x \in versions', x.approved, x.tpl \notin cut, x.tpl # job[p].tpl
                   PROVE  \/ \E y \in versions' : y.tpl = x.tpl /\ y.current
                          \/ \E q \in Procs : Marking(q, x.tpl)'
        BY <2>1 DEF CurrentInv
      <3>1. x \in versions
        BY <2>1
      <3>2. CASE \E w \in versions : w.tpl = x.tpl /\ w.current
        BY <2>1, <3>2
      <3>3. ASSUME NEW q \in Procs, Marking(q, x.tpl)
            PROVE  Marking(q, x.tpl)'
        <4>1. PICK j : job' = [job EXCEPT ![p] = j]
          BY <2>1 DEF Takes
        <4> QED BY <3>3, <4>1 DEF Marking, Requests
      <3> QED BY <3>1, <3>2, <3>3 DEF CurrentInv
    <2> QED BY <1>1, <2>1, <2>2
  <1>11. CASE Activate(p)
    BY <1>2, <1>11, ActivateSteps
  <1>12. CASE \E context \in SUBSET Vars : Preview(p, context)
    BY <1>2, <1>12, PreviewSteps
  <1>13. CASE (Validate(p) /\ mail' # mail) \/ Render(p)
    <2>1. /\ Store' /\ Persists /\ Takes(p) /\ UNCHANGED <<versions, cut>>
          /\ job[p].pc \in {"validate", "render"}
      BY <1>13, MailSteps
    <2> QED BY <1>2, <2>1
  <1> HIDE DEF IInv
  <1> USE DEF OperatorTemplateNew, OperatorTemplateDetail, OperatorVersionCreate, StudioGenerate,
              OperatorRevise, ApiRevise, OperatorApprove, ApiApprove, OperatorPreview, ApiPreview
  <1> QED BY <1>4, <1>5, <1>6, <1>7, <1>8, <1>9, <1>10, <1>11, <1>12, <1>13 DEF TplActions

----------------------------------------------------------------------------
(* The steps of the workflow's requests                                    *)

\* A request of the workflow leaves the template alone.
Serves(p, j) ==
    /\ Calm /\ page' = page /\ left' \in [{"tpl", "steps"} -> Nat]
    /\ job' = [job EXCEPT ![p] = j] /\ JobOK(j) /\ job[p].pc # "mark"

\* A step's request leaves the template and the other requests alone.
LEMMA ServesKeeps ==
    ASSUME IInv, NEW p \in Procs, NEW j, Serves(p, j)
    PROVE  /\ Store' /\ CurrentInv' /\ Requests'
           /\ \A q \in Procs : job'[q] = IF q = p THEN j ELSE job[q]
           /\ (\A id : Exists(id)' <=> Exists(id)) /\ UNCHANGED <<tpl, made>>
  <1>1. Store' /\ Persists
    BY CalmKeeps DEF IInv, Serves
  <1>2. JobOK(j)'
    BY <1>1, JobKept DEF Serves
  <1>3. DOMAIN page' = Procs
    BY DEF Serves, IInv, Requests
  <1>4. Requests'
    BY <1>1, <1>2, <1>3, RequestsKept DEF Serves, IInv
  <1>5. MarkersStay
    BY OthersMark DEF Serves, IInv
  <1>6. CurrentInv'
    BY <1>5, CurrentKept DEF Serves, Calm, IInv
  <1>7. \A q \in Procs : job'[q] = IF q = p THEN j ELSE job[q]
    BY DEF Serves, IInv, Requests
  <1> QED BY <1>1, <1>4, <1>6, <1>7 DEF Serves, Calm, Exists

\* A request that goes on keeps the step it has in hand.
LEMMA HandsKept ==
    ASSUME Workflow, NEW p \in Procs, NEW j, j.pc \notin {"create", "renumber"},
           \A q \in Procs : job'[q] = IF q = p THEN j ELSE job[q],
           \A q \in Procs : q # p /\ job[q].pc = "create" => ~HasRow(job[q].step)',
           \A q \in Procs : q # p /\ job[q].pc = "renumber" => HasRow(job[q].step)'
    PROVE  Hands'
  BY DEF Workflow, Hands

\* A guard that looked has seen the rows there are, in whatever order, and new
\* ones are known.
LEMMA GuardKept ==
    ASSUME IInv, NEW p \in Procs, NEW j, j.pc # "delete",
           \A q \in Procs : job'[q] = IF q = p THEN j ELSE job[q],
           \A id : Exists(id)' => Exists(id),
           \A x \in steps' : \/ \A q \in Procs : q # p => job[q].pc # "delete"
                             \/ x.tpl = None /\ ~Keyed(x)
                             \/ x.id \in raced'
                             \/ \E s \in steps : /\ x.id = s.id /\ x.tpl = s.tpl
                                                 /\ Keyed(x) <=> Keyed(s)
                                                 /\ s.id \in raced => s.id \in raced'
    PROVE  GuardInv'
  <1>1. ASSUME NEW q \in Procs, job'[q].pc = "delete", Exists(job[q].tpl)',
               NEW x \in steps', x.tpl = job'[q].tpl \/ Keyed(x)
        PROVE  x.id \in raced'
    <2>1. q # p /\ job'[q] = job[q] /\ job[q].pc = "delete"
      BY <1>1
    <2>2. Exists(job[q].tpl)
      BY <1>1, <2>1
    <2>3. job[q].tpl # None
      <3>1. job[q].tpl \in 1 .. made
        BY <2>1 DEF IInv, Requests, JobOK, TplPcs
      <3> QED BY <3>1, StudioAssumption
    <2>4. ASSUME NEW s \in steps, x.id = s.id, x.tpl = s.tpl, Keyed(x) <=> Keyed(s)
          PROVE  s.id \in raced
      BY <1>1, <2>1, <2>2, <2>4 DEF IInv, Workflow, GuardInv
    <2> QED BY <1>1, <2>1, <2>3, <2>4
  <1> QED BY <1>1 DEF GuardInv, Keyed

\* The rows stay, and so does all that is true of them.
LEMMA RowsRest ==
    ASSUME IInv, NEW p \in Procs, NEW j, Serves(p, j), UNCHANGED <<steps, raced, unkeyed>>, Runs',
           Hands', GuardInv'
    PROVE  IInv'
  <1>1. /\ Store' /\ CurrentInv' /\ Requests' /\ (\A id : Exists(id)' <=> Exists(id))
        /\ UNCHANGED <<tpl, made>>
    BY ServesKeeps
  <1>2. Rows' /\ (\A s \in steps' : StepOK(s)')
    BY <1>1 DEF IInv, Workflow, Rows, StepOK
  <1>3. SendStepsResolve'
    BY <1>1 DEF IInv, Workflow, SendStepsResolve, Resolves
  <1> QED BY <1>1, <1>2, <1>3 DEF IInv, Workflow

\* A request that comes to have no row in hand, nor a guard that looked.
LEMMA RowsRestQuietly ==
    ASSUME IInv, NEW p \in Procs, NEW j, Serves(p, j), UNCHANGED <<steps, raced, unkeyed>>, Runs',
           j.pc \notin {"create", "renumber", "delete"}
    PROVE  IInv'
  <1>1. /\ \A q \in Procs : job'[q] = IF q = p THEN j ELSE job[q]
        /\ \A id : Exists(id)' <=> Exists(id)
    BY ServesKeeps
  <1>2. \A id : HasRow(id)' = HasRow(id)
    BY DEF HasRow
  <1>3. Hands'
    BY <1>1, <1>2 DEF IInv, Workflow, Hands
  <1>4. GuardInv'
    BY <1>1 DEF IInv, Workflow, GuardInv, Keyed
  <1> QED BY <1>3, <1>4, RowsRest

\* What a form's template comes to.
LEMMA Targets ==
    ASSUME Store, NEW type \in Types
    PROVE  TargetOK(type, Target(type)) /\ TargetOK(type, NoTarget)
  <1>1. tpl # None => tpl.id \in Nat /\ tpl.id # None
    BY TplIs, StudioAssumption DEF TplRows
  <1> QED BY <1>1 DEF TargetOK, Target, NoTarget

\* A step's request comes in.
LEMMA RequestServes ==
    ASSUME IInv, NEW p \in Procs, NEW kind \in {"tpl", "steps"}, NEW r, Request(p, kind, r),
           UNCHANGED tplVars, JobOK(r)
    PROVE  Serves(p, r) /\ job[p].pc = "idle"
  BY RequestIs DEF IInv, Serves, Calm, tplVars

\* A step's request ends.
LEMMA AnswerServes ==
    ASSUME IInv, NEW p \in Procs, Answer(p), UNCHANGED tplVars, job[p].pc # "mark"
    PROVE  Serves(p, Idle) /\ Idle.pc = "idle"
  BY AnswerIs DEF IInv, Serves, Calm, tplVars

\* A form for a new step came in: its id is one that neither a row nor a request has.
LEMMA AddSteps ==
    ASSUME IInv, NEW p \in Procs, NEW type \in Types, NEW order \in 0 .. MaxOrder,
           NEW target \in {Target(type), NoTarget}, AddStep(p, type, order, target)
    PROVE  IInv'
  <1>1. PICK r : r = [pc |-> "create", step |-> Min(UnusedIds), type |-> type, order |-> order,
                      target |-> target]
    OBVIOUS
  <1>2. UnusedIds # {} /\ Request(p, "steps", r) /\ UNCHANGED tplVars /\ UNCHANGED stepVars
    BY <1>1 DEF AddStep
  <1>3. r.step \in UnusedIds
    <2>1. UnusedIds \subseteq Nat
      BY DEF UnusedIds
    <2>2. \E x \in UnusedIds : \A y \in UnusedIds : x <= y
      BY <1>2, <2>1, Least
    <2>3. Min(UnusedIds) \in UnusedIds
      BY <2>2 DEF Min
    <2> QED BY <1>1, <2>3
  <1>4. r.step \in 1 .. MaxSteps /\ ~HasRow(r.step) /\ \A q \in Procs : job[q].pc = "create" => job[q].step # r.step
    <2>1. \A q \in Procs : job[q].pc = "create" => job[q].step \in RefersTo(job[q])
      BY DEF RefersTo
    <2> QED BY <1>3, <2>1 DEF UnusedIds
  <1>5. r.pc = "create" /\ r.type = type /\ r.order = order /\ order \in Nat /\ TargetOK(type, r.target)
    BY <1>1, Targets, StepsAssumption DEF IInv
  <1>6. JobOK(r)
    BY <1>4, <1>5 DEF JobOK, TplPcs
  <1>7. Serves(p, r)
    BY <1>2, <1>6, RequestServes
  <1>8. \A q \in Procs : job'[q] = IF q = p THEN r ELSE job[q]
    BY <1>7, ServesKeeps
  <1>9. \A id : HasRow(id)' = HasRow(id)
    BY <1>2 DEF HasRow, stepVars
  <1>10. Hands'
    <2>1. \A q \in Procs : job'[q].pc = "create" => ~HasRow(job'[q].step)
      BY <1>4, <1>8 DEF IInv, Workflow, Hands
    <2>2. \A q \in Procs : job'[q].pc = "renumber" => HasRow(job'[q].step)
      BY <1>5, <1>8 DEF IInv, Workflow, Hands
    <2>3. \A q, s \in Procs : job'[q].pc \in {"create", "renumber"} /\ job'[s].pc = job'[q].pc
                              /\ job'[q].step = job'[s].step => q = s
      BY <1>4, <1>5, <1>8 DEF IInv, Workflow, Hands
    <2> QED BY <1>2, <2>1, <2>2, <2>3 DEF Hands, HasRow, stepVars
  <1>11. GuardInv'
    <2>1. \A id : Exists(id)' <=> Exists(id)
      BY <1>7, ServesKeeps
    <2> QED BY <1>2, <1>5, <1>8, <2>1 DEF IInv, Workflow, GuardInv, Keyed, stepVars, editVars
  <1>12. Runs'
    BY <1>2, <1>9, RunsKept DEF IInv, Workflow, Runs, HasRow, stepVars, editVars
  <1> QED BY <1>2, <1>7, <1>10, <1>11, <1>12, RowsRest DEF stepVars, editVars

\* A form for a step came in: it lists the rows as they are now, if the step is to move.
LEMMA UpdateSteps ==
    ASSUME IInv, NEW p \in Procs, NEW s \in steps, NEW type \in Types, NEW order \in 0 .. MaxOrder,
           UpdateStep(p, s.id, type, order)
    PROVE  IInv'
  <1>1. PICK here \in BOOLEAN : here <=> order = Row(s.id).order
    OBVIOUS
  <1>2. PICK r : r = [pc |-> IF here THEN "save" ELSE "move",
                      step |-> s.id, type |-> type, order |-> order, target |-> Target(type),
                      list |-> IF here THEN <<>> ELSE Ordered(steps)]
    OBVIOUS
  <1>3. Request(p, "steps", r) /\ UNCHANGED tplVars /\ UNCHANGED stepVars
    BY <1>1, <1>2 DEF UpdateStep
  <1>4. r.step = s.id /\ r.type = type /\ r.order = order /\ TargetOK(type, r.target)
        /\ order \in Nat /\ s.id \in 1 .. MaxSteps
    BY <1>2, Targets, StepsAssumption DEF IInv, Workflow, Rows, StepRows
  <1>5. CASE here
    <2>1. r = [pc |-> "save", step |-> r.step, type |-> r.type, order |-> r.order,
               target |-> r.target, list |-> r.list] /\ r.pc = "save"
      BY <1>2, <1>5
    <2>2. JobOK(r)
      BY <1>4, <2>1 DEF JobOK, TplPcs
    <2> QED BY <1>3, <2>1, <2>2, RequestServes, RowsRestQuietly, RunsKept DEF stepVars, editVars, IInv, Workflow, Runs, HasRow
  <1>6. CASE ~here
    <2>1. r = [pc |-> "move", step |-> r.step, type |-> r.type, order |-> r.order,
               target |-> r.target, list |-> r.list] /\ r.pc = "move" /\ r.list = Ordered(steps)
      BY <1>2, <1>6
    <2>2. Listed(r.list) /\ \E i \in DOMAIN r.list : r.list[i] = s
      BY <2>1, OrderedLists DEF IInv, Workflow, Rows
    <2>3. JobOK(r)
      BY <1>4, <2>1, <2>2 DEF JobOK, TplPcs
    <2> QED BY <1>3, <2>1, <2>3, RequestServes, RowsRestQuietly, RunsKept DEF stepVars, editVars, IInv, Workflow, Runs, HasRow
  <1> QED BY <1>1, <1>5, <1>6

\* template_delete's guard has looked: no row needs the template.
LEMMA GuardSteps ==
    ASSUME IInv, NEW p \in Procs, TemplateDelete(p)
    PROVE  IInv'
  <1>1. PICK r : r = [pc |-> "delete", tpl |-> tpl.id]
    OBVIOUS
  <1>2. tpl # None /\ ~StepsReferenceTemplate /\ Request(p, "tpl", r) /\ UNCHANGED tplVars /\ UNCHANGED stepVars
    BY <1>1 DEF TemplateDelete, Begin
  <1>3. r.pc = "delete" /\ r.tpl = tpl.id
    BY <1>1
  <1>4. JobOK(r)
    BY <1>2, <1>3, TplIs DEF JobOK, TplPcs, IInv
  <1>5. Serves(p, r)
    BY <1>2, <1>4, RequestServes
  <1>6. (\A q \in Procs : job'[q] = IF q = p THEN r ELSE job[q]) /\ \A id : Exists(id)' <=> Exists(id)
    BY <1>5, ServesKeeps
  <1>7. GuardInv'
    BY <1>2, <1>3, <1>6 DEF IInv, Workflow, GuardInv, Keyed, stepVars, editVars, StepsReferenceTemplate
  <1>8. \A id : HasRow(id)' <=> HasRow(id)
    BY <1>2 DEF HasRow, stepVars
  <1>9. Hands'
    BY <1>3, <1>6, <1>8, HandsKept DEF IInv, Workflow, Hands
  <1>10. Runs'
    BY <1>2, <1>8, RunsKept DEF stepVars, editVars, IInv, Workflow, Runs, HasRow
  <1> QED BY <1>2, <1>5, <1>7, <1>9, <1>10, RowsRest DEF stepVars, editVars

\* A step is to be deleted: the others are listed, and no other request deletes it.
LEMMA DeleteSteps ==
    ASSUME IInv, NEW p \in Procs, NEW id, DeleteStep(p, id)
    PROVE  IInv'
  <1>1. PICK r : r = [pc |-> "renumber", step |-> id, list |-> Ordered(steps \ {Row(id)})]
    OBVIOUS
  <1>2. HasRow(id) /\ Free(id) /\ Request(p, "steps", r) /\ UNCHANGED tplVars /\ UNCHANGED stepVars
    BY <1>1 DEF DeleteStep
  <1>3. r.pc = "renumber" /\ r.step = id /\ id \in 1 .. MaxSteps
    BY <1>1, <1>2 DEF HasRow, IInv, Workflow, Rows, StepRows
  <1>4. Listed(r.list)
    <2>1. /\ steps \ {Row(id)} \subseteq StepRows
          /\ \A s, t \in steps \ {Row(id)} : s.id = t.id \/ s.order = t.order => s = t
      BY DEF IInv, Workflow, Rows
    <2> QED BY <1>1, <2>1, OrderedLists
  <1>5. JobOK(r)
    BY <1>3, <1>4 DEF JobOK, TplPcs
  <1>6. Serves(p, r)
    BY <1>2, <1>5, RequestServes
  <1>7. (\A q \in Procs : job'[q] = IF q = p THEN r ELSE job[q]) /\ \A i : Exists(i)' <=> Exists(i)
    BY <1>6, ServesKeeps
  <1>8. \A i : HasRow(i)' = HasRow(i)
    BY <1>2 DEF HasRow, stepVars
  <1>9. Hands'
    <2>1. \A q \in Procs : job'[q].pc = "create" => ~HasRow(job'[q].step)
      BY <1>3, <1>7 DEF IInv, Workflow, Hands
    <2>2. \A q \in Procs : job'[q].pc = "renumber" => HasRow(job'[q].step)
      BY <1>2, <1>3, <1>7 DEF IInv, Workflow, Hands
    <2>3. \A q, s \in Procs : job'[q].pc \in {"create", "renumber"} /\ job'[s].pc = job'[q].pc
                              /\ job'[q].step = job'[s].step => q = s
      BY <1>2, <1>3, <1>7 DEF IInv, Workflow, Hands, Free
    <2> QED BY <1>2, <2>1, <2>2, <2>3 DEF Hands, HasRow, stepVars
  <1>10. GuardInv'
    BY <1>2, <1>3, <1>7 DEF IInv, Workflow, GuardInv, Keyed, stepVars, editVars
  <1>11. Runs'
    BY <1>2, <1>8, RunsKept DEF stepVars, editVars, IInv, Workflow, Runs, HasRow
  <1> QED BY <1>2, <1>6, <1>9, <1>10, <1>11, RowsRest DEF stepVars, editVars

\* Requests that fail, and what a constraint made of them.
LEMMA FailingSteps ==
    ASSUME IInv, NEW p \in Procs,
           CreateFails(p) \/ MoveFails(p) \/ SaveFails(p) \/ RenumberFails(p)
    PROVE  IInv'
  <1>1. /\ job[p].pc \in {"create", "move", "save", "renumber"} /\ Answer(p) /\ UNCHANGED tplVars
        /\ UNCHANGED <<steps, exec, raced, unkeyed, orphaned, sweepVars>>
        /\ collided' = collided \/ collided' \in {"move", "delete"}
    BY DEF CreateFails, MoveFails, SaveFails, RenumberFails, stepVars, editVars
  <1>2. Serves(p, Idle) /\ Idle.pc = "idle"
    BY <1>1, AnswerServes
  <1>3. Runs'
    BY <1>1, RunsKept DEF IInv, Workflow, Runs, HasRow
  <1> QED BY <1>1, <1>2, <1>3, RowsRestQuietly

AsMarked(i) == (i \in raced' <=> i \in raced) /\ (i \in unkeyed' <=> i \in unkeyed)

\* A row that is saved: it finds its template, or is one of those that need not.
LEMMA SavedRow ==
    ASSUME IInv, NEW p \in Procs, job[p].pc \in {"create", "save"}, NEW order \in Nat, Noted(job[p]),
           LinkHolds(job[p].target), NEW row, row = Made(job[p], order)
    PROVE  /\ row \in StepRows /\ row.id = job[p].step /\ row.order = order
           /\ raced' \cup unkeyed' \subseteq 1 .. MaxSteps
           /\ row.tpl = None \/ Exists(row.tpl)
           /\ IF row.type = "send" THEN row.tpl # None \/ row.key # 0 \/ row.id \in unkeyed'
              ELSE row.tpl = None /\ row.key = 0
           /\ row.type = "send" /\ ~Resolves(row) => row.id \in unkeyed' \/ row.key > made
           /\ \/ \A q \in Procs : q # p => job[q].pc # "delete"
              \/ row.tpl = None /\ ~Keyed(row)
              \/ row.id \in raced'
           /\ \A i : i # row.id => AsMarked(i)
  <1>1. PICK j : j = job[p]
    OBVIOUS
  <1>2. /\ j.step \in 1 .. MaxSteps /\ j.type \in Types /\ TargetOK(j.type, j.target)
        /\ made \in Nat /\ raced \cup unkeyed \subseteq 1 .. MaxSteps
    <2>1. JobOK(j) /\ j.pc \in {"create", "save"}
      BY <1>1 DEF IInv, Requests
    <2>2. made \in Nat
      BY DEF IInv, Store, TplOK
    <2>3. raced \cup unkeyed \subseteq 1 .. MaxSteps
      BY DEF IInv, Workflow, Runs
    <2> QED BY <2>1, <2>2, <2>3 DEF JobOK
  <1>3. row = [id |-> j.step, order |-> order, type |-> j.type, tpl |-> j.target.tpl,
               key |-> IF j.target.key THEN made + 1 ELSE 0]
    BY <1>1 DEF Made
  <1>4. row.id = j.step /\ row.order = order /\ row.type = j.type /\ row.tpl = j.target.tpl
        /\ row.key = IF j.target.key THEN made + 1 ELSE 0
    BY <1>3
  <1>5. /\ j.target.tpl \in {None} \cup Nat /\ j.target.key \in BOOLEAN
        /\ j.type # "send" => j.target.tpl = None /\ ~j.target.key
        /\ j.target.tpl = None /\ ~j.target.key => j.target = NoTarget
    <2>1. j.target = [tpl |-> j.target.tpl, key |-> j.target.key]
      BY <1>2 DEF TargetOK
    <2>2. /\ j.target.tpl \in {None} \cup Nat /\ j.target.key \in BOOLEAN
          /\ j.type # "send" => j.target = NoTarget
      BY <1>2 DEF TargetOK
    <2>3. NoTarget.tpl = None /\ NoTarget.key = FALSE
      BY DEF NoTarget
    <2>4. ASSUME j.target.tpl = None, ~j.target.key
          PROVE  j.target = NoTarget
      <3>1. j.target.key = FALSE
        BY <2>2, <2>4
      <3> QED BY <2>1, <2>4, <3>1 DEF NoTarget
    <2> QED BY <2>2, <2>3, <2>4
  <1>6. row \in StepRows
    <2>1. row.key \in Nat /\ made + 1 # 0
      BY <1>2, <1>4, <1>5
    <2> QED BY <1>2, <1>3, <1>4, <1>5, <2>1 DEF StepRows
  <1>7. row.tpl = None \/ (Exists(row.tpl) /\ tpl # None)
    BY <1>1, <1>4 DEF LinkHolds, Exists
  <1>8. /\ raced' = IF j.type = "send" /\ GuardLooked THEN raced \cup {j.step} ELSE raced \ {j.step}
        /\ unkeyed' = IF j.type = "send" /\ j.target = NoTarget
                      THEN unkeyed \cup {j.step} ELSE unkeyed \ {j.step}
    BY <1>1 DEF Noted
  <1>9. CASE j.target.tpl = None /\ ~j.target.key
    <2>1. row.type = "send" => row.id \in unkeyed'
      BY <1>4, <1>5, <1>8, <1>9
    <2>2. row.tpl = None /\ row.key = 0 /\ ~Keyed(row)
      BY <1>4, <1>9 DEF Keyed
    <2> QED BY <1>1, <1>2, <1>4, <1>6, <1>8, <2>1, <2>2 DEF AsMarked
  <1>10. CASE j.target.tpl # None \/ j.target.key
    <2>1. row.type = "send"
      BY <1>4, <1>5, <1>10
    <2>2. made + 1 # 0 /\ made + 1 > made
      BY <1>2
    <2>3. row.tpl # None \/ (row.key = made + 1 /\ row.key # 0)
      BY <1>4, <1>10, <2>2
    <2>4. Resolves(row) \/ row.key > made
      BY <1>7, <2>2, <2>3 DEF Resolves
    <2>5. \/ \A q \in Procs : q # p => job[q].pc # "delete"
          \/ row.id \in raced'
      BY <1>4, <1>8, <2>1 DEF GuardLooked
    <2> QED BY <1>1, <1>2, <1>4, <1>6, <1>7, <1>8, <2>1, <2>3, <2>4, <2>5 DEF AsMarked
  <1> QED BY <1>9, <1>10

\* A new row: id and place are its own, and its template is there or was kept by key.
LEMMA CreateSteps ==
    ASSUME IInv, NEW p \in Procs, CreateStep(p)
    PROVE  IInv'
  <1>1. PICK row : row = Made(job[p], job[p].order)
    OBVIOUS
  <1>2. /\ job[p].pc = "create" /\ ~Taken(job[p].order) /\ LinkHolds(job[p].target) /\ Noted(job[p])
        /\ steps' = steps \cup {row} /\ collided' = "" /\ Answer(p)
        /\ UNCHANGED tplVars /\ UNCHANGED <<exec, orphaned>> /\ Edited
    BY <1>1 DEF CreateStep
  <1>3. job[p].order \in Nat
    BY <1>2 DEF IInv, Requests, JobOK
  <1>4. /\ row \in StepRows /\ row.id = job[p].step /\ row.order = job[p].order
        /\ raced' \cup unkeyed' \subseteq 1 .. MaxSteps
        /\ row.tpl = None \/ Exists(row.tpl)
        /\ IF row.type = "send" THEN row.tpl # None \/ row.key # 0 \/ row.id \in unkeyed'
           ELSE row.tpl = None /\ row.key = 0
        /\ row.type = "send" /\ ~Resolves(row) => row.id \in unkeyed' \/ row.key > made
        /\ \/ \A q \in Procs : q # p => job[q].pc # "delete"
           \/ row.tpl = None /\ ~Keyed(row)
           \/ row.id \in raced'
        /\ \A i : i # row.id => AsMarked(i)
    <2>1. PICK order \in Nat : order = job[p].order
      BY <1>3
    <2>2. row = Made(job[p], order) /\ job[p].pc \in {"create", "save"}
      BY <1>1, <1>2, <2>1
    <2>3. Noted(job[p]) /\ LinkHolds(job[p].target)
      BY <1>2
    <2>4. /\ row \in StepRows /\ row.id = job[p].step /\ row.order = order
          /\ raced' \cup unkeyed' \subseteq 1 .. MaxSteps
          /\ row.tpl = None \/ Exists(row.tpl)
          /\ IF row.type = "send" THEN row.tpl # None \/ row.key # 0 \/ row.id \in unkeyed'
             ELSE row.tpl = None /\ row.key = 0
          /\ row.type = "send" /\ ~Resolves(row) => row.id \in unkeyed' \/ row.key > made
      BY <2>2, <2>3, SavedRow
    <2>5. /\ \/ \A q \in Procs : q # p => job[q].pc # "delete"
             \/ row.tpl = None /\ ~Keyed(row)
             \/ row.id \in raced'
          /\ \A i : i # row.id => AsMarked(i)
      BY <2>2, <2>3, SavedRow
    <2> QED BY <2>1, <2>4, <2>5
  <1>5. \A s \in steps : s.id # row.id /\ s.order # row.order /\ AsMarked(s.id)
    BY <1>2, <1>4 DEF IInv, Workflow, Hands, HasRow, Taken
  <1>6. Serves(p, Idle) /\ Idle.pc = "idle"
    BY <1>2, AnswerServes
  <1>7. /\ Store' /\ CurrentInv' /\ Requests'
        /\ \A q \in Procs : job'[q] = IF q = p THEN Idle ELSE job[q]
        /\ (\A id : Exists(id)' <=> Exists(id)) /\ UNCHANGED <<tpl, made>>
    BY <1>6, ServesKeeps
  <1>8. Rows'
    <2>1. \A s, t \in steps : s.id = t.id \/ s.order = t.order => s = t
      BY DEF IInv, Workflow, Rows
    <2>2. steps' \subseteq StepRows
      BY <1>2, <1>4 DEF IInv, Workflow, Rows
    <2>3. \A s, t \in steps' : s.id = t.id \/ s.order = t.order => s = t
      BY <1>2, <1>5, <2>1
    <2> QED BY <2>2, <2>3 DEF Rows
  <1>9. \A s \in steps' : StepOK(s)'
    <2>1. StepOK(row)'
      BY <1>4, <1>7 DEF StepOK
    <2>2. \A s \in steps : StepOK(s)'
      BY <1>5, <1>7 DEF IInv, Workflow, StepOK, AsMarked
    <2> QED BY <1>2, <2>1, <2>2
  <1>10. SendStepsResolve'
    <2>1. \A s \in steps : Resolves(s)' = Resolves(s)
      BY <1>7 DEF Resolves, Exists
    <2>2. Resolves(row)' = Resolves(row)
      BY <1>7 DEF Resolves, Exists
    <2> QED BY <1>2, <1>4, <1>5, <1>7, <2>1, <2>2 DEF IInv, Workflow, SendStepsResolve, AsMarked
  <1>11. \A id : HasRow(id)' <=> HasRow(id) \/ id = row.id
    BY <1>2 DEF HasRow
  <1>12. Hands'
    <2>1. \A q \in Procs : q # p /\ job[q].pc = "create" => ~HasRow(job[q].step)'
      BY <1>2, <1>4, <1>7, <1>11 DEF IInv, Workflow, Hands
    <2>2. \A q \in Procs : q # p /\ job[q].pc = "renumber" => HasRow(job[q].step)'
      BY <1>7, <1>11 DEF IInv, Workflow, Hands
    <2>3. Idle.pc \notin {"create", "renumber"}
      BY <1>6
    <2> QED BY <1>7, <2>1, <2>2, <2>3, HandsKept DEF IInv
  <1>13. GuardInv'
    <2>1. \A x \in steps' : \/ \A q \in Procs : q # p => job[q].pc # "delete"
                            \/ x.tpl = None /\ ~Keyed(x)
                            \/ x.id \in raced'
                            \/ \E s \in steps : /\ x.id = s.id /\ x.tpl = s.tpl
                                                /\ Keyed(x) <=> Keyed(s)
                                                /\ s.id \in raced => s.id \in raced'
      BY <1>2, <1>4, <1>5 DEF AsMarked
    <2>2. Idle.pc # "delete"
      BY <1>6
    <2> QED BY <1>7, <2>1, <2>2, GuardKept
  <1>14. Runs'
    <2>1. \A s \in steps : HasRow(s.id)'
      BY <1>2 DEF HasRow
    <2> QED BY <1>2, <1>4, <2>1, RunsKept DEF IInv
  <1> QED BY <1>7, <1>8, <1>9, <1>10, <1>12, <1>13, <1>14 DEF IInv, Workflow

\* A row is saved over the one it was loaded from, in the place that one has.
LEMMA SaveSteps ==
    ASSUME IInv, NEW p \in Procs, SaveStep(p)
    PROVE  IInv'
  <1>1. PICK old : old = Row(job[p].step)
    OBVIOUS
  <1>2. PICK row : row = Made(job[p], old.order)
    OBVIOUS
  <1>3. /\ job[p].pc = "save" /\ HasRow(job[p].step) /\ LinkHolds(job[p].target) /\ Noted(job[p])
        /\ steps' = (steps \ {old}) \cup {row} /\ Answer(p)
        /\ UNCHANGED tplVars /\ UNCHANGED <<exec, orphaned, collided>> /\ Edited
    BY <1>1, <1>2 DEF SaveStep
  <1>4. old \in steps /\ old.id = job[p].step /\ old.order \in Nat
    BY <1>1, <1>3 DEF HasRow, Row, IInv, Workflow, Rows, StepRows
  <1>5. /\ row \in StepRows /\ row.id = job[p].step /\ row.order = old.order
        /\ raced' \cup unkeyed' \subseteq 1 .. MaxSteps
        /\ row.tpl = None \/ Exists(row.tpl)
        /\ IF row.type = "send" THEN row.tpl # None \/ row.key # 0 \/ row.id \in unkeyed'
           ELSE row.tpl = None /\ row.key = 0
        /\ row.type = "send" /\ ~Resolves(row) => row.id \in unkeyed' \/ row.key > made
        /\ \/ \A q \in Procs : q # p => job[q].pc # "delete"
           \/ row.tpl = None /\ ~Keyed(row)
           \/ row.id \in raced'
        /\ \A i : i # row.id => AsMarked(i)
    BY <1>2, <1>3, <1>4, SavedRow
  <1>6. \A s, t \in steps : s.id = t.id \/ s.order = t.order => s = t
    BY DEF IInv, Workflow, Rows
  <1>7. \A s \in steps \ {old} : s.id # row.id /\ s.order # row.order /\ AsMarked(s.id)
    BY <1>4, <1>5, <1>6
  <1>8. Serves(p, Idle) /\ Idle.pc = "idle"
    BY <1>3, AnswerServes
  <1>9. /\ Store' /\ CurrentInv' /\ Requests'
        /\ \A q \in Procs : job'[q] = IF q = p THEN Idle ELSE job[q]
        /\ (\A id : Exists(id)' <=> Exists(id)) /\ UNCHANGED <<tpl, made>>
    BY <1>8, ServesKeeps
  <1>10. Rows'
    <2>1. steps' \subseteq StepRows
      BY <1>3, <1>5 DEF IInv, Workflow, Rows
    <2>2. \A s, t \in steps' : s.id = t.id \/ s.order = t.order => s = t
      BY <1>3, <1>6, <1>7
    <2> QED BY <2>1, <2>2 DEF Rows
  <1>11. \A s \in steps' : StepOK(s)'
    <2>1. StepOK(row)'
      BY <1>5, <1>9 DEF StepOK
    <2>2. \A s \in steps \ {old} : StepOK(s)'
      BY <1>7, <1>9 DEF IInv, Workflow, StepOK, AsMarked
    <2> QED BY <1>3, <2>1, <2>2
  <1>12. SendStepsResolve'
    <2>1. \A s \in steps : Resolves(s)' = Resolves(s)
      BY <1>9 DEF Resolves, Exists
    <2>2. Resolves(row)' = Resolves(row)
      BY <1>9 DEF Resolves, Exists
    <2> QED BY <1>3, <1>5, <1>7, <1>9, <2>1, <2>2 DEF IInv, Workflow, SendStepsResolve, AsMarked
  <1>13. \A id : HasRow(id)' <=> HasRow(id)
    BY <1>3, <1>4, <1>5 DEF HasRow
  <1>14. Hands'
    <2>1. \A q \in Procs : q # p /\ job[q].pc = "create" => ~HasRow(job[q].step)'
      BY <1>9, <1>13 DEF IInv, Workflow, Hands
    <2>2. \A q \in Procs : q # p /\ job[q].pc = "renumber" => HasRow(job[q].step)'
      BY <1>9, <1>13 DEF IInv, Workflow, Hands
    <2>3. Idle.pc \notin {"create", "renumber"}
      BY <1>8
    <2> QED BY <1>9, <2>1, <2>2, <2>3, HandsKept DEF IInv
  <1>15. GuardInv'
    <2>1. \A x \in steps' : \/ \A q \in Procs : q # p => job[q].pc # "delete"
                            \/ x.tpl = None /\ ~Keyed(x)
                            \/ x.id \in raced'
                            \/ \E s \in steps : /\ x.id = s.id /\ x.tpl = s.tpl
                                                /\ Keyed(x) <=> Keyed(s)
                                                /\ s.id \in raced => s.id \in raced'
      BY <1>3, <1>5, <1>7 DEF AsMarked
    <2>2. Idle.pc # "delete"
      BY <1>8
    <2> QED BY <1>9, <2>1, <2>2, GuardKept
  <1>16. Runs'
    <2>1. \A s \in steps : HasRow(s.id)'
      BY <1>13 DEF HasRow
    <2>2. collided' \in {"", "move", "delete"}
      BY <1>3 DEF IInv, Workflow, Runs
    <2> QED BY <1>3, <1>5, <2>1, <2>2, RunsKept DEF IInv
  <1> QED BY <1>9, <1>10, <1>11, <1>12, <1>14, <1>15, <1>16 DEF IInv, Workflow

\* The same step, wherever it stands.
Alike(s, x) == s.id = x.id /\ s.type = x.type /\ s.tpl = x.tpl /\ s.key = x.key

Apart(rows) == rows \subseteq StepRows /\ \A s, t \in rows : s.id = t.id \/ s.order = t.order => s = t

Reordering(rows, moved) ==
    /\ Apart(moved)
    /\ \A x \in moved : \E s \in rows : Alike(s, x)
    /\ \A s \in rows : \E x \in moved : Alike(s, x)

\* Renumbering that meets no clash changes orders only.
LEMMA Reorders ==
    ASSUME NEW rows, Apart(rows), NEW list, Listed(list), Renumbered(rows, list) # Clash
    PROVE  Reordering(rows, Renumbered(rows, list))
  <1>1. ASSUME NEW s \in rows, NEW x, x = [s EXCEPT !.order = x.order]
        PROVE  Alike(s, x)
    <2>1. s = [id |-> s.id, order |-> s.order, type |-> s.type, tpl |-> s.tpl, key |-> s.key]
      BY DEF Apart, StepRows
    <2>2. x = [id |-> s.id, order |-> x.order, type |-> s.type, tpl |-> s.tpl, key |-> s.key]
      BY <1>1, <2>1
    <2> QED BY <2>2 DEF Alike
  <1>2. PICK moved : moved = Renumbered(rows, list)
    OBVIOUS
  <1>3. /\ moved \subseteq StepRows
        /\ \A s, t \in moved : s.id = t.id \/ s.order = t.order => s = t
        /\ \A x \in moved : \E s \in rows : x = [s EXCEPT !.order = x.order]
        /\ \A s \in rows : \E x \in moved : x = [s EXCEPT !.order = x.order]
    <2>1. rows \subseteq StepRows /\ \A s, t \in rows : s.id = t.id \/ s.order = t.order => s = t
      BY DEF Apart
    <2> QED BY <1>2, <2>1, Renumbers
  <1> QED BY <1>1, <1>2, <1>3 DEF Reordering, Apart

\* Rows in a new order, with or without one that is deleted.
LEMMA MovedRows ==
    ASSUME IInv, NEW p \in Procs, NEW j, Serves(p, j), j.pc \notin {"create", "renumber", "delete"},
           Rows', Hands', Runs', UNCHANGED <<raced, unkeyed>>, \A x \in steps' : \E s \in steps : Alike(s, x)
    PROVE  IInv'
  <1>1. /\ Store' /\ CurrentInv' /\ Requests'
        /\ \A q \in Procs : job'[q] = IF q = p THEN j ELSE job[q]
        /\ (\A id : Exists(id)' <=> Exists(id)) /\ UNCHANGED <<tpl, made>>
    BY ServesKeeps
  <1>2. \A x \in steps' : StepOK(x)'
    <2> SUFFICES ASSUME NEW x \in steps'
                 PROVE  StepOK(x)'
      OBVIOUS
    <2>1. PICK s \in steps : Alike(s, x)
      OBVIOUS
    <2> QED BY <1>1, <2>1 DEF Alike, IInv, Workflow, StepOK
  <1>3. SendStepsResolve'
    <2> SUFFICES ASSUME NEW x \in steps', x.type = "send", ~Resolves(x)'
                 PROVE  x.id \in raced \cup unkeyed \/ x.key > made
      BY <1>1 DEF SendStepsResolve
    <2>1. PICK s \in steps : Alike(s, x)
      OBVIOUS
    <2>2. ~Resolves(s)
      BY <1>1, <2>1 DEF Alike, Resolves
    <2> QED BY <2>1, <2>2 DEF Alike, IInv, Workflow, SendStepsResolve
  <1>4. GuardInv'
    <2>1. \A x \in steps' : \E s \in steps : /\ x.id = s.id /\ x.tpl = s.tpl
                                             /\ Keyed(x) <=> Keyed(s)
                                             /\ s.id \in raced => s.id \in raced'
      BY DEF Alike, Keyed
    <2>2. j.pc # "delete"
      OBVIOUS
    <2> QED BY <1>1, <2>1, <2>2, GuardKept
  <1> QED BY <1>1, <1>2, <1>3, <1>4 DEF IInv, Workflow

\* A step moved: rows as they are, under the orders of the list that was read.
LEMMA MoveSteps ==
    ASSUME IInv, NEW p \in Procs, MoveStep(p)
    PROVE  IInv'
  <1>1. PICK r : r = job[p]
    OBVIOUS
  <1>2. PICK list : list = Rearranged(r.list, r.step, r.order)
    OBVIOUS
  <1>3. /\ r.pc = "move" /\ steps' = Renumbered(steps, list) /\ steps' # Clash
        /\ collided' = "" /\ Goto(p, "save") /\ UNCHANGED tplVars
        /\ UNCHANGED <<exec, raced, unkeyed, orphaned>> /\ Edited
    BY <1>1, <1>2, Zenon DEF MoveStep
  <1>4. JobOK(r)
    BY <1>1 DEF IInv, Requests
  <1>5. Listed(list)
    <2>1. Listed(r.list) /\ r.order \in Nat /\ \E i \in DOMAIN r.list : r.list[i].id = r.step
      BY <1>3, <1>4 DEF JobOK
    <2> QED BY <1>2, <2>1, RearrangedLists
  <1>6. /\ Rows'
        /\ \A x \in steps' : \E s \in steps : Alike(s, x)
        /\ \A s \in steps : \E x \in steps' : Alike(s, x)
    <2>1. Apart(steps)
      BY DEF IInv, Workflow, Rows, Apart
    <2>2. Reordering(steps, Renumbered(steps, list))
      BY <1>3, <1>5, <2>1, Reorders
    <2> QED BY <1>3, <2>2 DEF Reordering, Apart, Rows
  <1>7. PICK j : j = [r EXCEPT !.pc = "save"]
    OBVIOUS
  <1>8. JobOK(j) /\ j.pc = "save" /\ "pc" \in DOMAIN r
    <2>1. r = [pc |-> r.pc, step |-> r.step, type |-> r.type, order |-> r.order,
               target |-> r.target, list |-> r.list]
      BY <1>3, <1>4 DEF JobOK
    <2>2. j = [pc |-> "save", step |-> r.step, type |-> r.type, order |-> r.order,
               target |-> r.target, list |-> r.list]
      BY <1>7, <2>1
    <2>3. j.pc = "save" /\ j.step = r.step /\ j.type = r.type /\ j.order = r.order
          /\ j.target = r.target /\ j.list = r.list /\ "pc" \in DOMAIN r
      BY <2>1, <2>2
    <2>4. r.step \in 1 .. MaxSteps /\ r.type \in Types /\ r.order \in Nat /\ TargetOK(r.type, r.target)
      BY <1>3, <1>4 DEF JobOK
    <2> QED BY <2>2, <2>3, <2>4 DEF JobOK, TplPcs
  <1>9. Serves(p, j)
    <2>1. job' = [job EXCEPT ![p] = j] /\ left' \in [{"tpl", "steps"} -> Nat]
      BY <1>1, <1>3, <1>7, <1>8, GotoIs DEF IInv
    <2> QED BY <1>1, <1>3, <1>8, <2>1 DEF Serves, Calm, tplVars
  <1>10. \A id : HasRow(id)' <=> HasRow(id)
    BY <1>6 DEF HasRow, Alike
  <1>11. \A q \in Procs : job'[q] = IF q = p THEN j ELSE job[q]
    BY <1>9, ServesKeeps
  <1>12. Hands'
    <2>1. \A q \in Procs : q # p /\ job[q].pc = "create" => ~HasRow(job[q].step)'
      BY <1>10, <1>11 DEF IInv, Workflow, Hands
    <2>2. \A q \in Procs : q # p /\ job[q].pc = "renumber" => HasRow(job[q].step)'
      BY <1>10, <1>11 DEF IInv, Workflow, Hands
    <2>3. j.pc \notin {"create", "renumber"}
      BY <1>8
    <2> QED BY <1>11, <2>1, <2>2, <2>3, HandsKept DEF IInv
  <1>13. Runs'
    <2>1. \A s \in steps : HasRow(s.id)'
      BY <1>10 DEF HasRow
    <2>2. raced' \cup unkeyed' \subseteq 1 .. MaxSteps
      BY <1>3 DEF IInv, Workflow, Runs
    <2> QED BY <1>3, <2>1, <2>2, RunsKept DEF IInv
  <1> QED BY <1>3, <1>6, <1>8, <1>9, <1>12, <1>13, MovedRows

\* A step is deleted and the rest renumbered; executions at it have no step left.
LEMMA RenumberingSteps ==
    ASSUME IInv, NEW p \in Procs, RenumberSteps(p)
    PROVE  IInv'
  <1>1. PICK r : r = job[p]
    OBVIOUS
  <1>2. PICK old : old = Row(r.step)
    OBVIOUS
  <1>3. /\ r.pc = "renumber" /\ steps' = Renumbered(steps \ {old}, r.list) /\ steps' # Clash
        /\ exec' = [e \in Execs |-> IF e \in At(r.step) THEN [exec[e] EXCEPT !.at = 0] ELSE exec[e]]
        /\ orphaned' = orphaned \cup At(r.step)
        /\ collided' = "" /\ Answer(p) /\ UNCHANGED tplVars /\ UNCHANGED <<raced, unkeyed>> /\ Edited
    BY <1>1, <1>2, Zenon DEF RenumberSteps
  <1>4. HasRow(r.step) /\ Listed(r.list)
    BY <1>1, <1>3 DEF IInv, Requests, JobOK, Workflow, Hands
  <1>5. old \in steps /\ old.id = r.step
    BY <1>2, <1>4 DEF HasRow, Row
  <1>6. /\ Rows'
        /\ \A x \in steps' : \E s \in steps \ {old} : Alike(s, x)
        /\ \A s \in steps \ {old} : \E x \in steps' : Alike(s, x)
    <2>1. Apart(steps \ {old})
      BY DEF IInv, Workflow, Rows, Apart
    <2>2. Reordering(steps \ {old}, Renumbered(steps \ {old}, r.list))
      BY <1>3, <1>4, <2>1, Reorders
    <2> QED BY <1>3, <2>2 DEF Reordering, Apart, Rows
  <1>7. \A id : HasRow(id)' <=> HasRow(id) /\ id # r.step
    <2>1. \A s \in steps : s.id = r.step <=> s = old
      BY <1>5 DEF IInv, Workflow, Rows
    <2> QED BY <1>6, <2>1 DEF HasRow, Alike
  <1>8. Serves(p, Idle) /\ Idle.pc = "idle"
    BY <1>1, <1>3, AnswerServes
  <1>9. \A q \in Procs : job'[q] = IF q = p THEN Idle ELSE job[q]
    BY <1>8, ServesKeeps
  <1>10. Hands'
    <2>1. \A q \in Procs : q # p /\ job[q].pc = "create" => ~HasRow(job[q].step)'
      BY <1>7, <1>9 DEF IInv, Workflow, Hands
    <2>2. \A q \in Procs : q # p /\ job[q].pc = "renumber" => HasRow(job[q].step)'
      BY <1>1, <1>3, <1>7, <1>9 DEF IInv, Workflow, Hands
    <2>3. Idle.pc \notin {"create", "renumber"}
      BY <1>8
    <2> QED BY <1>9, <2>1, <2>2, <2>3, HandsKept DEF IInv
  <1>11. Runs'
    <2>1. /\ UNCHANGED <<sweep, sent>> /\ overtaken' = overtaken \cup Swept
          /\ DOMAIN exec' = Execs /\ DOMAIN sent' = Execs /\ DOMAIN sweep' = Copies
      BY <1>3 DEF IInv, Workflow, Runs, Edited
    <2>2. ASSUME NEW e \in Execs
          PROVE  ExecOK(e)' /\ exec'[e].state = exec[e].state
      <3>1. PICK x : x = exec[e]
        OBVIOUS
      <3>2. ExecOK(e)
        BY DEF IInv, Workflow, Runs
      <3>3. CASE e \in At(r.step)
        <4>1. x = [state |-> x.state, at |-> x.at, context |-> x.context]
          BY <3>1, <3>2, <3>3 DEF At, ExecOK
        <4>2. exec'[e] = [x EXCEPT !.at = 0]
          BY <1>3, <3>1, <3>3
        <4>3. exec'[e] = [state |-> x.state, at |-> 0, context |-> x.context]
          BY <4>1, <4>2
        <4>4. e \in orphaned' /\ sent'[e] \subseteq 1 .. MaxSteps /\ x.state \in {"running", "failed"}
          BY <1>3, <2>1, <3>1, <3>2, <3>3 DEF ExecOK, At
        <4> QED BY <3>1, <4>3, <4>4 DEF ExecOK
      <3>4. CASE e \notin At(r.step)
        <4>1. exec'[e] = x /\ sent' = sent /\ (e \in orphaned => e \in orphaned')
          BY <1>3, <2>1, <3>1, <3>4
        <4>2. x.state = "running" => x.at # r.step
          BY <3>1, <3>4 DEF At
        <4> QED BY <1>7, <2>1, <3>1, <3>2, <4>1, <4>2 DEF ExecOK
      <3> QED BY <3>3, <3>4
    <2>3. \A c \in Copies : sweep[c] # Idle => sweep[c].exec \in Execs
      BY DEF IInv, Workflow, Runs, SweptOK, CopyOK
    <2>4. \A c \in Copies : SweptOK(c)'
      BY <2>1, <2>2, <2>3 DEF IInv, Workflow, Runs, SweptOK
    <2>5. Judgements'
      BY <2>1 DEF Swept, Judgements
    <2>6. raced' \cup unkeyed' \subseteq 1 .. MaxSteps /\ orphaned' \cup overtaken' \subseteq Execs
          /\ collided' \in {"", "move", "delete"}
      BY <1>3, <2>1, <2>3 DEF IInv, Workflow, Runs, At, Swept
    <2> QED BY <2>1, <2>2, <2>4, <2>5, <2>6 DEF Runs
  <1> QED BY <1>3, <1>6, <1>8, <1>10, <1>11, MovedRows

\* The template goes: links to it are cleared, and steps a guard had not seen are known.
LEMMA RemoveSteps ==
    ASSUME IInv, NEW p \in Procs, RemoveTemplate(p)
    PROVE  IInv'
  <1>1. PICK id : id = job[p].tpl
    OBVIOUS
  <1>2. /\ job[p].pc = "delete" /\ tpl' = (IF Exists(id) THEN None ELSE tpl)
        /\ steps' = {IF s.tpl = id THEN [s EXCEPT !.tpl = None] ELSE s : s \in steps}
        /\ Answer(p) /\ UNCHANGED <<made, mail, page, cut, exec, raced, unkeyed, orphaned, collided, sweepVars>>
    BY <1>1 DEF RemoveTemplate, Deleted, editVars
  <1>3. /\ Store' /\ Persists /\ versions' \subseteq versions /\ cut' = cut /\ made' = made
        /\ \A v, w \in versions : v \in versions' /\ w.tpl = v.tpl => w \in versions'
    BY RemoveStores DEF IInv
  <1>4. /\ job' = [job EXCEPT ![p] = Idle] /\ JobOK(Idle) /\ Idle.pc = "idle"
        /\ left' \in [{"tpl", "steps"} -> Nat]
    BY <1>2, AnswerIs DEF IInv
  <1>5. Requests'
    <2>1. JobOK(Idle)'
      BY <1>3, <1>4, JobKept
    <2>2. DOMAIN page' = Procs
      BY <1>2 DEF IInv, Requests
    <2> QED BY <1>3, <1>4, <2>1, <2>2, RequestsKept DEF IInv
  <1>6. CurrentInv'
    <2>1. MarkersStay
      BY <1>2, <1>4, OthersMark DEF IInv
    <2> QED BY <1>3, <2>1, CurrentKept DEF IInv
  <1>7. \A q \in Procs : job'[q] = IF q = p THEN Idle ELSE job[q]
    BY <1>4 DEF IInv, Requests
  <1>8. \A s \in steps : s.tpl = None \/ Exists(s.tpl)
    BY DEF IInv, Workflow, StepOK
  <1>9. \A i : Exists(i)' => Exists(i)
    BY <1>2 DEF Exists
  <1>10. (\A s \in steps : HasRow(s.id)') /\ (\A s \in steps : Still(s)')
    <2> SUFFICES ASSUME NEW s \in steps
                 PROVE  \E x \in steps' : x.id = s.id /\ x.order = s.order /\ x.type = s.type
      BY DEF HasRow, Still
    <2>1. s = [id |-> s.id, order |-> s.order, type |-> s.type, tpl |-> s.tpl, key |-> s.key]
      BY DEF IInv, Workflow, Rows, StepRows
    <2>2. PICK x \in steps' : x = IF s.tpl = id THEN [s EXCEPT !.tpl = None] ELSE s
      BY <1>2
    <2> QED BY <2>1, <2>2
  <1>11. CASE ~Exists(id)
    <2>1. tpl' = tpl /\ \A i : Exists(i)' <=> Exists(i)
      BY <1>2, <1>11 DEF Exists
    <2>2. steps' = steps
      <3>1. id # None
        <4>1. id \in 1 .. made
          BY <1>1, <1>2 DEF IInv, Requests, JobOK, TplPcs
        <4> QED BY <4>1, StudioAssumption
      <3>2. \A s \in steps : s.tpl # id
        BY <1>8, <1>11, <3>1
      <3> QED BY <1>2, <3>2
    <2>3. Rows' /\ (\A s \in steps' : StepOK(s)')
      BY <1>2, <2>1, <2>2 DEF IInv, Workflow, Rows, StepOK
    <2>4. SendStepsResolve'
      BY <1>2, <2>1, <2>2 DEF IInv, Workflow, SendStepsResolve, Resolves
    <2>5. Hands'
      BY <1>4, <1>7, <2>2 DEF IInv, Workflow, Hands, HasRow
    <2>6. GuardInv'
      BY <1>2, <1>4, <1>7, <2>1, <2>2 DEF IInv, Workflow, GuardInv, Keyed
    <2>7. Runs'
      BY <1>2, <2>2, RunsKept DEF IInv, Workflow, Runs, HasRow
    <2> QED BY <1>3, <1>5, <1>6, <2>3, <2>4, <2>5, <2>6, <2>7 DEF IInv, Workflow
  <1>12. CASE Exists(id)
    <2>1. tpl' = None /\ \A i : ~Exists(i)'
      BY <1>2, <1>12 DEF Exists
    <2>2. \A s \in steps : s.tpl = None \/ s.tpl = id
      BY <1>8, <1>12 DEF Exists
    <2>3. ASSUME NEW s \in steps, NEW x, x = IF s.tpl = id THEN [s EXCEPT !.tpl = None] ELSE s
          PROVE  /\ x = [id |-> s.id, order |-> s.order, type |-> s.type, tpl |-> None, key |-> s.key]
                 /\ x.id = s.id /\ x.order = s.order /\ x.type = s.type /\ x.tpl = None /\ x.key = s.key
                 /\ x \in StepRows
      <3>1. /\ s = [id |-> s.id, order |-> s.order, type |-> s.type, tpl |-> s.tpl, key |-> s.key]
            /\ s.id \in 1 .. MaxSteps /\ s.order \in Nat /\ s.type \in Types /\ s.key \in Nat
        BY DEF IInv, Workflow, Rows, StepRows
      <3>2. x = [id |-> s.id, order |-> s.order, type |-> s.type, tpl |-> None, key |-> s.key]
        BY <2>2, <2>3, <3>1
      <3> QED BY <3>1, <3>2 DEF StepRows
    <2>4. ASSUME NEW x \in steps'
          PROVE  /\ x \in StepRows /\ x.tpl = None
                 /\ \E s \in steps : x.id = s.id /\ x.order = s.order /\ x.type = s.type /\ x.key = s.key
                                     /\ x = [id |-> s.id, order |-> s.order, type |-> s.type,
                                             tpl |-> None, key |-> s.key]
      <3>1. PICK s \in steps : x = IF s.tpl = id THEN [s EXCEPT !.tpl = None] ELSE s
        BY <1>2
      <3> QED BY <2>3, <3>1
    <2>5. Rows'
      <3>1. steps' \subseteq StepRows
        BY <2>4
      <3>2. ASSUME NEW x \in steps', NEW y \in steps', x.id = y.id \/ x.order = y.order
            PROVE  x = y
        <4>1. PICK s \in steps : x.id = s.id /\ x.order = s.order
                                 /\ x = [id |-> s.id, order |-> s.order, type |-> s.type,
                                         tpl |-> None, key |-> s.key]
          BY <2>4
        <4>2. PICK t \in steps : y.id = t.id /\ y.order = t.order
                                 /\ y = [id |-> t.id, order |-> t.order, type |-> t.type,
                                         tpl |-> None, key |-> t.key]
          BY <2>4
        <4>3. s = t
          BY <3>2, <4>1, <4>2 DEF IInv, Workflow, Rows
        <4> QED BY <4>1, <4>2, <4>3
      <3> QED BY <3>1, <3>2 DEF Rows
    <2>6. ASSUME NEW x \in steps', x.type = "send"
          PROVE  x.id \in raced \cup unkeyed
      <3>1. PICK s \in steps : x.id = s.id /\ x.type = s.type /\ x.key = s.key
        BY <2>4
      <3>2. CASE s.tpl = id \/ Keyed(s)
        BY <1>1, <1>2, <1>12, <3>1, <3>2 DEF IInv, Workflow, GuardInv
      <3>3. CASE ~(s.tpl = id \/ Keyed(s))
        <4>1. s.tpl = None /\ s.key = 0 /\ s.type = "send"
          BY <2>2, <2>6, <3>1, <3>3 DEF Keyed
        <4> QED BY <3>1, <4>1 DEF IInv, Workflow, StepOK
      <3> QED BY <3>2, <3>3
    <2>7. \A x \in steps' : StepOK(x)'
      <3> SUFFICES ASSUME NEW x \in steps'
                   PROVE  StepOK(x)'
        OBVIOUS
      <3>1. PICK s \in steps : x.type = s.type /\ x.key = s.key
        BY <2>4
      <3> QED BY <1>2, <2>4, <2>6, <3>1 DEF IInv, Workflow, StepOK
    <2>8. SendStepsResolve'
      BY <1>2, <2>6 DEF SendStepsResolve
    <2>9. \A i : HasRow(i)' <=> HasRow(i)
      BY <1>10, <2>4 DEF HasRow
    <2>10. Hands'
      <3>1. \A q \in Procs : q # p /\ job[q].pc = "create" => ~HasRow(job[q].step)'
        BY <1>7, <2>9 DEF IInv, Workflow, Hands
      <3>2. \A q \in Procs : q # p /\ job[q].pc = "renumber" => HasRow(job[q].step)'
        BY <1>7, <2>9 DEF IInv, Workflow, Hands
      <3>3. Idle.pc \notin {"create", "renumber"}
        BY <1>4
      <3> QED BY <1>7, <3>1, <3>2, <3>3, HandsKept DEF IInv
    <2>11. GuardInv'
      BY <2>1 DEF GuardInv
    <2>12. Runs'
      <3>1. raced' \cup unkeyed' \subseteq 1 .. MaxSteps /\ collided' \in {"", "move", "delete"}
        BY <1>2 DEF IInv, Workflow, Runs
      <3>2. (\A s \in steps : HasRow(s.id)') /\ Placed
        BY <1>10, <2>4 DEF Placed, Still
      <3>3. UNCHANGED <<exec, orphaned>> /\ UNCHANGED sweepVars
        BY <1>2
      <3> QED BY <3>1, <3>2, <3>3, RunsKept DEF IInv
    <2> QED BY <1>3, <1>5, <1>6, <2>5, <2>7, <2>8, <2>10, <2>11, <2>12 DEF IInv, Workflow
  <1> QED BY <1>11, <1>12

\* A process dies: what it had in hand is gone, and an approval it was in is cut.
LEMMA DieSteps ==
    ASSUME IInv, NEW p \in Procs, Die(p)
    PROVE  IInv'
  <1>1. /\ Store' /\ Persists /\ UNCHANGED <<tpl, made, versions>> /\ cut \subseteq cut'
        /\ job[p].pc = "mark" => job[p].tpl \in cut'
    BY DieStores DEF IInv
  <1>2. Answer(p) /\ UNCHANGED page /\ UNCHANGED stepVars
    BY DEF Die
  <1>3. /\ job' = [job EXCEPT ![p] = Idle] /\ JobOK(Idle) /\ Idle.pc = "idle"
        /\ left' \in [{"tpl", "steps"} -> Nat]
    BY <1>2, AnswerIs DEF IInv
  <1>4. Requests'
    <2>1. JobOK(Idle)'
      BY <1>1, <1>3, JobKept
    <2>2. DOMAIN page' = Procs
      BY <1>2 DEF IInv, Requests
    <2> QED BY <1>1, <1>3, <2>1, <2>2, RequestsKept DEF IInv
  <1>5. \A q \in Procs : job'[q] = IF q = p THEN Idle ELSE job[q]
    BY <1>3 DEF IInv, Requests
  <1>6. CurrentInv'
    <2> SUFFICES ASSUME NEW v \in versions, v.approved, v.tpl \notin cut'
                 PROVE  \/ \E w \in versions : w.tpl = v.tpl /\ w.current
                        \/ \E q \in Procs : Marking(q, v.tpl)'
      BY <1>1 DEF CurrentInv
    <2>1. ASSUME NEW q \in Procs, Marking(q, v.tpl)
          PROVE  Marking(q, v.tpl)'
      <3>1. q # p
        BY <1>1, <2>1 DEF Marking
      <3> QED BY <1>5, <2>1, <3>1 DEF Marking
    <2> QED BY <1>1, <2>1 DEF IInv, CurrentInv
  <1>7. /\ \A i : Exists(i)' <=> Exists(i)
        /\ \A i : HasRow(i)' <=> HasRow(i)
    BY <1>1, <1>2 DEF Exists, HasRow, stepVars
  <1>8. Rows' /\ (\A s \in steps' : StepOK(s)')
    BY <1>2, <1>7 DEF IInv, Workflow, Rows, StepOK, stepVars, editVars
  <1>9. SendStepsResolve'
    BY <1>1, <1>2 DEF IInv, Workflow, SendStepsResolve, Resolves, Exists, stepVars, editVars
  <1>10. Hands'
    BY <1>3, <1>5, <1>7 DEF IInv, Workflow, Hands
  <1>11. GuardInv'
    BY <1>2, <1>3, <1>5, <1>7 DEF IInv, Workflow, GuardInv, Keyed, stepVars, editVars
  <1>12. Runs'
    BY <1>2, <1>7, RunsKept DEF IInv, Workflow, Runs, HasRow, stepVars, editVars
  <1> QED BY <1>1, <1>4, <1>6, <1>8, <1>9, <1>10, <1>11, <1>12 DEF IInv, Workflow

----------------------------------------------------------------------------
(* Enrolments                                                              *)

\* The first of some rows is one of them.
LEMMA FirstIs ==
    ASSUME NEW rows, rows # {}, \A s \in rows : s.order \in Nat
    PROVE  First(rows) \in rows
  <1> DEFINE S == {s.order : s \in rows}
  <1>1. S \subseteq Nat /\ S # {}
    OBVIOUS
  <1>2. PICK n \in S : \A m \in S : n <= m
    BY <1>1, Least
  <1>3. \E s \in rows : \A t \in rows : s.order <= t.order
    BY <1>2
  <1> QED BY <1>3 DEF First

\* One execution changes.
LEMMA RunsChange ==
    ASSUME IInv, NEW e \in Execs, NEW row, exec' = [exec EXCEPT ![e] = row],
           UNCHANGED <<steps, orphaned, editVars, sweepVars>>,
           row.state \in {"enrolled", "running"}, exec[e].state = "absent" \/ row.state = "running",
           row.state = "running" => /\ row = [state |-> "running", at |-> row.at, context |-> row.context]
                                    /\ row.at \in 1 .. MaxSteps /\ HasRow(row.at),
           row.state = "enrolled" => row = [state |-> "enrolled", context |-> row.context]
    PROVE  Runs'
  <1>1. \A id : HasRow(id)' <=> HasRow(id)
    BY DEF HasRow
  <1>2. DOMAIN exec = Execs
    BY DEF IInv, Workflow, Runs
  <1>3. UNCHANGED <<sweep, sent, overtaken, raced, unkeyed, collided>>
    BY DEF sweepVars, editVars
  <1>4. ASSUME NEW i \in Execs
        PROVE  ExecOK(i)'
    <2>1. CASE i = e
      <3>1. exec'[i] = row
        BY <1>2, <2>1
      <3>2. row.state = "running" => row.at # 0
        OBVIOUS
      <3>3. sent'[i] \subseteq 1 .. MaxSteps
        BY <1>3 DEF IInv, Workflow, Runs, ExecOK
      <3> QED BY <1>1, <3>1, <3>2, <3>3 DEF ExecOK
    <2>2. CASE i # e
      <3>1. exec'[i] = exec[i]
        BY <1>2, <2>2
      <3>2. ExecOK(i)
        BY DEF IInv, Workflow, Runs
      <3> QED BY <1>1, <1>3, <3>1, <3>2 DEF ExecOK
    <2> QED BY <2>1, <2>2
  <1>5. \A c \in Copies : SweptOK(c)'
    <2> SUFFICES ASSUME NEW c \in Copies, sweep[c] # Idle
                 PROVE  /\ CopyOK(sweep[c])
                        /\ exec'[sweep[c].exec].state \in {"running", "completed", "failed"}
      BY <1>3 DEF SweptOK
    <2>1. CopyOK(sweep[c]) /\ exec[sweep[c].exec].state \in {"running", "completed", "failed"}
      BY DEF IInv, Workflow, Runs, SweptOK
    <2> QED BY <1>2, <2>1
  <1>6. Judgements'
    <2> SUFFICES ASSUME NEW c \in Copies, sweep[c] # Idle, sweep[c].exec \notin overtaken
                 PROVE  /\ Fresh(sweep[c])'
                        /\ \A d \in Copies : sweep[d] # Idle /\ sweep[d].exec = sweep[c].exec => d = c
      BY <1>3 DEF Judgements
    <2>1. /\ Fresh(sweep[c])
          /\ \A d \in Copies : sweep[d] # Idle /\ sweep[d].exec = sweep[c].exec => d = c
      BY DEF IInv, Workflow, Runs, Judgements
    <2>2. Fresh(sweep[c])'
      BY <1>3, <2>1 DEF Fresh, Judged, Still
    <2> QED BY <2>1, <2>2
  <1> QED BY <1>2, <1>4, <1>3, <1>5, <1>6 DEF IInv, Workflow, Runs

\* An enrolment is made.
LEMMA EnrollSteps ==
    ASSUME IInv, NEW p \in Procs, NEW e \in Execs, NEW context, WorkflowEnroll(p, e, context)
    PROVE  IInv'
  <1>1. PICK r : r = [pc |-> "enroll", enrollment |-> e]
    OBVIOUS
  <1>2. PICK row : row = [state |-> "enrolled", context |-> context]
    OBVIOUS
  <1>3. /\ Request(p, "steps", r) /\ exec' = [exec EXCEPT ![e] = row]
        /\ UNCHANGED tplVars /\ UNCHANGED <<steps, orphaned, editVars, sweepVars>> /\ exec[e].state = "absent"
    BY <1>1, <1>2 DEF WorkflowEnroll
  <1>4. JobOK(r) /\ r.pc = "enroll"
    BY <1>1 DEF JobOK, TplPcs
  <1>5. Serves(p, r)
    BY <1>3, <1>4, RequestServes
  <1>6. Runs'
    <2>1. row.state = "enrolled" /\ row = [state |-> "enrolled", context |-> row.context]
      BY <1>2
    <2> QED BY <1>3, <2>1, RunsChange
  <1> QED BY <1>3, <1>4, <1>5, <1>6, RowsRestQuietly DEF editVars

\* Its execution starts at the first step, if there is one.
LEMMA StartSteps ==
    ASSUME IInv, NEW p \in Procs, StartExecution(p)
    PROVE  IInv'
  <1>1. PICK e : e = job[p].enrollment
    OBVIOUS
  <1>2. PICK row : row = [state |-> "running", at |-> First(steps).id, context |-> exec[e].context]
    OBVIOUS
  <1>3. /\ job[p].pc = "enroll" /\ Answer(p)
        /\ exec' = IF steps = {} THEN exec ELSE [exec EXCEPT ![e] = row]
        /\ UNCHANGED tplVars /\ UNCHANGED <<steps, orphaned, editVars, sweepVars>>
    BY <1>1, <1>2 DEF StartExecution
  <1>4. e \in Execs
    BY <1>1, <1>3 DEF IInv, Requests, JobOK
  <1>5. Serves(p, Idle) /\ Idle.pc = "idle"
    BY <1>3, AnswerServes
  <1>6. Runs'
    <2>1. CASE steps = {}
      BY <1>3, <2>1, RunsKept DEF IInv, Workflow, Runs, HasRow, editVars
    <2>2. CASE steps # {}
      <3>1. First(steps) \in steps
        <4>1. \A s \in steps : s.order \in Nat
          BY DEF IInv, Workflow, Rows, StepRows
        <4> QED BY <2>2, <4>1, FirstIs
      <3>2. HasRow(First(steps).id) /\ First(steps).id \in 1 .. MaxSteps
        BY <3>1 DEF HasRow, IInv, Workflow, Rows, StepRows
      <3>3. row.state = "running" /\ row.at = First(steps).id
            /\ row = [state |-> "running", at |-> row.at, context |-> row.context]
        BY <1>2
      <3>4. exec' = [exec EXCEPT ![e] = row]
        BY <1>3, <2>2
      <3> QED BY <1>3, <1>4, <3>2, <3>3, <3>4, RunsChange
    <2> QED BY <2>1, <2>2
  <1> QED BY <1>3, <1>5, <1>6, RowsRestQuietly DEF editVars

\* Only executions and copies change.
LEMMA AllRest ==
    ASSUME IInv, Calm, UNCHANGED <<job, left, page, steps, raced, unkeyed>>, Runs'
    PROVE  IInv'
  <1>1. Store' /\ Persists
    BY CalmKeeps DEF IInv
  <1>2. CurrentInv'
    BY DEF Calm, IInv, CurrentInv, Marking
  <1>3. ASSUME NEW p \in Procs
        PROVE  JobOK(job[p])'
    <2>1. PICK k : k = job[p]
      OBVIOUS
    <2>2. JobOK(k)
      BY <2>1 DEF IInv, Requests
    <2>3. JobOK(k)' /\ job'[p] = k
      BY <1>1, <2>1, <2>2, JobKept
    <2> QED BY <2>3 DEF JobOK
  <1>4. Requests'
    BY <1>3 DEF IInv, Requests
  <1>5. \A i : (HasRow(i)' <=> HasRow(i)) /\ (Exists(i)' <=> Exists(i))
    BY DEF HasRow, Exists, Calm
  <1>6. Rows' /\ (\A x \in steps' : StepOK(x)') /\ Hands'
    BY <1>5 DEF IInv, Workflow, Rows, StepOK, Hands
  <1>7. GuardInv' /\ SendStepsResolve'
    BY <1>5 DEF IInv, Workflow, GuardInv, Keyed, SendStepsResolve, Resolves, Calm
  <1> QED BY <1>1, <1>2, <1>4, <1>6, <1>7 DEF IInv, Workflow

----------------------------------------------------------------------------
(* What sweeps do with their copies                                        *)

Sweeps(c) ==
    \/ \E e \in Execs : SweepLoad(c, e)
    \/ SweepSend(c) \/ SweepLog(c) \/ SweepNext(c) \/ SweepSave(c)
    \/ SweepComplete(c) \/ SweepFails(c) \/ SweepDies(c)

\* Sweeps change executions and copies alone.
LEMMA SweepsAre ==
    ASSUME NEW c, Sweeps(c)
    PROVE  UNCHANGED <<tplVars, job, left, steps, editVars>>
  BY Zenon DEF Sweeps, SweepLoad, SweepSend, SweepLog, SweepNext, SweepSave, SweepComplete, SweepFails,
               SweepDies

\* A copy h of an execution goes on as n, or is done with; the execution becomes row.
GoesOn(c, h, n, row) ==
    /\ UNCHANGED <<steps, editVars, overtaken>>
    /\ h = sweep[c] /\ h # Idle /\ sweep' = [sweep EXCEPT ![c] = n]
    /\ DOMAIN exec' = Execs /\ \A i \in Execs : exec'[i] = IF i = h.exec THEN row ELSE exec[i]
    /\ row = [state |-> row.state, at |-> row.at, context |-> row.context]
    /\ row.state \in {"running", "completed", "failed"}
    /\ row.state = "running" => row.at = 0 \/ (row.at \in 1 .. MaxSteps /\ HasRow(row.at))
    /\ row.state = "running" /\ row.at = 0 =>
          \/ h.exec \in orphaned'
          \/ n # Idle /\ Closing(n)
          \/ row = exec[h.exec] /\ ~Closing(h) /\ orphaned' = orphaned
    /\ n # Idle => CopyOK(n) /\ n.exec = h.exec /\ (h.exec \notin overtaken => Fresh(n)')
    /\ orphaned' \cup {h.exec} = orphaned \cup {h.exec}
    /\ DOMAIN sent' = Execs /\ \A i \in Execs : sent'[i] \subseteq 1 .. MaxSteps

\* All that is known of executions and copies stays so.
LEMMA CopyGoesOn ==
    ASSUME IInv, NEW c \in Copies, NEW h, NEW n, NEW row, GoesOn(c, h, n, row)
    PROVE  Runs'
  <1> USE DEF GoesOn
  <1>1. /\ UNCHANGED <<raced, unkeyed, collided>> /\ DOMAIN exec = Execs /\ DOMAIN sweep = Copies
        /\ h.exec \in Execs
    BY DEF editVars, IInv, Workflow, Runs, SweptOK, CopyOK
  <1>2. \A i \in Execs : exec'[i] = IF i = h.exec THEN row ELSE exec[i]
    OBVIOUS
  <1>3. \A d \in Copies : sweep'[d] = IF d = c THEN n ELSE sweep[d]
    BY <1>1
  <1>4. \A i : i # h.exec => (i \in orphaned' <=> i \in orphaned)
    OBVIOUS
  <1>5. \A id : HasRow(id)' <=> HasRow(id)
    BY DEF HasRow
  <1>6. ASSUME NEW i \in Execs
        PROVE  ExecOK(i)'
    <2>1. ExecOK(i)
      BY DEF IInv, Workflow, Runs
    <2>2. CASE i # h.exec
      <3>1. ASSUME NEW d \in Copies, sweep[d] # Idle, sweep[d].exec = i, Closing(sweep[d])
            PROVE  sweep'[d] # Idle /\ sweep'[d].exec = i /\ Closing(sweep'[d])
        BY <1>3, <2>2, <3>1
      <3>2. exec'[i] = exec[i] /\ (i \in orphaned' <=> i \in orphaned)
        BY <1>2, <1>4, <2>2
      <3> QED BY <1>5, <2>1, <3>1, <3>2 DEF ExecOK, Closing
    <2>3. CASE i = h.exec
      <3>1. exec'[i] = row
        BY <1>2, <2>3
      <3>2. ASSUME row.state = "running", row.at = 0, i \notin orphaned'
            PROVE  \E d \in Copies : sweep'[d] # Idle /\ sweep'[d].exec = i /\ Closing(sweep'[d])
        <4>1. CASE n # Idle /\ Closing(n)
          BY <1>3, <2>3, <4>1
        <4>2. CASE row = exec[h.exec] /\ ~Closing(h) /\ orphaned' = orphaned
          <5>1. PICK d \in Copies : sweep[d] # Idle /\ sweep[d].exec = i /\ Closing(sweep[d])
            BY <2>1, <2>3, <3>2, <4>2 DEF ExecOK
          <5>2. d # c
            BY <4>2, <5>1
          <5> QED BY <1>3, <5>1, <5>2
        <4> QED BY <2>3, <3>2, <4>1, <4>2
      <3> QED BY <1>5, <3>1, <3>2 DEF ExecOK, Closing
    <2> QED BY <2>2, <2>3
  <1>7. ASSUME NEW d \in Copies
        PROVE  SweptOK(d)'
    <2>1. CASE d = c
      BY <1>1, <1>2, <1>3, <2>1 DEF SweptOK, CopyOK
    <2>2. CASE d # c
      <3>1. sweep'[d] = sweep[d]
        BY <1>3, <2>2
      <3>2. sweep[d] # Idle => /\ CopyOK(sweep[d])
                               /\ exec[sweep[d].exec].state \in {"running", "completed", "failed"}
        BY DEF IInv, Workflow, Runs, SweptOK
      <3>3. sweep[d] # Idle => sweep[d].exec \in Execs
        BY <3>2 DEF CopyOK
      <3> QED BY <1>2, <3>1, <3>2, <3>3 DEF SweptOK, CopyOK
    <2> QED BY <2>1, <2>2
  <1>8. Judgements'
    <2> SUFFICES ASSUME NEW d \in Copies, sweep'[d] # Idle, sweep'[d].exec \notin overtaken
                 PROVE  /\ Fresh(sweep[d])'
                        /\ \A k \in Copies : sweep'[k] # Idle /\ sweep'[k].exec = sweep'[d].exec => k = d
      BY DEF Judgements
    <2>1. sweep[d] # Idle /\ sweep[d].exec = sweep'[d].exec
      BY <1>3
    <2>2. /\ Fresh(sweep[d])
          /\ \A k \in Copies : sweep[k] # Idle /\ sweep[k].exec = sweep[d].exec => k = d
      BY <2>1 DEF IInv, Workflow, Runs, Judgements
    <2>3. \A k \in Copies : sweep'[k] # Idle => sweep[k] # Idle /\ sweep[k].exec = sweep'[k].exec
      BY <1>3
    <2>4. CASE d = c
      BY <1>3, <2>1, <2>2, <2>3, <2>4 DEF Fresh, Judged, Still
    <2>5. CASE d # c
      <3>1. sweep'[d] = sweep[d] /\ sweep[d].exec # h.exec
        BY <1>3, <2>1, <2>2, <2>5
      <3>2. sweep[d].exec \in orphaned' <=> sweep[d].exec \in orphaned
        BY <1>4, <3>1
      <3>3. Fresh(sweep[d])'
        BY <2>2, <3>1, <3>2 DEF Fresh, Judged, Still
      <3> QED BY <2>1, <2>2, <2>3, <3>3
    <2> QED BY <2>4, <2>5
  <1>9. orphaned' \cup overtaken' \subseteq Execs
    BY <1>1 DEF IInv, Workflow, Runs
  <1>10. DOMAIN exec' = Execs /\ DOMAIN sweep' = Copies
    BY <1>1
  <1> QED BY <1>1, <1>6, <1>7, <1>8, <1>9, <1>10 DEF IInv, Workflow, Runs

\* What is known of a copy and its execution.
LEMMA CopyIs ==
    ASSUME IInv, NEW c \in Copies, NEW h, h = sweep[c], h # Idle
    PROVE  /\ CopyOK(h) /\ (h.exec \notin overtaken => Fresh(h))
           /\ ExecOK(h.exec) /\ exec[h.exec].state \in {"running", "completed", "failed"}
           /\ DOMAIN exec = Execs /\ DOMAIN sent = Execs /\ \A i \in Execs : sent[i] \subseteq 1 .. MaxSteps
  <1>1. CopyOK(h) /\ exec[h.exec].state \in {"running", "completed", "failed"}
    BY DEF IInv, Workflow, Runs, SweptOK
  <1>2. h.exec \in Execs
    BY <1>1 DEF CopyOK
  <1>3. h.exec \notin overtaken => Fresh(h)
    BY DEF IInv, Workflow, Runs, Judgements
  <1> QED BY <1>1, <1>2, <1>3 DEF IInv, Workflow, Runs, ExecOK

\* A copy goes on while its execution stays as it is.
LEMMA CopyMoves ==
    ASSUME IInv, UNCHANGED <<steps, editVars, overtaken, exec, orphaned>>, NEW c \in Copies,
           NEW h, h = sweep[c], h # Idle, NEW n, sweep' = [sweep EXCEPT ![c] = n],
           CopyOK(n), n # Idle, n.exec = h.exec, h.exec \notin overtaken => Fresh(n),
           Closing(h) => Closing(n),
           DOMAIN sent' = Execs, \A i \in Execs : sent'[i] \subseteq 1 .. MaxSteps
    PROVE  Runs'
  <1>1. /\ h.exec \in Execs /\ ExecOK(h.exec) /\ exec[h.exec].state \in {"running", "completed", "failed"}
        /\ DOMAIN exec = Execs
    BY CopyIs DEF CopyOK
  <1>2. PICK row : row = exec[h.exec]
    OBVIOUS
  <1>3. /\ row = [state |-> row.state, at |-> row.at, context |-> row.context]
        /\ row.state \in {"running", "completed", "failed"}
        /\ row.state = "running" => row.at = 0 \/ (row.at \in 1 .. MaxSteps /\ HasRow(row.at))
    BY <1>1, <1>2 DEF ExecOK
  <1>4. DOMAIN exec' = Execs /\ \A i \in Execs : exec'[i] = IF i = h.exec THEN row ELSE exec[i]
    BY <1>1, <1>2
  <1>5. h.exec \notin overtaken => Fresh(n)'
    BY DEF Fresh, Judged, Still
  <1>6. orphaned' = orphaned
    OBVIOUS
  <1>7. GoesOn(c, h, n, row)
    BY <1>2, <1>3, <1>4, <1>5, <1>6 DEF GoesOn
  <1> QED BY <1>7, CopyGoesOn

\* What follows a step is a row behind it, the first one.
LEMMA NextIs ==
    ASSUME IInv, NEW s, s.order \in Nat
    PROVE  /\ NextLinearStep(s) \subseteq steps /\ \A t, u \in NextLinearStep(s) : t = u
           /\ NextLinearStep(s) = {} => \A t \in steps : t.order <= s.order
  <1>1. PICK later : later = {t \in steps : t.order > s.order}
    OBVIOUS
  <1>2. \A t \in steps : t.order \in Nat
    BY DEF IInv, Workflow, Rows, StepRows
  <1>3. NextLinearStep(s) = IF later = {} THEN {} ELSE {First(later)}
    BY <1>1 DEF NextLinearStep
  <1>4. later # {} => First(later) \in later
    BY <1>1, <1>2, FirstIs
  <1>5. later = {} => \A t \in steps : t.order <= s.order
    BY <1>1, <1>2
  <1> QED BY <1>1, <1>3, <1>4, <1>5

\* A step that comes to be in hand, as the sweep goes on to it or begins with it.
LEMMA InHandIs ==
    ASSUME NEW e \in Execs, NEW s \in {Nowhere} \cup StepRows
    PROVE  /\ CopyOK(InHand(e, s)) /\ InHand(e, s).exec = e /\ InHand(e, s) # Idle
           /\ Closing(InHand(e, s)) => s.type = "end"
           /\ (IF s = Nowhere THEN e \in orphaned ELSE Still(s)) => Fresh(InHand(e, s))
  <1>1. PICK h : h = InHand(e, s)
    OBVIOUS
  <1>2. /\ h.exec = e /\ h.step = s /\ h.next = {} /\ h.pc = Stage(s)
        /\ h = [pc |-> h.pc, exec |-> h.exec, step |-> h.step, next |-> h.next]
    BY <1>1 DEF InHand
  <1>3. s.type \in {"send", "wait", "end"}
    BY DEF StepRows, Types, Nowhere
  <1>4. /\ s.type = "send" => h.pc = "send"
        /\ s.type = "wait" => h.pc = "next"
        /\ s.type = "end" => h.pc = "complete"
    BY <1>2, <1>3 DEF Stage
  <1>5. CopyOK(h)
    BY <1>2, <1>3, <1>4 DEF CopyOK
  <1>6. h # Idle
    BY <1>3, <1>4 DEF Idle
  <1>7. Closing(h) => s.type = "end"
    BY <1>3, <1>4 DEF Closing
  <1>8. (IF s = Nowhere THEN e \in orphaned ELSE Still(s)) => Fresh(h)
    BY <1>2, <1>3, <1>4 DEF Fresh, Judged
  <1> QED BY <1>1, <1>2, <1>5, <1>6, <1>7, <1>8

\* A copy is loaded: it is the only one of its execution, or the execution is overtaken.
LEMMA LoadRuns ==
    ASSUME IInv, NEW c \in Copies, NEW e \in Execs, SweepLoad(c, e)
    PROVE  Runs'
  <1>1. PICK s : s = IF exec[e].at = 0 THEN Nowhere ELSE Row(exec[e].at)
    OBVIOUS
  <1>2. PICK n : n = InHand(e, s)
    OBVIOUS
  <1>3. /\ sweep[c] = Idle /\ exec[e].state = "running" /\ sweep' = [sweep EXCEPT ![c] = n]
        /\ overtaken' = (IF e \in Swept THEN overtaken \cup {e} ELSE overtaken \ {e})
        /\ UNCHANGED <<steps, exec, orphaned, editVars, sent>>
    BY <1>1, <1>2 DEF SweepLoad, Continues
  <1>4. /\ exec[e].at = 0 => s = Nowhere
        /\ exec[e].at # 0 => s \in steps /\ s \in StepRows /\ Still(s) /\ s # Nowhere
    <2>1. exec[e].at # 0 => HasRow(exec[e].at)
      BY <1>3 DEF IInv, Workflow, Runs, ExecOK
    <2>2. exec[e].at # 0 => s \in steps
      BY <1>1, <2>1 DEF HasRow, Row
    <2>3. \A x \in StepRows : x # Nowhere
      BY DEF StepRows, Nowhere
    <2> QED BY <1>1, <2>2, <2>3 DEF Still, IInv, Workflow, Rows
  <1>5. CopyOK(n) /\ n.exec = e /\ n # Idle
        /\ ((IF s = Nowhere THEN e \in orphaned ELSE Still(s)) => Fresh(n))
    BY <1>2, <1>4, InHandIs
  <1>6. /\ DOMAIN exec = Execs /\ DOMAIN sent = Execs /\ DOMAIN sweep = Copies
        /\ UNCHANGED <<raced, unkeyed, collided>>
    BY <1>3 DEF editVars, IInv, Workflow, Runs
  <1>7. \A d \in Copies : sweep'[d] = IF d = c THEN n ELSE sweep[d]
    BY <1>3, <1>6
  <1>8. \A id : HasRow(id)' <=> HasRow(id)
    BY <1>3 DEF HasRow
  <1>9. ASSUME NEW i \in Execs
        PROVE  ExecOK(i)'
    <2>1. ExecOK(i)
      BY DEF IInv, Workflow, Runs
    <2>2. ASSUME NEW d \in Copies, sweep[d] # Idle, sweep[d].exec = i, Closing(sweep[d])
          PROVE  sweep'[d] # Idle /\ sweep'[d].exec = i /\ Closing(sweep'[d])
      BY <1>3, <1>7, <2>2
    <2> QED BY <1>3, <1>8, <2>1, <2>2 DEF ExecOK, Closing
  <1>10. ASSUME NEW d \in Copies
         PROVE  SweptOK(d)'
    <2>1. CASE d = c
      BY <1>3, <1>5, <1>7, <2>1 DEF SweptOK, CopyOK
    <2>2. CASE d # c
      <3>1. sweep'[d] = sweep[d] /\ exec' = exec
        BY <1>3, <1>7, <2>2
      <3>2. sweep[d] # Idle => /\ CopyOK(sweep[d])
                               /\ exec[sweep[d].exec].state \in {"running", "completed", "failed"}
        BY DEF IInv, Workflow, Runs, SweptOK
      <3> QED BY <3>1, <3>2 DEF SweptOK, CopyOK
    <2> QED BY <2>1, <2>2
  <1>11. Judgements'
    <2>1. \A d \in Copies : sweep'[d] # Idle /\ sweep'[d].exec = e /\ e \notin overtaken' => d = c
      BY <1>3, <1>5, <1>7 DEF Swept
    <2>2. e \notin overtaken' => Fresh(n)
      <3>1. ASSUME exec[e].at = 0, e \notin overtaken'
            PROVE  e \in orphaned
        <4>1. \A d \in Copies : sweep[d] # Idle => sweep[d].exec # e
          BY <1>3, <3>1 DEF Swept
        <4> QED BY <1>3, <3>1, <4>1 DEF IInv, Workflow, Runs, ExecOK
      <3> QED BY <1>4, <1>5, <3>1
    <2>3. Fresh(n)' <=> Fresh(n)
      BY <1>3 DEF Fresh, Judged, Still
    <2>4. ASSUME NEW d \in Copies, sweep'[d] # Idle, sweep'[d].exec # e, sweep'[d].exec \notin overtaken'
          PROVE  /\ Fresh(sweep[d])'
                 /\ \A k \in Copies : sweep'[k] # Idle /\ sweep'[k].exec = sweep'[d].exec => k = d
      <3>1. d # c /\ sweep'[d] = sweep[d] /\ sweep[d].exec \notin overtaken
        BY <1>3, <1>5, <1>7, <2>4
      <3>2. /\ Fresh(sweep[d])
            /\ \A k \in Copies : sweep[k] # Idle /\ sweep[k].exec = sweep[d].exec => k = d
        BY <2>4, <3>1 DEF IInv, Workflow, Runs, Judgements
      <3>3. Fresh(sweep[d])'
        BY <1>3, <3>1, <3>2 DEF Fresh, Judged, Still
      <3> QED BY <1>5, <1>7, <2>4, <3>1, <3>2, <3>3
    <2>5. ASSUME NEW d \in Copies, sweep'[d] # Idle, sweep'[d].exec = e, e \notin overtaken'
          PROVE  Fresh(sweep[d])'
      <3>1. sweep'[d] = n
        BY <1>7, <2>1, <2>5
      <3>2. Fresh(n)'
        BY <2>2, <2>3, <2>5
      <3> QED BY <3>1, <3>2 DEF Fresh, Judged, Still
    <2> QED BY <2>1, <2>4, <2>5 DEF Judgements
  <1>12. orphaned' \cup overtaken' \subseteq Execs
    BY <1>3 DEF IInv, Workflow, Runs
  <1>13. DOMAIN exec' = Execs /\ DOMAIN sent' = Execs /\ DOMAIN sweep' = Copies
    BY <1>3, <1>6
  <1> QED BY <1>6, <1>9, <1>10, <1>11, <1>12, <1>13 DEF IInv, Workflow, Runs

\* The mail of a send step: what is sent is a row's.
LEMMA SendRuns ==
    ASSUME IInv, NEW c \in Copies, SweepSend(c)
    PROVE  Runs'
  <1>1. PICK h : h = sweep[c]
    OBVIOUS
  <1>2. PICK n : n = [h EXCEPT !.pc = "sent"]
    OBVIOUS
  <1>3. /\ h.pc = "send" /\ sweep' = [sweep EXCEPT ![c] = n]
        /\ sent' = [sent EXCEPT ![h.exec] = @ \cup {h.step.id}]
        /\ UNCHANGED <<steps, exec, orphaned, editVars, overtaken>>
    BY <1>1, <1>2, Zenon DEF SweepSend, Continues
  <1>4. h # Idle
    BY <1>3 DEF Idle
  <1>5. /\ CopyOK(h) /\ (h.exec \notin overtaken => Fresh(h))
        /\ DOMAIN sent = Execs /\ \A i \in Execs : sent[i] \subseteq 1 .. MaxSteps
    BY <1>1, <1>4, CopyIs
  <1>6. h = [pc |-> "send", exec |-> h.exec, step |-> h.step, next |-> {}] /\ h.exec \in Execs
        /\ h.step \in StepRows /\ h.step.type = "send"
    BY <1>3, <1>5 DEF CopyOK, Nowhere
  <1>7. n = [pc |-> "sent", exec |-> h.exec, step |-> h.step, next |-> {}]
    BY <1>2, <1>6
  <1>8. n.pc = "sent" /\ n.exec = h.exec /\ n.step = h.step /\ n.next = {}
    BY <1>7
  <1>9. CopyOK(n) /\ n # Idle
    BY <1>6, <1>7, <1>8 DEF CopyOK, Idle
  <1>10. (h.exec \notin overtaken => Fresh(n)) /\ ~Closing(h)
    BY <1>3, <1>5, <1>8 DEF Fresh, Judged, Closing
  <1>11. h.step.id \in 1 .. MaxSteps
    BY <1>6 DEF StepRows
  <1>12. DOMAIN sent' = Execs /\ \A i \in Execs : sent'[i] \subseteq 1 .. MaxSteps
    BY <1>3, <1>5, <1>11
  <1> QED BY <1>1, <1>3, <1>4, <1>8, <1>9, <1>10, <1>12, CopyMoves

\* A step is logged: the sweep goes on, to the step after a wait, too.
LEMMA LogRuns ==
    ASSUME IInv, NEW c \in Copies, SweepLog(c)
    PROVE  Runs'
  <1>1. PICK h : h = sweep[c]
    OBVIOUS
  <1>2. PICK n : n = IF h.pc = "sent" THEN [h EXCEPT !.pc = "next"]
                     ELSE IF h.next = {} THEN [h EXCEPT !.pc = "complete"]
                     ELSE InHand(h.exec, NextRow(h))
    OBVIOUS
  <1>3. /\ h.pc \in {"sent", "waited"} /\ sweep' = [sweep EXCEPT ![c] = n]
        /\ UNCHANGED <<steps, exec, orphaned, editVars, sent, overtaken>>
    BY <1>1, <1>2, Zenon DEF SweepLog, Continues
  <1>4. h # Idle
    BY <1>3 DEF Idle
  <1>5. /\ CopyOK(h) /\ (h.exec \notin overtaken => Fresh(h))
        /\ DOMAIN sent' = Execs /\ \A i \in Execs : sent'[i] \subseteq 1 .. MaxSteps
    BY <1>1, <1>3, <1>4, CopyIs
  <1>6. /\ h = [pc |-> h.pc, exec |-> h.exec, step |-> h.step, next |-> h.next] /\ h.exec \in Execs
        /\ h.next \subseteq StepRows /\ \A s, t \in h.next : s = t
        /\ h.pc = "sent" => h.step.type = "send" /\ h.next = {}
        /\ h.pc = "waited" => h.step.type = "wait"
    BY <1>3, <1>5 DEF CopyOK
  <1>7. CASE h.pc = "sent"
    <2>1. n = [pc |-> "next", exec |-> h.exec, step |-> h.step, next |-> {}]
      BY <1>2, <1>6, <1>7
    <2>2. n.pc = "next" /\ n.exec = h.exec /\ n.step = h.step /\ n.next = {}
      BY <2>1
    <2>3. CopyOK(n) /\ n # Idle
      BY <1>5, <1>6, <1>7, <2>1, <2>2 DEF CopyOK, Idle
    <2>4. (h.exec \notin overtaken => Fresh(n)) /\ ~Closing(h)
      BY <1>5, <1>7, <2>2 DEF Fresh, Judged, Closing
    <2> QED BY <1>1, <1>3, <1>4, <1>5, <2>2, <2>3, <2>4, CopyMoves
  <1>8. CASE h.pc = "waited" /\ h.next = {}
    <2>1. n = [pc |-> "complete", exec |-> h.exec, step |-> h.step, next |-> {}]
      <3>1. n = [h EXCEPT !.pc = "complete"]
        BY <1>2, <1>8
      <3> QED BY <1>6, <1>8, <3>1
    <2>2. n.pc = "complete" /\ n.exec = h.exec /\ n.step = h.step /\ n.next = {}
      BY <2>1
    <2>3. CopyOK(n) /\ n # Idle
      BY <1>5, <1>6, <1>8, <2>1, <2>2 DEF CopyOK, Idle
    <2>4. (h.exec \notin overtaken => Fresh(n)) /\ Closing(n)
      BY <1>5, <1>8, <2>2 DEF Fresh, Judged, Closing
    <2> QED BY <1>1, <1>3, <1>4, <1>5, <2>2, <2>3, <2>4, CopyMoves
  <1>9. CASE h.pc = "waited" /\ h.next # {}
    <2>1. PICK t : t = NextRow(h)
      OBVIOUS
    <2>2. n = InHand(h.exec, t) /\ t \in h.next /\ t \in StepRows /\ t # Nowhere
      <3>1. \A x \in StepRows : x # Nowhere
        BY DEF StepRows, Nowhere
      <3> QED BY <1>2, <1>6, <1>9, <2>1, <3>1 DEF NextRow
    <2>3. CopyOK(n) /\ n # Idle /\ n.exec = h.exec /\ (Still(t) => Fresh(n))
      BY <1>6, <2>2, InHandIs
    <2>4. (h.exec \notin overtaken => Fresh(n)) /\ ~Closing(h)
      BY <1>5, <1>9, <2>2, <2>3 DEF Fresh, Judged, Closing
    <2> QED BY <1>1, <1>3, <1>4, <1>5, <2>3, <2>4, CopyMoves
  <1> QED BY <1>3, <1>7, <1>8, <1>9

\* The next step is looked for: it is a row, or there is none behind.
LEMMA NextRuns ==
    ASSUME IInv, NEW c \in Copies, SweepNext(c)
    PROVE  Runs'
  <1>1. PICK h : h = sweep[c]
    OBVIOUS
  <1>2. PICK next : next = NextLinearStep(h.step)
    OBVIOUS
  <1>3. PICK n : n = [h EXCEPT !.next = next,
                    !.pc = IF h.step.type = "send" /\ next = {} THEN "complete" ELSE "save"]
    OBVIOUS
  <1>4. /\ h.pc = "next" /\ sweep' = [sweep EXCEPT ![c] = n]
        /\ UNCHANGED <<steps, exec, orphaned, editVars, sent, overtaken>>
    BY <1>1, <1>2, <1>3, Zenon DEF SweepNext, Continues
  <1>5. h # Idle
    BY <1>4 DEF Idle
  <1>6. /\ CopyOK(h) /\ (h.exec \notin overtaken => Fresh(h))
        /\ DOMAIN sent' = Execs /\ \A i \in Execs : sent'[i] \subseteq 1 .. MaxSteps
    BY <1>1, <1>4, <1>5, CopyIs
  <1>7. /\ h = [pc |-> "next", exec |-> h.exec, step |-> h.step, next |-> {}] /\ h.exec \in Execs
        /\ h.step \in StepRows /\ h.step.type \in {"send", "wait"}
    BY <1>4, <1>6 DEF CopyOK, Nowhere
  <1>8. /\ next \subseteq steps /\ \A t, u \in next : t = u
        /\ next = {} => \A t \in steps : t.order <= h.step.order
    <2>1. h.step.order \in Nat
      BY <1>7 DEF StepRows
    <2> QED BY <1>2, <2>1, NextIs
  <1>9. next \subseteq StepRows /\ \A t \in next : Still(t)
    BY <1>8 DEF Still, IInv, Workflow, Rows
  <1>10. PICK pc : pc = IF h.step.type = "send" /\ next = {} THEN "complete" ELSE "save"
    OBVIOUS
  <1>11. n = [pc |-> pc, exec |-> h.exec, step |-> h.step, next |-> next]
    BY <1>3, <1>7, <1>10
  <1>12. n.pc = pc /\ n.exec = h.exec /\ n.step = h.step /\ n.next = next
    BY <1>11
  <1>13. CopyOK(n) /\ n # Idle
    BY <1>7, <1>8, <1>9, <1>10, <1>11, <1>12 DEF CopyOK, Idle
  <1>14. (h.exec \notin overtaken => Fresh(n)) /\ ~Closing(h)
    BY <1>4, <1>6, <1>8, <1>9, <1>12 DEF Fresh, Judged, Closing
  <1> QED BY <1>1, <1>4, <1>5, <1>6, <1>12, <1>13, <1>14, CopyMoves

\* The execution is saved at the next step, or behind its last one.
LEMMA SaveRuns ==
    ASSUME IInv, NEW c \in Copies, SweepSave(c)
    PROVE  Runs'
  <1>1. PICK h : h = sweep[c]
    OBVIOUS
  <1>2. PICK n : n = IF h.step.type = "wait" THEN [h EXCEPT !.pc = "waited"]
                     ELSE IF NextRow(h).type = "wait" THEN Idle
                     ELSE InHand(h.exec, NextRow(h))
    OBVIOUS
  <1>3. PICK at : at = IF h.next = {} THEN 0 ELSE NextRow(h).id
    OBVIOUS
  <1>4. /\ h.pc = "save" /\ (\A t \in h.next : HasRow(t.id)) /\ sweep' = [sweep EXCEPT ![c] = n]
        /\ exec' = [exec EXCEPT ![h.exec] = [@ EXCEPT !.state = "running", !.at = at]]
        /\ orphaned' = orphaned \ {h.exec}
        /\ UNCHANGED <<steps, editVars, sent, overtaken>>
    BY <1>1, <1>2, <1>3, Zenon DEF SweepSave, Continues
  <1>5. h # Idle
    BY <1>4 DEF Idle
  <1>6. /\ CopyOK(h) /\ (h.exec \notin overtaken => Fresh(h)) /\ ExecOK(h.exec)
        /\ exec[h.exec].state \in {"running", "completed", "failed"} /\ DOMAIN exec = Execs
        /\ DOMAIN sent' = Execs /\ \A i \in Execs : sent'[i] \subseteq 1 .. MaxSteps
    BY <1>1, <1>4, <1>5, CopyIs
  <1>7. /\ h = [pc |-> "save", exec |-> h.exec, step |-> h.step, next |-> h.next] /\ h.exec \in Execs
        /\ h.next \subseteq StepRows /\ \A s, t \in h.next : s = t
        /\ h.step.type = "wait" \/ (h.step.type = "send" /\ h.next # {})
        /\ h.step \in StepRows /\ h.step # Nowhere
    BY <1>4, <1>6 DEF CopyOK, Nowhere
  <1>8. PICK old : old = exec[h.exec]
    OBVIOUS
  <1>9. PICK state, was, context : old = [state |-> state, at |-> was, context |-> context]
    BY <1>6, <1>8 DEF ExecOK
  <1>10. PICK row : row = [state |-> "running", at |-> at, context |-> context]
    OBVIOUS
  <1>11. [old EXCEPT !.state = "running", !.at = at] = row
    <2>1. PICK new : new = [old EXCEPT !.state = "running", !.at = at]
      OBVIOUS
    <2>2. new = [state |-> "running", at |-> at, context |-> context]
      BY <1>9, <2>1
    <2> QED BY <1>10, <2>1, <2>2
  <1>12. DOMAIN exec' = Execs /\ \A i \in Execs : exec'[i] = IF i = h.exec THEN row ELSE exec[i]
    <2>1. exec' = [exec EXCEPT ![h.exec] = row]
      BY <1>4, <1>8, <1>11
    <2> QED BY <1>6, <2>1
  <1>13. /\ row = [state |-> row.state, at |-> row.at, context |-> row.context]
         /\ row.state = "running" /\ row.at = at
    BY <1>10
  <1>14. h.next # {} => /\ NextRow(h) \in h.next /\ NextRow(h) \in StepRows /\ NextRow(h) # Nowhere
                        /\ at \in 1 .. MaxSteps /\ HasRow(at)
    <2>1. \A x \in StepRows : x # Nowhere /\ x.id \in 1 .. MaxSteps
      BY DEF StepRows, Nowhere
    <2>2. h.next # {} => NextRow(h) \in h.next
      BY DEF NextRow
    <2> QED BY <1>3, <1>4, <1>7, <2>1, <2>2
  <1>15. row.at = 0 \/ (row.at \in 1 .. MaxSteps /\ HasRow(row.at))
    BY <1>3, <1>13, <1>14
  <1>16. orphaned' \cup {h.exec} = orphaned \cup {h.exec}
    BY <1>4
  <1>17. CASE h.step.type = "wait"
    <2>1. n = [pc |-> "waited", exec |-> h.exec, step |-> h.step, next |-> h.next]
      BY <1>2, <1>7, <1>17
    <2>2. n.pc = "waited" /\ n.exec = h.exec /\ n.step = h.step /\ n.next = h.next
      BY <2>1
    <2>3. CopyOK(n) /\ n # Idle
      BY <1>6, <1>7, <1>17, <2>1, <2>2 DEF CopyOK, Idle
    <2>4. h.exec \notin overtaken => Fresh(n)'
      BY <1>4, <1>6, <1>7, <2>2 DEF Fresh, Judged, Still
    <2>5. row.at = 0 => Closing(n)
      <3>1. 0 \notin 1 .. MaxSteps
        BY StepsAssumption
      <3> QED BY <1>13, <1>14, <2>2, <3>1 DEF Closing
    <2>6. GoesOn(c, h, n, row)
      BY <1>1, <1>4, <1>5, <1>6, <1>12, <1>13, <1>15, <1>16, <2>2, <2>3, <2>4, <2>5 DEF GoesOn
    <2> QED BY <2>6, CopyGoesOn
  <1>18. CASE h.step.type = "send"
    <2>1. h.next # {} /\ row.at # 0
      <3>1. 0 \notin 1 .. MaxSteps
        BY StepsAssumption
      <3> QED BY <1>7, <1>13, <1>14, <1>18, <3>1
    <2>2. n = Idle \/ n = InHand(h.exec, NextRow(h))
      BY <1>2, <1>18
    <2>3. n # Idle => CopyOK(n) /\ n.exec = h.exec /\ (h.exec \notin overtaken => Fresh(n)')
      <3>1. PICK t : t = NextRow(h)
        OBVIOUS
      <3>2. /\ CopyOK(InHand(h.exec, t)) /\ InHand(h.exec, t).exec = h.exec
            /\ InHand(h.exec, t).step = t /\ InHand(h.exec, t).next = {}
            /\ (Still(t) => Fresh(InHand(h.exec, t)))
        BY <1>7, <1>14, <2>1, <3>1, InHandIs DEF InHand
      <3>3. h.exec \notin overtaken => Fresh(InHand(h.exec, t))
        BY <1>6, <1>14, <2>1, <3>1, <3>2 DEF Fresh, Judged
      <3>4. PICK m : m = InHand(h.exec, t)
        OBVIOUS
      <3>5. h.exec \notin overtaken => Fresh(m)'
        BY <1>4, <1>14, <2>1, <3>1, <3>2, <3>3, <3>4 DEF Fresh, Judged, Still
      <3> QED BY <2>2, <3>1, <3>2, <3>4, <3>5 DEF Fresh, Judged, Still
    <2>4. GoesOn(c, h, n, row)
      BY <1>1, <1>4, <1>5, <1>6, <1>12, <1>13, <1>15, <1>16, <2>1, <2>3 DEF GoesOn
    <2> QED BY <2>4, CopyGoesOn
  <1> QED BY <1>7, <1>17, <1>18

\* A copy is done with: the execution is completed, has failed or is left as it is.
LEMMA EndRuns ==
    ASSUME IInv, NEW c \in Copies, SweepComplete(c) \/ SweepFails(c) \/ SweepDies(c)
    PROVE  Runs'
  <1>1. PICK h : h = sweep[c]
    OBVIOUS
  <1>2. /\ h # Idle /\ sweep' = [sweep EXCEPT ![c] = Idle]
        /\ UNCHANGED <<steps, editVars, sent, overtaken>>
    <2>1. h # Idle
      BY <1>1 DEF SweepComplete, SweepFails, SweepDies, Raises, Idle
    <2> QED BY <2>1, Zenon DEF SweepComplete, SweepFails, SweepDies, Continues
  <1>3. PICK old : old = exec[h.exec]
    OBVIOUS
  <1>4. /\ CopyOK(h) /\ ExecOK(h.exec) /\ DOMAIN exec = Execs
        /\ old.state \in {"running", "completed", "failed"}
        /\ DOMAIN sent' = Execs /\ \A i \in Execs : sent'[i] \subseteq 1 .. MaxSteps
    BY <1>1, <1>2, <1>3, CopyIs
  <1>5. h.exec \in Execs /\ old = [state |-> old.state, at |-> old.at, context |-> old.context]
    BY <1>3, <1>4 DEF ExecOK, CopyOK
  <1>6. PICK state, was, context : old = [state |-> state, at |-> was, context |-> context]
    BY <1>5
  <1>7. ASSUME NEW row, exec' = [exec EXCEPT ![h.exec] = row],
               row = [state |-> row.state, at |-> row.at, context |-> row.context],
               row.state \in {"completed", "failed"}, orphaned' = orphaned
        PROVE  Runs'
    <2>1. DOMAIN exec' = Execs /\ \A i \in Execs : exec'[i] = IF i = h.exec THEN row ELSE exec[i]
      BY <1>4, <1>7
    <2>2. row.state # "running" /\ orphaned' \cup {h.exec} = orphaned \cup {h.exec}
      BY <1>7
    <2>3. GoesOn(c, h, Idle, row)
      BY <1>1, <1>2, <1>4, <1>7, <2>1, <2>2 DEF GoesOn
    <2> QED BY <2>3, CopyGoesOn
  <1>8. CASE SweepComplete(c)
    <2>1. exec' = [exec EXCEPT ![h.exec] = [old EXCEPT !.state = "completed", !.at = 0]] /\ orphaned' = orphaned
      BY <1>1, <1>3, <1>4, <1>8 DEF SweepComplete
    <2>2. PICK row : row = [state |-> "completed", at |-> 0, context |-> context]
      OBVIOUS
    <2>3. [old EXCEPT !.state = "completed", !.at = 0] = row
      <3>1. PICK new : new = [old EXCEPT !.state = "completed", !.at = 0]
        OBVIOUS
      <3>2. new = [state |-> "completed", at |-> 0, context |-> context]
        BY <1>6, <3>1
      <3> QED BY <2>2, <3>1, <3>2
    <2>4. row = [state |-> row.state, at |-> row.at, context |-> row.context] /\ row.state = "completed"
      BY <2>2
    <2> QED BY <1>7, <2>1, <2>3, <2>4
  <1>9. CASE SweepFails(c)
    <2>1. exec' = [exec EXCEPT ![h.exec] = [old EXCEPT !.state = "failed"]] /\ orphaned' = orphaned
      BY <1>1, <1>3, <1>4, <1>9 DEF SweepFails
    <2>2. PICK row : row = [state |-> "failed", at |-> was, context |-> context]
      OBVIOUS
    <2>3. [old EXCEPT !.state = "failed"] = row
      BY <1>6, <2>2
    <2>4. row = [state |-> row.state, at |-> row.at, context |-> row.context] /\ row.state = "failed"
      BY <2>2
    <2> QED BY <1>7, <2>1, <2>3, <2>4
  <1>10. CASE SweepDies(c)
    <2>1. /\ orphaned' = (IF h.pc \in {"waited", "complete"} /\ old.at = 0
                          THEN orphaned \cup {h.exec} ELSE orphaned)
          /\ exec' = exec
      BY <1>1, <1>3, <1>10 DEF SweepDies
    <2>2. DOMAIN exec' = Execs /\ \A i \in Execs : exec'[i] = IF i = h.exec THEN old ELSE exec[i]
      BY <1>3, <1>4, <1>5, <2>1
    <2>3. old.state = "running" => old.at = 0 \/ (old.at \in 1 .. MaxSteps /\ HasRow(old.at))
      BY <1>3, <1>4 DEF ExecOK
    <2>4. old.at = 0 => h.exec \in orphaned' \/ (~Closing(h) /\ orphaned' = orphaned)
      BY <2>1 DEF Closing
    <2>5. orphaned' \cup {h.exec} = orphaned \cup {h.exec}
      BY <2>1
    <2>6. GoesOn(c, h, Idle, old)
      BY <1>1, <1>2, <1>3, <1>4, <1>5, <2>2, <2>3, <2>4, <2>5 DEF GoesOn
    <2> QED BY <2>6, CopyGoesOn
  <1> QED BY <1>8, <1>9, <1>10

\* A sweep does something with a copy; templates, requests and rows rest.
LEMMA SweepSteps ==
    ASSUME IInv, NEW c \in Copies, Sweeps(c)
    PROVE  IInv'
  <1>1. UNCHANGED <<tplVars, job, left, steps, editVars>>
    BY SweepsAre
  <1>2. Runs'
    BY LoadRuns, SendRuns, LogRuns, NextRuns, SaveRuns, EndRuns DEF Sweeps
  <1>3. Calm /\ UNCHANGED <<job, left, page, steps, raced, unkeyed>>
    BY <1>1 DEF Calm, tplVars, editVars
  <1> QED BY <1>2, <1>3, AllRest

----------------------------------------------------------------------------
(* The invariant, and what it says                                         *)

\* Every action keeps the invariant.
LEMMA StepsKeep ==
    ASSUME IInv, Next
    PROVE  IInv'
  <1>1. CASE \E p \in Procs : TplActions(p) /\ UNCHANGED stepVars
    BY <1>1, TplSteps
  <1>2. CASE \E p \in Procs : StepRequests(p)
    <2>1. PICK p \in Procs : StepRequests(p)
      BY <1>2
    <2>2. CASE \E type \in Types, order \in 0 .. MaxOrder :
                  PortalAddStep(p, type, order) \/ OperatorAddStep(p, type, order)
      <3>1. PICK type \in Types, order \in 0 .. MaxOrder :
               PortalAddStep(p, type, order) \/ OperatorAddStep(p, type, order)
        BY <2>2
      <3>2. PICK target \in {Target(type), NoTarget} : AddStep(p, type, order, target)
        BY <3>1 DEF PortalAddStep, OperatorAddStep
      <3> QED BY <3>2, AddSteps
    <2>3. CASE \E type \in Types, order \in 0 .. MaxOrder : \E s \in steps : UpdateStep(p, s.id, type, order)
      BY <2>3, UpdateSteps
    <2>4. CASE \E s \in steps : DeleteStep(p, s.id)
      BY <2>4, DeleteSteps
    <2>5. CASE \E e \in Execs, context \in SUBSET Vars :
                  PortalEnroll(p, e, context) \/ OperatorEnroll(p, e, context) \/ ApiEnroll(p, e, context)
      BY <2>5, EnrollSteps DEF PortalEnroll, OperatorEnroll, ApiEnroll
    <2> QED BY <2>1, <2>2, <2>3, <2>4, <2>5 DEF StepRequests
  <1>3. CASE \E p \in Procs : StepJobs(p)
    BY <1>3, CreateSteps, MoveSteps, SaveSteps, RenumberingSteps, StartSteps, FailingSteps DEF StepJobs
  <1>4. CASE \E p \in Procs : TemplateDelete(p) \/ OperatorTemplateDelete(p)
    BY <1>4, GuardSteps DEF OperatorTemplateDelete
  <1>5. CASE \E p \in Procs : RemoveTemplate(p)
    BY <1>5, RemoveSteps
  <1>6. CASE \E p \in Procs : Die(p)
    BY <1>6, DieSteps
  <1>7. CASE \E c \in Copies : Sweeps(c)
    BY <1>7, SweepSteps
  <1> QED BY <1>1, <1>2, <1>3, <1>4, <1>5, <1>6, <1>7 DEF Next, Sweeps

\* The invariant is inductive.
LEMMA Inductive == IInv /\ [Next]_vars => IInv'
  <1> SUFFICES ASSUME IInv, [Next]_vars
               PROVE  IInv'
    OBVIOUS
  <1>1. CASE Next
    BY <1>1, StepsKeep
  <1>2. CASE UNCHANGED vars
    <2>1. /\ Calm /\ UNCHANGED <<page, job, left, steps, exec, raced, unkeyed, orphaned, collided>>
          /\ UNCHANGED sweepVars
      BY <1>2 DEF vars, tplVars, stepVars, editVars, Calm
    <2>2. Runs'
      BY <2>1, RunsKept DEF IInv, Workflow, Runs, HasRow
    <2> QED BY <2>1, <2>2, AllRest
  <1> QED BY <1>1, <1>2

\* It holds of every start the system gets to.
LEMMA InitInv == Init => IInv
  BY InitStore, InitWorkflow DEF IInv

\* It holds always.
THEOREM Invariance == Spec => []IInv
  BY InitInv, Inductive, PTL DEF Spec

\* TypeOK: types hold, links of steps included, whatever saves, deletions and renumberings meet.
THEOREM TypeCorrect == Spec => []TypeOK
  <1>1. IInv => TypeOK
    <2> SUFFICES ASSUME IInv
                 PROVE  TypeOK
      OBVIOUS
    <2>1. tpl = None \/ (tpl.id = made /\ tpl.active \in BOOLEAN /\ tpl.required \subseteq tpl.declared
                         /\ tpl.footer \in Footers)
      BY DEF IInv, Store, TplOK, TplRows
    <2>2. \A v \in versions : Exists(v.tpl) /\ v.num \in Nat \ {0} /\ (v.current => v.approved)
      BY DEF IInv, Store, VersionOK
    <2>3. \A l \in logs : \E v \in versions : v.tpl = l.tpl /\ v.num = l.num
      BY DEF IInv, Store, LogOK
    <2>4. DOMAIN job = Procs /\ DOMAIN page = Procs /\ left \in [{"tpl", "steps"} -> Nat]
      BY DEF IInv, Requests
    <2>5. TplTypeOK
      BY <2>1, <2>2, <2>3, <2>4 DEF TplTypeOK, IInv, Store, TplOK
    <2>6. \A s \in steps : /\ s.id \in 1 .. MaxSteps /\ s.order \in Nat /\ s.type \in Types
                           /\ s.tpl = None \/ Exists(s.tpl)
                           /\ \A t \in steps : t.id = s.id \/ t.order = s.order => t = s
      BY DEF IInv, Workflow, Rows, StepRows, StepOK
    <2>7. \A e \in Execs :
            /\ exec[e].state \in {"absent", "enrolled", "running", "completed", "failed"}
            /\ exec[e].state = "running" => exec[e].at = 0 \/ HasRow(exec[e].at)
            /\ sent[e] \subseteq 1 .. MaxSteps
      BY DEF IInv, Workflow, Runs, ExecOK
    <2>8. raced \cup unkeyed \subseteq 1 .. MaxSteps /\ orphaned \cup overtaken \subseteq Execs
          /\ collided \in {"", "move", "delete"}
      BY DEF IInv, Workflow, Runs
    <2>9. ASSUME NEW c \in Copies, sweep[c] # Idle
          PROVE  /\ sweep[c].pc \in {"send", "sent", "next", "save", "waited", "complete"}
                 /\ sweep[c].exec \in Execs /\ sweep[c].step.id \in 0 .. MaxSteps
      <3>1. CopyOK(sweep[c])
        BY <2>9 DEF IInv, Workflow, Runs, SweptOK
      <3>2. sweep[c].step = Nowhere => sweep[c].step.id = 0
        BY DEF Nowhere
      <3>3. sweep[c].step \in StepRows => sweep[c].step.id \in 1 .. MaxSteps
        BY DEF StepRows
      <3> QED BY <3>1, <3>2, <3>3, StepsAssumption DEF CopyOK
    <2> QED BY <2>5, <2>6, <2>7, <2>8, <2>9 DEF TypeOK
  <1> QED BY <1>1, Invariance, PTL

\* OnlyApprovedIsSent: a message that went out carries a version somebody approved.
THEOREM OnlyApproved == Spec => []OnlyApprovedIsSent
  <1>1. IInv => OnlyApprovedIsSent
    BY DEF IInv, Store, MailOK, OnlyApprovedIsSent
  <1> QED BY <1>1, Invariance, PTL

\* ApprovedVersionStays: approvals that meet do not leave a template without a version to send.
THEOREM ApprovalStays == Spec => []ApprovedVersionStays
  <1>1. IInv => ApprovedVersionStays
    <2> SUFFICES ASSUME IInv, NEW v \in versions, v.approved, v.tpl \notin cut, CurrentNum(v.tpl) = 0
                 PROVE  \E p \in Procs : job[p].pc = "mark" /\ job[p].tpl = v.tpl
      BY DEF ApprovedVersionStays
    <2>1. ~\E w \in versions : w.tpl = v.tpl /\ w.current
      BY Current DEF IInv, VersionsOf
    <2> QED BY <2>1 DEF IInv, CurrentInv, Marking
  <1> QED BY <1>1, Invariance, PTL

\* PreviewPredictsSend: what a preview showed of a version, a message made from it with
\* the same context does not fail to render.
THEOREM PreviewsHold == Spec => []PreviewPredictsSend
  <1>1. IInv => PreviewPredictsSend
    <2> SUFFICES ASSUME IInv, NEW m \in mail, NEW l \in logs, m.tpl = l.tpl, m.tried = l.num,
                        m.context = l.context, m.why = "render"
                 PROVE  FALSE
      BY DEF PreviewPredictsSend
    <2>1. PICK v \in versions : v.tpl = l.tpl /\ v.num = l.num /\ RenderEmailVersion(v.body, l.context)
      BY DEF IInv, Store, LogOK
    <2> QED BY <2>1 DEF IInv, Store, MailOK
  <1> QED BY <1>1, Invariance, PTL

\* SendStepsResolve: a send step finds its template, or was saved behind a deletion's
\* guard, or was given none and no key, or waits for a template that never was.
THEOREM StepsResolve == Spec => []SendStepsResolve
  <1>1. IInv => SendStepsResolve
    BY DEF IInv, Workflow
  <1> QED BY <1>1, Invariance, PTL

----------------------------------------------------------------------------
(* What a step may never do                                                *)

\* What can happen to the template, its versions and its pages.
LEMMA StudioSteps ==
    ASSUME Next
    PROVE  \/ UNCHANGED <<tpl, made, versions, page>>
           \/ CreateTemplate /\ UNCHANGED <<versions, page>>
           \/ \E p \in Procs : \/ TemplateDetail(p) \/ Activate(p) \/ InsertVersion(p) \/ InsertDraft(p)
                               \/ ClearCurrent(p) \/ MarkCurrent(p) \/ RemoveTemplate(p)
  <1>1. ASSUME NEW p \in Procs, TplActions(p)
        PROVE  \/ UNCHANGED <<tpl, made, versions, page>>
               \/ CreateTemplate /\ UNCHANGED <<versions, page>>
               \/ TemplateDetail(p) \/ Activate(p) \/ InsertVersion(p) \/ InsertDraft(p)
               \/ ClearCurrent(p) \/ MarkCurrent(p)
    <2>1. CASE TemplateNew(p) \/ TemplateGenerate(p)
      BY <2>1 DEF TemplateNew, TemplateGenerate
    <2>2. CASE \/ VersionCreate(p) \/ TemplateSetup(p) \/ TemplateRevise(p) \/ Approve(p)
               \/ \E context \in SUBSET Vars : Preview(p, context) \/ SendTemplate(p, context)
      BY <2>2 DEF VersionCreate, TemplateSetup, TemplateRevise, Approve, Preview, SendTemplate, tplVars
    <2>3. CASE \/ DraftArrives(p) \/ RevisionArrives(p) \/ LlmFails(p) \/ InsertFails(p)
               \/ MarkFails(p) \/ Validate(p) \/ Render(p)
      BY <2>3 DEF DraftArrives, RevisionArrives, LlmFails, InsertFails, MarkFails, Validate,
                  Render, tplVars
    <2>4. CASE \/ TemplateDetail(p) \/ Activate(p) \/ InsertVersion(p) \/ InsertDraft(p)
               \/ ClearCurrent(p) \/ MarkCurrent(p)
      BY <2>4
    <2> USE DEF OperatorTemplateNew, OperatorTemplateDetail, OperatorVersionCreate, StudioGenerate,
                OperatorRevise, ApiRevise, OperatorApprove, ApiApprove, OperatorPreview, ApiPreview
    <2> QED BY <1>1, <2>1, <2>2, <2>3, <2>4 DEF TplActions
  <1>2. ASSUME NEW p \in Procs, StepRequests(p)
        PROVE  UNCHANGED tplVars
    BY <1>2 DEF StepRequests, PortalAddStep, OperatorAddStep, AddStep, UpdateStep, DeleteStep,
                PortalEnroll, OperatorEnroll, ApiEnroll, WorkflowEnroll
  <1>3. ASSUME NEW p \in Procs, StepJobs(p) \/ TemplateDelete(p) \/ OperatorTemplateDelete(p)
        PROVE  UNCHANGED tplVars
    BY <1>3 DEF StepJobs, CreateStep, CreateFails, MoveStep, MoveFails, SaveStep, SaveFails,
                RenumberSteps, RenumberFails, StartExecution, OperatorTemplateDelete, TemplateDelete
  <1>4. ASSUME NEW p \in Procs, Die(p)
        PROVE  UNCHANGED <<tpl, made, versions, page>>
    BY <1>4 DEF Die
  <1>5. ASSUME NEW c \in Copies, Sweeps(c)
        PROVE  UNCHANGED tplVars
    BY <1>5, SweepsAre
  <1> QED BY <1>1, <1>2, <1>3, <1>4, <1>5 DEF Next, Sweeps, tplVars

\* A version stays as it was, as long as its template does, and a new one is what a
\* request had in hand, under the next number.
LEMMA VersionSteps ==
    ASSUME IInv, Next
    PROVE  /\ \A v \in versions : Exists(v.tpl)' => \E w \in versions' : SameVersion(v, w)
           /\ \A w \in versions' :
                \/ \E v \in versions : SameVersion(v, w)
                \/ /\ w.num = MaxNum(w.tpl) + 1
                   /\ \E p \in Procs : (InsertVersion(p) \/ InsertDraft(p)) /\ w = NewVersion(job[p])
  <1>1. CASE versions' = versions
    BY <1>1 DEF SameVersion
  <1>2. ASSUME NEW p \in Procs, InsertVersion(p) \/ InsertDraft(p)
        PROVE  /\ versions \subseteq versions'
               /\ \A w \in versions' \ versions : w.num = MaxNum(w.tpl) + 1 /\ w = NewVersion(job[p])
    <2>1. /\ versions \subseteq versions'
          /\ \A w \in versions' \ versions : w.num = MaxNum(w.tpl) + 1
      BY <1>2, InsertSteps DEF IInv
    <2>2. versions' = versions \cup {NewVersion(job[p])}
      BY <1>2 DEF InsertVersion, InsertDraft
    <2> QED BY <2>1, <2>2
  <1>3. CASE \E p \in Procs : InsertVersion(p) \/ InsertDraft(p)
    BY <1>2, <1>3 DEF SameVersion
  <1>4. CASE \E p \in Procs : ClearCurrent(p) \/ MarkCurrent(p)
    <2>1. /\ \A x \in versions' : \E v \in versions : SameVersion(v, x)
          /\ \A v \in versions : \E x \in versions' : SameVersion(v, x)
      BY <1>4, ClearSteps, MarkSteps DEF IInv
    <2> QED BY <2>1
  <1>5. ASSUME NEW p \in Procs, RemoveTemplate(p)
        PROVE  /\ versions' \subseteq versions
               /\ \A v \in versions : Exists(v.tpl)' => v \in versions'
    <2>1. versions' \subseteq versions
      BY <1>5, RemoveStores DEF IInv
    <2>2. ASSUME NEW v \in versions, Exists(v.tpl)'
          PROVE  v \in versions'
      <3>1. tpl' = (IF Exists(job[p].tpl) THEN None ELSE tpl)
            /\ versions' = versions \ VersionsOf(job[p].tpl)
        BY <1>5 DEF RemoveTemplate, Deleted
      <3>2. ~Exists(job[p].tpl)
        BY <2>2, <3>1 DEF Exists
      <3>3. Exists(v.tpl)
        BY DEF IInv, Store, VersionOK
      <3> QED BY <3>1, <3>2, <3>3 DEF VersionsOf, Exists
    <2> QED BY <2>1, <2>2
  <1>6. CASE \E p \in Procs : RemoveTemplate(p)
    BY <1>5, <1>6 DEF SameVersion
  <1>7. CASE \E p \in Procs : TemplateDetail(p) \/ Activate(p)
    BY <1>1, <1>7 DEF TemplateDetail, Activate
  <1> QED BY <1>1, <1>3, <1>4, <1>6, <1>7, StudioSteps

\* VersionsAreAppended: no version of a template that stays goes or changes its text, and a
\* new one has the next number, also when two requests read the same highest number.
THEOREM VersionsAppended == Spec => VersionsAreAppended
  <1>1. IInv /\ [Next]_vars =>
           [/\ \A v \in versions : Exists(v.tpl)' => \E w \in versions' : SameVersion(v, w)
            /\ \A w \in versions' : (\E v \in versions : SameVersion(v, w)) \/ w.num = MaxNum(w.tpl) + 1
           ]_versions
    BY VersionSteps DEF vars, tplVars
  <1> QED BY <1>1, Invariance, PTL DEF Spec, VersionsAreAppended

\* Executions are enrolled, started, swept, or lose their step.
LEMMA RunSteps ==
    ASSUME Next
    PROVE  \/ exec' = exec
           \/ \E p \in Procs : \/ RenumberSteps(p) \/ StartExecution(p)
                               \/ \E e \in Execs, context \in SUBSET Vars : WorkflowEnroll(p, e, context)
           \/ \E c \in Copies : SweepSave(c) \/ SweepComplete(c) \/ SweepFails(c)
  <1>1. ASSUME NEW p \in Procs, StepRequests(p)
        PROVE  exec' = exec \/ \E e \in Execs, context \in SUBSET Vars : WorkflowEnroll(p, e, context)
    BY <1>1 DEF StepRequests, PortalAddStep, OperatorAddStep, AddStep, UpdateStep, DeleteStep,
                PortalEnroll, OperatorEnroll, ApiEnroll, stepVars
  <1>2. ASSUME NEW p \in Procs, StepJobs(p)
        PROVE  exec' = exec \/ RenumberSteps(p) \/ StartExecution(p)
    BY <1>2 DEF StepJobs, CreateStep, CreateFails, MoveStep, MoveFails, SaveStep, SaveFails,
                RenumberFails, stepVars
  <1>3. ASSUME NEW p \in Procs, \/ TemplateDelete(p) \/ OperatorTemplateDelete(p) \/ RemoveTemplate(p) \/ Die(p)
        PROVE  exec' = exec
    BY <1>3 DEF OperatorTemplateDelete, TemplateDelete, RemoveTemplate, Die, stepVars
  <1>4. ASSUME NEW c \in Copies, \/ \E e \in Execs : SweepLoad(c, e)
                                 \/ SweepSend(c) \/ SweepLog(c) \/ SweepNext(c) \/ SweepDies(c)
        PROVE  exec' = exec
    BY <1>4, Zenon DEF SweepLoad, SweepSend, SweepLog, SweepNext, SweepDies
  <1> QED BY <1>1, <1>2, <1>3, <1>4 DEF Next, stepVars

\* A copy that completes an execution nobody else had: it stood at an END or behind the
\* last step, or had lost its step.
LEMMA Completes ==
    ASSUME IInv, NEW c \in Copies, SweepComplete(c), NEW h, h = sweep[c], h.exec \notin orphaned \cup overtaken
    PROVE  /\ h # Idle /\ HasRow(h.step.id)
           /\ \/ Row(h.step.id).type = "end"
              \/ \A t \in steps : t.order <= Row(h.step.id).order
  <1>1. h.pc = "complete" /\ h # Idle
    BY DEF SweepComplete, Idle
  <1>2. CopyOK(h) /\ Fresh(h)
    BY <1>1, CopyIs
  <1>3. h.next = {} /\ Still(h.step)
    BY <1>1, <1>2 DEF CopyOK, Fresh, Judged
  <1>4. PICK t \in steps : t.id = h.step.id /\ t.order = h.step.order /\ t.type = h.step.type
    BY <1>3 DEF Still
  <1>5. HasRow(h.step.id) /\ Row(h.step.id) = t
    BY <1>4 DEF HasRow, Row, IInv, Workflow, Rows
  <1>6. h.step.type = "end" \/ \A x \in steps : x.order <= h.step.order
    BY <1>1, <1>2, <1>3 DEF Fresh, Judged
  <1> QED BY <1>1, <1>4, <1>5, <1>6

\* DripsRunOut: an execution completes where the workflow ends, or because its step was
\* deleted or lost, or by a copy that an edit or another copy had overtaken.
THEOREM DripsEnd == Spec => DripsRunOut
  <1> DEFINE Ends(c, e) ==
               /\ sweep[c] # Idle /\ sweep[c].exec = e /\ HasRow(sweep[c].step.id)
               /\ \/ Row(sweep[c].step.id).type = "end"
                  \/ \A t \in steps : t.order <= Row(sweep[c].step.id).order
  <1>1. ASSUME IInv, Next, NEW e \in Execs, exec[e].state = "running", exec'[e].state = "completed"
        PROVE  e \in orphaned \cup overtaken \/ \E c \in Copies : Ends(c, e)
    <2>1. DOMAIN exec = Execs /\ ExecOK(e)
      BY <1>1 DEF IInv, Workflow, Runs
    <2>2. PICK row : row = exec[e]
      OBVIOUS
    <2>3. row = [state |-> "running", at |-> row.at, context |-> row.context]
      BY <1>1, <2>1, <2>2 DEF ExecOK
    <2>4. ASSUME NEW p \in Procs, RenumberSteps(p)
          PROVE  FALSE
      <3>1. exec' = [i \in Execs |-> IF i \in At(job[p].step) THEN [exec[i] EXCEPT !.at = 0] ELSE exec[i]]
        BY <2>4, Zenon DEF RenumberSteps
      <3>2. exec'[e] = [row EXCEPT !.at = 0] \/ exec'[e] = row
        BY <2>2, <3>1
      <3>3. [row EXCEPT !.at = 0] = [state |-> "running", at |-> 0, context |-> row.context]
        BY <2>3
      <3>4. exec'[e].state = "running"
        BY <2>3, <3>2, <3>3
      <3> QED BY <1>1, <3>4
    <2>5. ASSUME NEW p \in Procs, StartExecution(p)
          PROVE  FALSE
      <3>1. PICK started : started = [state |-> "running", at |-> First(steps).id,
                                      context |-> exec[job[p].enrollment].context]
        OBVIOUS
      <3>2. exec' = exec \/ exec' = [exec EXCEPT ![job[p].enrollment] = started]
        BY <2>5, <3>1 DEF StartExecution
      <3>3. exec'[e] = exec[e] \/ exec'[e] = started
        BY <2>1, <3>2
      <3> QED BY <1>1, <3>1, <3>3
    <2>6. ASSUME NEW p \in Procs, NEW i \in Execs, NEW context, WorkflowEnroll(p, i, context)
          PROVE  FALSE
      <3>1. i # e
        BY <1>1, <2>6 DEF WorkflowEnroll
      <3>2. PICK enrolled : exec' = [exec EXCEPT ![i] = enrolled]
        BY <2>6 DEF WorkflowEnroll
      <3> QED BY <1>1, <2>1, <3>1, <3>2
    <2>7. ASSUME NEW c \in Copies, SweepSave(c)
          PROVE  FALSE
      <3>1. PICK at : exec' = [exec EXCEPT ![sweep[c].exec] = [@ EXCEPT !.state = "running", !.at = at]]
        BY <2>7, Zenon DEF SweepSave
      <3>2. exec'[e] = exec[e] \/ exec'[e] = [row EXCEPT !.state = "running", !.at = at]
        BY <2>1, <2>2, <3>1
      <3>3. [row EXCEPT !.state = "running", !.at = at].state = "running"
        BY <2>3
      <3> QED BY <1>1, <3>2, <3>3
    <2>8. ASSUME NEW c \in Copies, SweepFails(c)
          PROVE  FALSE
      <3>1. exec' = [exec EXCEPT ![sweep[c].exec] = [@ EXCEPT !.state = "failed"]]
        BY <2>8 DEF SweepFails
      <3>2. exec'[e] = exec[e] \/ exec'[e] = [row EXCEPT !.state = "failed"]
        BY <2>1, <2>2, <3>1
      <3>3. [row EXCEPT !.state = "failed"].state = "failed"
        BY <2>3
      <3> QED BY <1>1, <3>2, <3>3
    <2>9. ASSUME NEW c \in Copies, SweepComplete(c)
          PROVE  e \in orphaned \cup overtaken \/ Ends(c, e)
      <3>1. PICK h : h = sweep[c]
        OBVIOUS
      <3>2. PICK done : exec' = [exec EXCEPT ![h.exec] = done]
        BY <2>9, <3>1 DEF SweepComplete
      <3>3. h.exec = e
        BY <1>1, <2>1, <3>2
      <3> QED BY <1>1, <2>9, <3>1, <3>3, Completes
    <2>10. exec' # exec
      BY <1>1
    <2> HIDE DEF Ends
    <2> QED BY <1>1, <2>4, <2>5, <2>6, <2>7, <2>8, <2>9, <2>10, RunSteps
  <1>2. IInv /\ [Next]_vars =>
           [\A e \in Execs : exec[e].state = "running" /\ exec'[e].state = "completed" =>
              \/ e \in orphaned \cup overtaken
              \/ \E c \in Copies :
                  /\ sweep[c] # Idle /\ sweep[c].exec = e /\ HasRow(sweep[c].step.id)
                  /\ LET s == Row(sweep[c].step.id)
                     IN  s.type = "end" \/ \A t \in steps : t.order <= s.order]_vars
    BY <1>1
  <1> QED BY <1>2, Invariance, PTL DEF Spec, DripsRunOut

----------------------------------------------------------------------------
(* The text of a body                                                      *)

\* f joins the first n of some sequences.
Flattening(f, seqs, n) ==
    f = [i \in 1 .. n |-> IF i = 1 THEN seqs[i] ELSE f[i - 1] \o seqs[i]]

\* There is such a function, since the shorter ones can be continued.
LEMMA FlatteningExists ==
    ASSUME NEW X, NEW seqs \in Seq(Seq(X)), NEW n \in Nat, n <= Len(seqs)
    PROVE  \E f \in [1 .. n -> Seq(X)] : Flattening(f, seqs, n)
  <1> DEFINE Fails == {m \in Nat : m <= Len(seqs) /\ ~\E f \in [1 .. m -> Seq(X)] : Flattening(f, seqs, m)}
  <1> SUFFICES Fails = {}
    OBVIOUS
  <1>1. SUFFICES ASSUME Fails # {}
                 PROVE  FALSE
    OBVIOUS
  <1>2. PICK m \in Fails : \A k \in Fails : m <= k
    <2>1. Fails \subseteq Nat
      OBVIOUS
    <2> HIDE DEF Fails
    <2> QED BY <1>1, <2>1, Least
  <1>3. m \in Nat /\ m <= Len(seqs) /\ ~\E f \in [1 .. m -> Seq(X)] : Flattening(f, seqs, m)
    OBVIOUS
  <1>4. m # 0
    <2>1. ASSUME m = 0
          PROVE  FALSE
      <3>1. PICK f : f = [i \in 1 .. 0 |-> seqs]
        OBVIOUS
      <3>2. f \in [1 .. 0 -> Seq(X)] /\ Flattening(f, seqs, 0)
        BY <3>1 DEF Flattening
      <3> QED BY <1>3, <2>1, <3>2
    <2> QED BY <2>1
  <1>5. m - 1 \in Nat /\ m - 1 < m /\ m - 1 <= Len(seqs) /\ Len(seqs) \in Nat
    BY <1>3, <1>4
  <1>6. m - 1 \notin Fails
    <2> HIDE DEF Fails
    <2> QED BY <1>2, <1>3, <1>5
  <1>7. PICK f \in [1 .. (m - 1) -> Seq(X)] : Flattening(f, seqs, m - 1)
    BY <1>5, <1>6
  <1>8. PICK g : g = [i \in 1 .. m |-> IF i = m THEN IF m = 1 THEN seqs[m] ELSE f[m - 1] \o seqs[m] ELSE f[i]]
    OBVIOUS
  <1>9. \A i \in 1 .. m : seqs[i] \in Seq(X)
    BY <1>3
  <1>10. ASSUME NEW i \in 1 .. m
         PROVE  /\ g[i] \in Seq(X)
                /\ g[i] = IF i = 1 THEN seqs[i] ELSE g[i - 1] \o seqs[i]
    <2>1. CASE i = m
      <3>1. CASE m = 1
        BY <1>8, <1>9, <2>1, <3>1
      <3>2. CASE m # 1
        <4>1. m - 1 \in 1 .. (m - 1) /\ m - 1 \in 1 .. m /\ m - 1 # m
          BY <1>3, <1>4, <3>2
        <4>2. m \in 1 .. m
          BY <1>3, <1>4
        <4>3. g[m - 1] = f[m - 1]
          BY <1>8, <4>1
        <4>4. g[m] = f[m - 1] \o seqs[m]
          BY <1>8, <3>2, <4>2
        <4>5. f[m - 1] \in Seq(X) /\ seqs[m] \in Seq(X)
          BY <1>7, <1>9, <4>1, <4>2
        <4>6. g[m] \in Seq(X)
          BY <4>4, <4>5
        <4> QED BY <2>1, <3>2, <4>3, <4>4, <4>6
      <3> QED BY <3>1, <3>2
    <2>2. CASE i # m
      <3>1. i \in 1 .. (m - 1)
        BY <1>3, <2>2
      <3>2. g[i] = f[i]
        BY <1>8, <2>2
      <3>3. f[i] = IF i = 1 THEN seqs[i] ELSE f[i - 1] \o seqs[i]
        BY <1>7, <3>1 DEF Flattening
      <3>4. i # 1 => g[i - 1] = f[i - 1]
        BY <1>8, <3>1, <1>3
      <3> QED BY <1>7, <3>1, <3>2, <3>3, <3>4
    <2> QED BY <2>1, <2>2
  <1>11. g \in [1 .. m -> Seq(X)] /\ Flattening(g, seqs, m)
    <2>1. g = [i \in 1 .. m |-> g[i]]
      BY <1>8
    <2>2. [i \in 1 .. m |-> g[i]] = [i \in 1 .. m |-> IF i = 1 THEN seqs[i] ELSE g[i - 1] \o seqs[i]]
      BY <1>10
    <2> QED BY <1>10, <2>1, <2>2 DEF Flattening
  <1> QED BY <1>3, <1>11

\* What FlattenSeq computes.
LEMMA Flattens ==
    ASSUME NEW X, NEW seqs \in Seq(Seq(X)), Len(seqs) # 0
    PROVE  \E f : Flattening(f, seqs, Len(seqs)) /\ FlattenSeq(seqs) = f[Len(seqs)]
  <1>1. \E f : Flattening(f, seqs, Len(seqs))
    BY FlatteningExists
  <1>2. PICK f : f = CHOOSE g : Flattening(g, seqs, Len(seqs))
    OBVIOUS
  <1>3. Flattening(f, seqs, Len(seqs))
    BY <1>1, <1>2
  <1>4. FlattenSeq(seqs) = f[Len(seqs)]
    BY <1>2, Zenon DEF FlattenSeq, Flattening
  <1> QED BY <1>3, <1>4

\* Two ways to flatten agree.
LEMMA FlatteningUnique ==
    ASSUME NEW seqs, NEW n \in Nat, NEW f, NEW g, Flattening(f, seqs, n), Flattening(g, seqs, n)
    PROVE  \A i \in 1 .. n : f[i] = g[i]
  <1> DEFINE Differ == {i \in 1 .. n : f[i] # g[i]}
  <1>1. SUFFICES ASSUME Differ # {}
                 PROVE  FALSE
    OBVIOUS
  <1>2. PICK m \in Differ : \A k \in Differ : m <= k
    <2>1. Differ \subseteq Nat
      OBVIOUS
    <2> HIDE DEF Differ
    <2> QED BY <1>1, <2>1, Least
  <1>3. m \in 1 .. n /\ f[m] # g[m]
    OBVIOUS
  <1>4. \A i \in 1 .. n : f[i] = (IF i = 1 THEN seqs[i] ELSE f[i - 1] \o seqs[i])
                       /\ g[i] = (IF i = 1 THEN seqs[i] ELSE g[i - 1] \o seqs[i])
    BY DEF Flattening
  <1>5. m # 1
    BY <1>3, <1>4
  <1>6. m - 1 \in 1 .. n /\ m - 1 < m
    BY <1>3, <1>5
  <1>7. f[m - 1] = g[m - 1]
    BY <1>2, <1>6
  <1> QED BY <1>3, <1>4, <1>5, <1>7

\* Sequences flatten to a sequence.
LEMMA FlatIsSeq ==
    ASSUME NEW X, NEW seqs \in Seq(Seq(X))
    PROVE  FlattenSeq(seqs) \in Seq(X)
  <1>1. CASE Len(seqs) = 0
    <2>1. seqs = <<>>
      BY <1>1
    <2>2. FlattenSeq(seqs) = seqs
      BY <1>1, Zenon DEF FlattenSeq
    <2>3. <<>> \in Seq(X)
      OBVIOUS
    <2> QED BY <2>1, <2>2, <2>3
  <1>2. CASE Len(seqs) # 0
    <2>1. PICK f : Flattening(f, seqs, Len(seqs)) /\ FlattenSeq(seqs) = f[Len(seqs)]
      BY <1>2, Flattens
    <2>2. PICK g \in [1 .. Len(seqs) -> Seq(X)] : Flattening(g, seqs, Len(seqs))
      BY FlatteningExists
    <2>3. Len(seqs) \in 1 .. Len(seqs)
      BY <1>2
    <2>4. PICK n \in Nat : n = Len(seqs)
      OBVIOUS
    <2>5. f[n] = g[n]
      BY <2>1, <2>2, <2>3, <2>4, FlatteningUnique
    <2> QED BY <2>1, <2>2, <2>3, <2>4, <2>5
  <1> QED BY <1>1, <1>2

\* One node.
LEMMA FlatOne ==
    ASSUME NEW X, NEW lines \in Seq(X)
    PROVE  FlattenSeq(<<lines>>) = lines
  <1>1. PICK seqs : seqs = <<lines>>
    OBVIOUS
  <1>2. seqs \in Seq(Seq(X)) /\ Len(seqs) = 1 /\ seqs[1] = lines
    BY <1>1
  <1>a. Len(seqs) # 0
    BY <1>2
  <1>b. \E f : Flattening(f, seqs, Len(seqs)) /\ FlattenSeq(seqs) = f[Len(seqs)]
    BY <1>2, <1>a, Flattens
  <1>3. PICK f : Flattening(f, seqs, 1) /\ FlattenSeq(seqs) = f[1]
    BY <1>2, <1>b
  <1>4. f[1] = seqs[1]
    BY <1>3 DEF Flattening
  <1> QED BY <1>1, <1>2, <1>3, <1>4

\* A node for each line.
LEMMA FlatLines ==
    ASSUME NEW X, NEW lines \in Seq(X), lines # <<>>
    PROVE  FlattenSeq([i \in DOMAIN lines |-> <<lines[i]>>]) = lines
  <1>1. PICK seqs : seqs = [i \in DOMAIN lines |-> <<lines[i]>>]
    OBVIOUS
  <1>2. PICK n : n = Len(lines)
    OBVIOUS
  <1>3. n \in Nat /\ n # 0 /\ DOMAIN lines = 1 .. n /\ \A i \in 1 .. n : lines[i] \in X
    BY <1>2
  <1>4. seqs \in Seq(Seq(X)) /\ Len(seqs) = n
    BY <1>1, <1>3
  <1>5. PICK g : g = [i \in 1 .. n |-> [k \in 1 .. i |-> lines[k]]]
    OBVIOUS
  <1>6. ASSUME NEW i \in 1 .. n
        PROVE  g[i] = IF i = 1 THEN seqs[i] ELSE g[i - 1] \o seqs[i]
    <2>1. seqs[i] = <<lines[i]>> /\ g[i] = [k \in 1 .. i |-> lines[k]]
      BY <1>1, <1>3, <1>5
    <2>2. CASE i = 1
      BY <2>1, <2>2
    <2>3. CASE i # 1
      <3>1. i - 1 \in 1 .. n
        BY <1>3, <2>3
      <3>2. g[i - 1] = [k \in 1 .. (i - 1) |-> lines[k]]
        BY <1>5, <3>1
      <3>3. g[i - 1] \in Seq(X) /\ Len(g[i - 1]) = i - 1 /\ g[i] \in Seq(X) /\ Len(g[i]) = i
        BY <1>3, <2>1, <3>1, <3>2
      <3>4. g[i] = g[i - 1] \o <<lines[i]>>
        BY <1>3, <2>1, <3>1, <3>2, <3>3
      <3> QED BY <2>1, <2>3, <3>4
    <2> QED BY <2>2, <2>3
  <1>7. Flattening(g, seqs, n)
    <2>1. g = [i \in 1 .. n |-> g[i]]
      BY <1>5
    <2>2. [i \in 1 .. n |-> g[i]] = [i \in 1 .. n |-> IF i = 1 THEN seqs[i] ELSE g[i - 1] \o seqs[i]]
      BY <1>6
    <2> QED BY <2>1, <2>2 DEF Flattening
  <1>8. PICK f : Flattening(f, seqs, n) /\ FlattenSeq(seqs) = f[n]
    BY <1>3, <1>4, Flattens
  <1>9. f[n] = g[n]
    BY <1>3, <1>7, <1>8, FlatteningUnique
  <1>10. g[n] = [k \in 1 .. n |-> lines[k]]
    BY <1>3, <1>5
  <1> QED BY <1>1, <1>3, <1>8, <1>9, <1>10

\* A node for each line makes nodes.
LEMMA LineNodes ==
    ASSUME NEW text \in PlainTexts
    PROVE  [i \in DOMAIN text |-> <<text[i]>>] \in Seq(PlainTexts)
  <1>1. text \in Seq(STRING)
    BY DEF PlainTexts
  <1>2. PICK n \in Nat : n = Len(text)
    BY <1>1
  <1>3. DOMAIN text = 1 .. n
    BY <1>1, <1>2
  <1>4. ASSUME NEW i \in 1 .. n
        PROVE  <<text[i]>> \in Seq(STRING)
    <2>1. text[i] \in STRING
      BY <1>1, <1>3
    <2> QED BY <2>1
  <1>5. [i \in 1 .. n |-> <<text[i]>>] \in [1 .. n -> Seq(STRING)]
    BY <1>4
  <1>6. [i \in 1 .. n |-> <<text[i]>>] \in Seq(Seq(STRING))
    BY <1>5
  <1> QED BY <1>3, <1>6 DEF PlainTexts

\* The HTML after the new text was put into its tags.
LEMMA MergedIs ==
    ASSUME NEW body \in StoredBodies, NEW text \in PlainTexts
    PROVE  /\ MergePlain(body, text) \in HtmlBodies
           /\ \/ MergePlain(body, text) = body.html
              \/ MergePlain(body, text).nodes = <<text>>
              \/ MergePlain(body, text).nodes = [i \in DOMAIN text |-> <<text[i]>>]
  <1>1. PICK html : html = body.html
    OBVIOUS
  <1>2. /\ html \in HtmlBodies /\ html.nodes \in Seq(PlainTexts) /\ html.layout \in Layouts
        /\ html = [layout |-> html.layout, nodes |-> html.nodes]
    BY <1>1 DEF StoredBodies, HtmlBodies
  <1>3. \/ MergePlain(body, text) = html
        \/ MergePlain(body, text) = [html EXCEPT !.nodes = <<text>>]
        \/ /\ Len(html.nodes) = Len(text)
           /\ MergePlain(body, text) = [html EXCEPT !.nodes = [i \in DOMAIN html.nodes |-> <<text[i]>>]]
    BY <1>1, Zenon DEF MergePlain
  <1>4. <<text>> \in Seq(PlainTexts)
    OBVIOUS
  <1>5. [i \in DOMAIN text |-> <<text[i]>>] \in Seq(PlainTexts)
    BY LineNodes
  <1>6. ASSUME NEW nodes \in Seq(PlainTexts)
        PROVE  [html EXCEPT !.nodes = nodes] \in HtmlBodies /\ [html EXCEPT !.nodes = nodes].nodes = nodes
    BY <1>2 DEF HtmlBodies
  <1>7. Len(html.nodes) = Len(text) => DOMAIN html.nodes = DOMAIN text
    BY <1>2 DEF PlainTexts
  <1>8. PICK one : one = <<text>>
    OBVIOUS
  <1>9. PICK each : each = [i \in DOMAIN text |-> <<text[i]>>]
    OBVIOUS
  <1>10. \/ MergePlain(body, text) = html
         \/ MergePlain(body, text) = [html EXCEPT !.nodes = one]
         \/ MergePlain(body, text) = [html EXCEPT !.nodes = each]
    BY <1>3, <1>7, <1>8, <1>9, Zenon
  <1>11. one \in Seq(PlainTexts) /\ each \in Seq(PlainTexts)
    BY <1>4, <1>5, <1>8, <1>9
  <1>12. /\ MergePlain(body, text) \in HtmlBodies
         /\ \/ MergePlain(body, text) = html
            \/ MergePlain(body, text).nodes = one \/ MergePlain(body, text).nodes = each
    BY <1>2, <1>6, <1>10, <1>11, Zenon
  <1> QED BY <1>1, <1>8, <1>9, <1>12

\* One paragraph for each line.
LEMMA MinimalIs ==
    ASSUME NEW text \in PlainTexts
    PROVE  /\ MinimalHtml(text) \in HtmlBodies
           /\ MinimalHtml(text).nodes = [i \in DOMAIN text |-> <<text[i]>>]
  <1>1. PICK nodes : nodes = [i \in DOMAIN text |-> <<text[i]>>]
    OBVIOUS
  <1>2. nodes \in Seq(PlainTexts)
    BY <1>1, LineNodes
  <1>3. MinimalHtml(text) = [layout |-> "minimal", nodes |-> nodes]
    BY <1>1, Zenon DEF MinimalHtml
  <1>4. "minimal" \in Layouts
    BY DEF Layouts
  <1>5. [layout |-> "minimal", nodes |-> nodes] \in HtmlBodies
    BY <1>2, <1>4 DEF HtmlBodies
  <1> QED BY <1>1, <1>3, <1>5

\* What is stored is HTML, and the text it has.
LEMMA StoredIs ==
    ASSUME NEW html \in HtmlBodies
    PROVE  Stored(html) \in StoredBodies /\ Stored(html).text = FlattenSeq(html.nodes)
  <1>1. html.nodes \in Seq(Seq(STRING))
    BY DEF HtmlBodies, PlainTexts
  <1>2. FlattenSeq(html.nodes) \in PlainTexts
    BY <1>1, FlatIsSeq DEF PlainTexts
  <1> QED BY <1>2 DEF Stored, PlainText, StoredBodies

\* A form comes to a body, whatever it was made from.
LEMMA ReconciledIs ==
    ASSUME NEW latest \in StoredBodies, NEW form \in StoredBodies
    PROVE  ReconcileTemplateBodies(latest, form) \in StoredBodies
  <1>1. form.html \in HtmlBodies /\ form.text \in PlainTexts
    BY DEF StoredBodies
  <1>2. MergePlain(latest, form.text) \in HtmlBodies /\ MinimalHtml(form.text) \in HtmlBodies
    BY <1>1, MergedIs, MinimalIs
  <1>3. \E html \in HtmlBodies : ReconcileTemplateBodies(latest, form) = Stored(html)
    BY <1>1, <1>2 DEF ReconcileTemplateBodies
  <1> QED BY <1>3, StoredIs

\* The text that was edited alone is the text that is stored.
LEMMA ReconciledText ==
    ASSUME NEW latest \in StoredBodies, NEW form \in StoredBodies, form.html = latest.html,
           form.text # latest.text, form.text # <<>>
    PROVE  ReconcileTemplateBodies(latest, form).text = form.text
  <1>1. PICK text : text = form.text
    OBVIOUS
  <1>2. text \in PlainTexts /\ text \in Seq(STRING)
    BY <1>1 DEF StoredBodies, PlainTexts
  <1>3. PICK merged : merged = MergePlain(latest, text)
    OBVIOUS
  <1>4. PICK html : html = IF merged = form.html THEN MinimalHtml(text) ELSE merged
    OBVIOUS
  <1>5. ReconcileTemplateBodies(latest, form) = Stored(html)
    BY <1>1, <1>3, <1>4 DEF ReconcileTemplateBodies
  <1>6. html \in HtmlBodies
    BY <1>2, <1>3, <1>4, MergedIs, MinimalIs
  <1>7. html.nodes = <<text>> \/ html.nodes = [i \in DOMAIN text |-> <<text[i]>>]
    BY <1>2, <1>3, <1>4, MergedIs, MinimalIs
  <1>8. FlattenSeq(html.nodes) = text
    BY <1>1, <1>2, <1>7, FlatOne, FlatLines
  <1> QED BY <1>1, <1>5, <1>6, <1>8, StoredIs

\* Forms post bodies.
LEMMA FormIs ==
    ASSUME NEW old \in StoredBodies, NEW form \in Posted(old)
    PROVE  form \in StoredBodies
  BY BodiesAssumption DEF Posted, StoredBodies

\* Where there is no version yet, a form is compared with a body too.
LEMMA EmptyIs == Empty \in StoredBodies
  <1>1. PICK none : none = <<>>
    OBVIOUS
  <1>2. none \in Seq(PlainTexts) /\ none \in PlainTexts
    <2>1. \A X : none \in Seq(X)
      BY <1>1
    <2> QED BY <2>1 DEF PlainTexts
  <1>3. "none" \in Layouts
    BY DEF Layouts
  <1>4. [layout |-> "none", nodes |-> none] \in HtmlBodies
    BY <1>2, <1>3 DEF HtmlBodies
  <1>5. [html |-> [layout |-> "none", nodes |-> none], text |-> none] \in StoredBodies
    BY <1>2, <1>4 DEF StoredBodies
  <1> QED BY <1>1, <1>5 DEF Empty

----------------------------------------------------------------------------
(* The text that was typed                                                 *)

\* Every version has a body, a page shows what is stored under its number as long as
\* the template is there, and a form that was up to date is saved with its text.
PageOK(shown) ==
    shown # None =>
        /\ shown.tpl \in 1 .. made /\ shown.body \in StoredBodies
        /\ Exists(shown.tpl) =>
              IF shown.num = 0 THEN shown.body = Empty
              ELSE \E v \in versions : v.tpl = shown.tpl /\ v.num = shown.num /\ v.body = shown.body

InsertOK(j) ==
    j.pc \in {"insert", "generate"} =>
        /\ j.body \in StoredBodies
        /\ j.pc = "insert" /\ j.typed # <<>> => j.body.text = j.typed

TextInv ==
    /\ \A v \in versions : v.body \in StoredBodies
    /\ \A p \in Procs : PageOK(page[p]) /\ InsertOK(job[p])

\* A template that is gone does not come back, and none comes under an old id.
LEMMA TemplatesGo ==
    ASSUME IInv, Next
    PROVE  /\ made \in Nat /\ made' \in Nat /\ made <= made'
           /\ \A id \in 1 .. made : Exists(id)' => Exists(id)
  <1>1. made \in Nat /\ (tpl # None => tpl.id = made)
    BY DEF IInv, Store, TplOK
  <1>2. CASE UNCHANGED <<tpl, made>>
    BY <1>1, <1>2 DEF Exists
  <1>3. CASE CreateTemplate
    <2>1. PICK footer \in Footers : tpl' = Shell(footer)
      BY <1>3 DEF CreateTemplate
    <2>2. made' = made + 1 /\ tpl'.id = made + 1
      BY <1>3, <2>1 DEF CreateTemplate, Shell
    <2> QED BY <1>1, <2>2 DEF Exists
  <1>4. ASSUME NEW p \in Procs, InsertDraft(p) \/ Activate(p)
        PROVE  UNCHANGED made /\ \A id : Exists(id)' => Exists(id)
    <2>1. Store' /\ Persists /\ Takes(p)
      BY <1>4, InsertSteps, ActivateSteps DEF IInv
    <2>2. UNCHANGED made
      BY <1>4 DEF InsertDraft, Activate
    <2>3. CASE tpl = None
      BY <1>1, <2>1, <2>2, <2>3 DEF Takes, Exists
    <2>4. CASE tpl # None
      BY <2>1, <2>4 DEF Takes, Exists
    <2> QED BY <2>2, <2>3, <2>4
  <1>5. ASSUME NEW p \in Procs, RemoveTemplate(p)
        PROVE  UNCHANGED made /\ \A id : Exists(id)' => Exists(id)
    BY <1>5 DEF RemoveTemplate, Deleted, Exists
  <1>6. ASSUME NEW p \in Procs, TemplateDetail(p) \/ InsertVersion(p) \/ ClearCurrent(p) \/ MarkCurrent(p)
        PROVE  UNCHANGED <<tpl, made>>
    BY <1>6 DEF TemplateDetail, InsertVersion, ClearCurrent, MarkCurrent
  <1> QED BY <1>1, <1>2, <1>3, <1>4, <1>5, <1>6, StudioSteps

\* One request moves at a time; what it then has in hand to insert, it made in this step.
LEMMA JobSteps ==
    ASSUME IInv, Next
    PROVE  \/ job' = job
           \/ \E p \in Procs : \E j :
                /\ job' = [job EXCEPT ![p] = j]
                /\ \/ j.pc \notin {"insert", "generate"}
                   \/ VersionCreate(p) \/ TemplateSetup(p) \/ DraftArrives(p) \/ RevisionArrives(p)
  <1> DEFINE Moves(p) == \E j : /\ job' = [job EXCEPT ![p] = j]
                                /\ \/ j.pc \notin {"insert", "generate"}
                                   \/ VersionCreate(p) \/ TemplateSetup(p) \/ DraftArrives(p) \/ RevisionArrives(p)
  <1>1. ASSUME NEW p \in Procs, NEW kind, NEW j, j.pc \notin {"insert", "generate"}, Request(p, kind, j)
        PROVE  Moves(p)
    BY <1>1 DEF Request
  <1>5. Idle.pc \notin {"insert", "generate"}
    BY DEF Idle
  <1>2. ASSUME NEW p \in Procs, Answer(p)
        PROVE  Moves(p)
    BY <1>2, <1>5 DEF Answer
  <1>3. ASSUME NEW p \in Procs, NEW pc \in {"mark", "activate", "render", "save"}, Goto(p, pc),
               "pc" \in DOMAIN job[p]
        PROVE  Moves(p)
    <2>1. job' = [job EXCEPT ![p] = [job[p] EXCEPT !.pc = pc]]
      BY <1>3, GotoIs DEF IInv
    <2>2. [job[p] EXCEPT !.pc = pc].pc = pc
      BY <1>3
    <2> QED BY <2>1, <2>2
  <1>4. ASSUME NEW p \in Procs, NEW j, job' = [job EXCEPT ![p] = j],
               VersionCreate(p) \/ TemplateSetup(p) \/ DraftArrives(p) \/ RevisionArrives(p)
        PROVE  Moves(p)
    BY <1>4
  <1> HIDE DEF Moves
  <1>6. ASSUME NEW p \in Procs, TplActions(p)
        PROVE  Moves(p) \/ job' = job
    <2>1. CASE TemplateNew(p) \/ TemplateGenerate(p) \/ TemplateRevise(p)
      <3>1. \A id, fresh : Asked(id, fresh).pc = "llm"
        BY DEF Asked
      <3>2. \E j : Request(p, "tpl", j) /\ (j = Idle \/ \E id, fresh : j = Asked(id, fresh))
        BY <2>1, Zenon DEF TemplateNew, TemplateGenerate, TemplateRevise, Begin
      <3> QED BY <1>1, <1>5, <3>1, <3>2
    <2>2. CASE TemplateDetail(p)
      BY <2>2 DEF TemplateDetail
    <2>3. CASE VersionCreate(p) \/ TemplateSetup(p)
      <3>1. \E j : job' = [job EXCEPT ![p] = j]
        BY <2>3, Zenon DEF VersionCreate, TemplateSetup, Begin, Request
      <3> QED BY <1>4, <2>3, <3>1
    <2>4. CASE DraftArrives(p) \/ RevisionArrives(p)
      <3>1. \E j : job' = [job EXCEPT ![p] = j]
        BY <2>4, Zenon DEF DraftArrives, RevisionArrives
      <3> QED BY <1>4, <2>4, <3>1
    <2>5. CASE \/ LlmFails(p) \/ InsertFails(p) \/ MarkFails(p) \/ InsertVersion(p) \/ InsertDraft(p)
               \/ Activate(p) \/ Render(p) \/ (Validate(p) /\ Answer(p))
      BY <1>2, <2>5 DEF LlmFails, InsertFails, MarkFails, InsertVersion, InsertDraft, Activate, Render
    <2>6. CASE Approve(p) \/ \E context \in SUBSET Vars : Preview(p, context) \/ SendTemplate(p, context)
      <3>1. CASE Approve(p)
        <4>1. PICK j : j = [pc |-> "clear", tpl |-> tpl.id, num |-> MaxNum(tpl.id)]
          OBVIOUS
        <4>2. Request(p, "tpl", j) /\ j.pc = "clear"
          BY <3>1, <4>1 DEF Approve, Begin
        <4> QED BY <1>1, <4>2
      <3>2. ASSUME NEW context \in SUBSET Vars, Preview(p, context)
            PROVE  Moves(p)
        <4>1. Request(p, "tpl", Idle)
          BY <3>2 DEF Preview, Begin
        <4> QED BY <1>1, <1>5, <4>1
      <3>3. ASSUME NEW context \in SUBSET Vars, SendTemplate(p, context)
            PROVE  Moves(p)
        <4>1. PICK j : j = [pc |-> "validate", tpl |-> tpl.id, context |-> context,
                            names |-> CurrentNum(tpl.id)]
          OBVIOUS
        <4>2. Request(p, "tpl", j) /\ j.pc = "validate"
          BY <3>3, <4>1 DEF SendTemplate, Begin
        <4> QED BY <1>1, <4>2
      <3> QED BY <2>6, <3>1, <3>2, <3>3
    <2>7. CASE ClearCurrent(p) \/ MarkCurrent(p) \/ (Validate(p) /\ Goto(p, "render"))
      <3>1. job[p].pc \in {"clear", "mark", "validate"} /\ JobOK(job[p])
        BY <2>7 DEF ClearCurrent, MarkCurrent, Validate, IInv, Requests
      <3>2. "pc" \in DOMAIN job[p]
        BY <3>1 DEF JobOK
      <3>3. \E pc \in {"mark", "activate", "render", "save"} : Goto(p, pc)
        BY <2>7 DEF ClearCurrent, MarkCurrent
      <3> QED BY <1>3, <3>2, <3>3
    <2>8. Validate(p) => Answer(p) \/ Goto(p, "render")
      BY DEF Validate
    <2> USE DEF OperatorTemplateNew, OperatorTemplateDetail, OperatorVersionCreate, StudioGenerate,
                OperatorRevise, ApiRevise, OperatorApprove, ApiApprove, OperatorPreview, ApiPreview
    <2> QED BY <1>6, <2>1, <2>2, <2>3, <2>4, <2>5, <2>6, <2>7, <2>8 DEF TplActions
  <1>7. ASSUME NEW p \in Procs, StepRequests(p) \/ TemplateDelete(p) \/ OperatorTemplateDelete(p)
        PROVE  Moves(p)
    <2>1. ASSUME NEW type, NEW order, NEW target, AddStep(p, type, order, target)
          PROVE  Moves(p)
      <3>1. PICK j : j = [pc |-> "create", step |-> Min(UnusedIds), type |-> type, order |-> order,
                          target |-> target]
        OBVIOUS
      <3>2. Request(p, "steps", j) /\ j.pc = "create"
        BY <2>1, <3>1 DEF AddStep
      <3> QED BY <1>1, <3>2
    <2>2. ASSUME NEW id, NEW type, NEW order, UpdateStep(p, id, type, order)
          PROVE  Moves(p)
      <3>1. PICK pc : pc = IF order = Row(id).order THEN "save" ELSE "move"
        OBVIOUS
      <3>2. PICK list : list = IF order = Row(id).order THEN <<>> ELSE Ordered(steps)
        OBVIOUS
      <3>3. PICK j : j = [pc |-> pc, step |-> id, type |-> type, order |-> order,
                          target |-> Target(type), list |-> list]
        OBVIOUS
      <3>4. Request(p, "steps", j)
        BY <2>2, <3>1, <3>2, <3>3, Zenon DEF UpdateStep
      <3>5. j.pc \in {"save", "move"}
        BY <3>1, <3>3
      <3> QED BY <1>1, <3>4, <3>5
    <2>3. ASSUME NEW id, DeleteStep(p, id)
          PROVE  Moves(p)
      <3>1. PICK j : j = [pc |-> "renumber", step |-> id, list |-> Ordered(steps \ {Row(id)})]
        OBVIOUS
      <3>2. Request(p, "steps", j) /\ j.pc = "renumber"
        BY <2>3, <3>1 DEF DeleteStep
      <3> QED BY <1>1, <3>2
    <2>4. ASSUME NEW e, NEW context, WorkflowEnroll(p, e, context)
          PROVE  Moves(p)
      <3>1. PICK j : j = [pc |-> "enroll", enrollment |-> e]
        OBVIOUS
      <3>2. Request(p, "steps", j) /\ j.pc = "enroll"
        BY <2>4, <3>1 DEF WorkflowEnroll
      <3> QED BY <1>1, <3>2
    <2>5. ASSUME TemplateDelete(p)
          PROVE  Moves(p)
      <3>1. PICK j : j = [pc |-> "delete", tpl |-> tpl.id]
        OBVIOUS
      <3>2. Request(p, "tpl", j) /\ j.pc = "delete"
        BY <2>5, <3>1 DEF TemplateDelete, Begin
      <3> QED BY <1>1, <3>2
    <2> QED BY <1>7, <2>1, <2>2, <2>3, <2>4, <2>5 DEF StepRequests, PortalAddStep, OperatorAddStep,
                PortalEnroll, OperatorEnroll, ApiEnroll, OperatorTemplateDelete
  <1>8. ASSUME NEW p \in Procs, StepJobs(p) \/ RemoveTemplate(p) \/ Die(p)
        PROVE  Moves(p)
    <2>1. CASE MoveStep(p)
      <3>1. job[p].pc = "move" /\ JobOK(job[p]) /\ Goto(p, "save")
        BY <2>1, Zenon DEF MoveStep, IInv, Requests
      <3>2. "pc" \in DOMAIN job[p]
        BY <3>1 DEF JobOK
      <3> QED BY <1>3, <3>1, <3>2
    <2>2. CASE \/ CreateStep(p) \/ CreateFails(p) \/ MoveFails(p) \/ SaveStep(p) \/ SaveFails(p)
               \/ RenumberSteps(p) \/ RenumberFails(p) \/ StartExecution(p) \/ RemoveTemplate(p) \/ Die(p)
      <3>1. Answer(p)
        BY <2>2, Zenon DEF CreateStep, CreateFails, MoveFails, SaveStep, SaveFails, RenumberSteps,
                    RenumberFails, StartExecution, RemoveTemplate, Die
      <3> QED BY <1>2, <3>1
    <2> QED BY <1>8, <2>1, <2>2 DEF StepJobs
  <1>9. ASSUME NEW c \in Copies, Sweeps(c)
        PROVE  job' = job
    BY <1>9, SweepsAre
  <1>10. (\E p \in Procs : Moves(p)) \/ job' = job
    BY <1>6, <1>7, <1>8, <1>9 DEF Next, Sweeps
  <1> QED BY <1>10 DEF Moves

\* It holds of every start: nobody has a page, or a request in hand.
LEMMA InitTextInv == Init => TextInv
  <1> SUFFICES ASSUME Init
               PROVE  TextInv
    OBVIOUS
  <1>1. PICK s \in Start : TplInit(s)
    BY DEF Init
  <1>2. versions = s.versions /\ \A v \in s.versions : v.body \in StoredBodies
    BY <1>1, StartAssumption DEF TplInit, StartOK, TplStartOK
  <1>3. \A p \in Procs : page[p] = None /\ job[p] = Idle
    BY <1>1 DEF TplInit
  <1>4. InsertOK(Idle)
    BY DEF InsertOK, Idle
  <1> QED BY <1>2, <1>3, <1>4 DEF TextInv, PageOK

\* The latest body is a body.
LEMMA LatestIs ==
    ASSUME IInv, TextInv, NEW id
    PROVE  LatestBody(id) \in StoredBodies
  BY Numbers, EmptyIs DEF IInv, LatestBody, VersionsOf, TextInv

\* A page that shows the latest version shows its body.
LEMMA PageIs ==
    ASSUME IInv, TextInv, NEW p \in Procs, page[p] # None, Exists(page[p].tpl),
           page[p].num = MaxNum(page[p].tpl)
    PROVE  page[p].body = LatestBody(page[p].tpl)
  <1>1. PICK shown : shown = page[p]
    OBVIOUS
  <1>2. IF shown.num = 0 THEN shown.body = Empty
        ELSE \E v \in versions : v.tpl = shown.tpl /\ v.num = shown.num /\ v.body = shown.body
    BY <1>1 DEF TextInv, PageOK
  <1>3. CASE VersionsOf(shown.tpl) = {}
    BY <1>1, <1>2, <1>3 DEF MaxNum, LatestBody
  <1>4. CASE VersionsOf(shown.tpl) # {}
    <2>1. PICK last : last = Latest(shown.tpl)
      OBVIOUS
    <2>2. last \in versions /\ last.tpl = shown.tpl /\ last.num = MaxNum(shown.tpl) /\ last.num # 0
      BY <1>4, <2>1, Numbers DEF IInv, VersionsOf, MaxNum
    <2>3. PICK v \in versions : v.tpl = shown.tpl /\ v.num = shown.num /\ v.body = shown.body
      BY <1>1, <1>2, <2>2
    <2>4. v = last
      BY <1>1, <2>2, <2>3 DEF IInv, Store, Numbered
    <2> QED BY <1>1, <1>4, <2>1, <2>3, <2>4 DEF LatestBody
  <1> QED BY <1>1, <1>3, <1>4

\* A form that was posted is saved as it was meant.
LEMMA FormsAreSaved ==
    ASSUME IInv, TextInv, NEW p \in Procs, VersionCreate(p)
    PROVE  InsertOK(job'[p])
  <1>1. page[p] # None /\ Exists(page[p].tpl) /\ page[p].tpl = tpl.id /\ page[p].body \in StoredBodies
    BY DEF VersionCreate, Exists, TextInv, PageOK
  <1>2. PICK form \in Posted(page[p].body) :
            Begin(p, Inserting(tpl.id, ReconcileTemplateBodies(LatestBody(tpl.id), form), ByHand,
                IF /\ page[p].num = MaxNum(tpl.id)
                   /\ form.html = page[p].body.html /\ form.text # page[p].body.text
                THEN form.text ELSE <<>>))
    BY Zenon DEF VersionCreate
  <1>3. PICK typed : typed = IF /\ page[p].num = MaxNum(tpl.id)
                                /\ form.html = page[p].body.html /\ form.text # page[p].body.text
                             THEN form.text ELSE <<>>
    OBVIOUS
  <1>4. PICK body : body = ReconcileTemplateBodies(LatestBody(tpl.id), form)
    OBVIOUS
  <1>5. job'[p] = Inserting(tpl.id, body, ByHand, typed)
    BY <1>2, <1>3, <1>4, Zenon DEF Begin, Request, IInv, Requests
  <1>6. form \in StoredBodies
    BY <1>1, FormIs
  <1>7. body \in StoredBodies
    BY <1>4, <1>6, LatestIs, ReconciledIs
  <1>8. ASSUME typed # <<>>
        PROVE  body.text = typed
    <2>1. /\ page[p].num = MaxNum(tpl.id) /\ typed = form.text
          /\ form.html = page[p].body.html /\ form.text # page[p].body.text
      BY <1>3, <1>8
    <2>2. page[p].body = LatestBody(tpl.id)
      BY <1>1, <2>1, PageIs
    <2> QED BY <1>1, <1>4, <1>6, <1>8, <2>1, <2>2, ReconciledText
  <1> QED BY <1>5, <1>7, <1>8 DEF Inserting, InsertOK

\* What an empty form and the LLM come to is a body.
LEMMA DraftsAreSaved ==
    ASSUME IInv, TextInv, NEW p \in Procs, TemplateSetup(p) \/ DraftArrives(p) \/ RevisionArrives(p)
    PROVE  InsertOK(job'[p])
  <1>1. ASSUME NEW id, NEW body \in StoredBodies, NEW draft, NEW j,
               j = Inserting(id, body, draft, <<>>) \/ j = [Inserting(id, body, draft, <<>>) EXCEPT !.pc = "generate"]
        PROVE  InsertOK(j)
    BY <1>1 DEF Inserting, InsertOK
  <1>2. job = [q \in Procs |-> job[q]]
    BY DEF IInv, Requests
  <1>3. CASE TemplateSetup(p)
    <2>1. CASE Begin(p, Asked(tpl.id, TRUE))
      <3>1. job'[p] = Asked(tpl.id, TRUE)
        BY <1>2, <2>1 DEF Begin, Request
      <3> QED BY <3>1 DEF Asked, InsertOK
    <2>2. ASSUME NEW form \in Posted(Empty),
                 Begin(p, Inserting(tpl.id, ReconcileTemplateBodies(Empty, form), ByHand, <<>>))
          PROVE  InsertOK(job'[p])
      <3>1. ReconcileTemplateBodies(Empty, form) \in StoredBodies
        BY EmptyIs, FormIs, ReconciledIs
      <3>2. job'[p] = Inserting(tpl.id, ReconcileTemplateBodies(Empty, form), ByHand, <<>>)
        BY <1>2, <2>2, Zenon DEF Begin, Request
      <3> QED BY <1>1, <3>1, <3>2
    <2> QED BY <1>3, <2>1, <2>2, Zenon DEF TemplateSetup
  <1>4. CASE DraftArrives(p)
    <2>1. PICK d \in Drafts :
              job' = [job EXCEPT ![p] = [Inserting(job[p].tpl, d.body, d, <<>>) EXCEPT !.pc = "generate"]]
      BY <1>4, Zenon DEF DraftArrives
    <2>2. d.body \in StoredBodies
      BY BodiesAssumption
    <2>3. job'[p] = [Inserting(job[p].tpl, d.body, d, <<>>) EXCEPT !.pc = "generate"]
      BY <1>2, <2>1, Zenon
    <2> QED BY <1>1, <2>2, <2>3
  <1>5. CASE RevisionArrives(p)
    <2>1. PICK d \in Drafts : job' = [job EXCEPT ![p] = Inserting(job[p].tpl, d.body, ByHand, <<>>)]
      BY <1>5, Zenon DEF RevisionArrives
    <2>2. d.body \in StoredBodies
      BY BodiesAssumption
    <2>3. job'[p] = Inserting(job[p].tpl, d.body, ByHand, <<>>)
      BY <1>2, <2>1, Zenon
    <2> QED BY <1>1, <2>2, <2>3
  <1> QED BY <1>3, <1>4, <1>5

\* A page stays good, also when its template goes.
LEMMA PagesKept ==
    ASSUME IInv, Next, NEW shown, PageOK(shown)
    PROVE  PageOK(shown)'
  <1>1. CASE shown = None
    BY <1>1 DEF PageOK
  <1>2. CASE shown # None
    <2>1. shown.tpl \in 1 .. made /\ shown.tpl \in 1 .. made'
      BY <1>2, TemplatesGo DEF PageOK
    <2>2. ASSUME Exists(shown.tpl)', NEW v \in versions, v.tpl = shown.tpl
          PROVE  \E w \in versions' : v.tpl = w.tpl /\ v.num = w.num /\ v.body = w.body
      BY <2>2, VersionSteps DEF SameVersion
    <2>3. Exists(shown.tpl)' => Exists(shown.tpl)
      BY <2>1, TemplatesGo
    <2> QED BY <1>2, <2>1, <2>2, <2>3 DEF PageOK
  <1> QED BY <1>1, <1>2

\* Every step keeps the texts.
LEMMA TextsKept ==
    ASSUME IInv, TextInv, Next
    PROVE  TextInv'
  <1>1. ASSUME NEW w \in versions'
        PROVE  w.body \in StoredBodies
    <2>1. CASE \E v \in versions : SameVersion(v, w)
      BY <2>1 DEF SameVersion, TextInv
    <2>2. ASSUME NEW p \in Procs, InsertVersion(p) \/ InsertDraft(p), w = NewVersion(job[p])
          PROVE  w.body \in StoredBodies
      <3>1. job[p].pc \in {"insert", "generate"}
        BY <2>2 DEF InsertVersion, InsertDraft
      <3>2. job[p].body \in StoredBodies
        BY <3>1 DEF TextInv, InsertOK
      <3> QED BY <2>2, <3>2 DEF NewVersion
    <2> QED BY <2>1, <2>2, VersionSteps
  <1>2. ASSUME NEW q \in Procs
        PROVE  InsertOK(job'[q])
    <2>1. CASE job' = job
      BY <2>1 DEF TextInv
    <2>2. ASSUME NEW p \in Procs, NEW j, job' = [job EXCEPT ![p] = j],
                 \/ j.pc \notin {"insert", "generate"}
                 \/ VersionCreate(p) \/ TemplateSetup(p) \/ DraftArrives(p) \/ RevisionArrives(p)
          PROVE  InsertOK(job'[q])
      <3>1. job'[q] = IF q = p THEN j ELSE job[q]
        BY <2>2 DEF IInv, Requests
      <3>2. CASE q # p
        BY <3>1, <3>2 DEF TextInv
      <3>3. CASE q = p /\ j.pc \notin {"insert", "generate"}
        BY <3>1, <3>3 DEF InsertOK
      <3>4. CASE q = p /\ j.pc \in {"insert", "generate"}
        BY <2>2, <3>4, FormsAreSaved, DraftsAreSaved
      <3> QED BY <3>2, <3>3, <3>4
    <2> QED BY <2>1, <2>2, JobSteps
  <1>3. ASSUME NEW q \in Procs
        PROVE  PageOK(page[q])'
    <2>1. PICK shown : shown = page[q]
      OBVIOUS
    <2>2. PageOK(shown)'
      BY <2>1, PagesKept DEF TextInv
    <2>3. CASE page' = page
      <3>1. page'[q] = shown
        BY <2>1, <2>3
      <3> QED BY <2>2, <3>1 DEF PageOK
    <2>4. ASSUME NEW p \in Procs, TemplateDetail(p)
          PROVE  PageOK(page[q])'
      <3>1. tpl # None /\ page' = [page EXCEPT ![p] = VersionForm(tpl.id)] /\ UNCHANGED <<tpl, made, versions>>
        BY <2>4 DEF TemplateDetail
      <3>2. CASE q # p
        <4>1. page'[q] = shown
          BY <2>1, <3>1, <3>2
        <4> QED BY <2>2, <4>1 DEF PageOK
      <3>3. CASE q = p
        <4>1. PICK form : form = [tpl |-> tpl.id, num |-> MaxNum(tpl.id), body |-> LatestBody(tpl.id)]
          OBVIOUS
        <4>2. page'[q] = form
          BY <3>1, <3>3, <4>1 DEF VersionForm, IInv, Requests
        <4>3. tpl.id \in 1 .. made /\ LatestBody(tpl.id) \in StoredBodies
          BY <3>1, TplIs, LatestIs DEF IInv
        <4>4. IF form.num = 0 THEN form.body = Empty
              ELSE \E v \in versions : v.tpl = form.tpl /\ v.num = form.num /\ v.body = form.body
          <5>1. CASE VersionsOf(tpl.id) = {}
            BY <4>1, <5>1 DEF MaxNum, LatestBody
          <5>2. CASE VersionsOf(tpl.id) # {}
            BY <4>1, <5>2, Numbers DEF IInv, MaxNum, LatestBody, VersionsOf
          <5> QED BY <5>1, <5>2
        <4>5. PageOK(form)'
          BY <3>1, <4>1, <4>3, <4>4 DEF PageOK
        <4> QED BY <4>2, <4>5 DEF PageOK
      <3> QED BY <3>2, <3>3
    <2>5. ASSUME NEW p \in Procs, \/ Activate(p) \/ InsertVersion(p) \/ InsertDraft(p)
                                  \/ ClearCurrent(p) \/ MarkCurrent(p) \/ RemoveTemplate(p)
          PROVE  page' = page
      BY <2>5 DEF Activate, InsertVersion, InsertDraft, ClearCurrent, MarkCurrent, RemoveTemplate
    <2> QED BY <2>3, <2>4, <2>5, StudioSteps
  <1>4. \A q \in Procs : InsertOK(job[q])'
    BY <1>2 DEF InsertOK
  <1> QED BY <1>1, <1>3, <1>4 DEF TextInv

\* It holds always.
LEMMA TextsHold == Spec => []TextInv
  <1>1. IInv /\ TextInv /\ [Next]_vars => TextInv'
    <2> SUFFICES ASSUME IInv, TextInv, [Next]_vars
                 PROVE  TextInv'
      OBVIOUS
    <2>1. CASE Next
      BY <2>1, TextsKept
    <2>2. CASE UNCHANGED vars
      <3>1. UNCHANGED <<tpl, made, versions, page, job>>
        BY <2>2 DEF vars, tplVars
      <3>2. ASSUME NEW p \in Procs
            PROVE  PageOK(page[p])' /\ InsertOK(job[p])'
        BY <3>1 DEF TextInv, PageOK, InsertOK, Exists
      <3> QED BY <3>1, <3>2 DEF TextInv
    <2> QED BY <2>1, <2>2
  <1> QED BY <1>1, InitTextInv, Invariance, PTL DEF Spec

\* TextEditIsSaved: a plain text that was edited alone in a form that was up to date is the
\* text of the version it is saved as, whatever its HTML, and whoever saves in between.
THEOREM TextEdits == Spec => TextEditIsSaved
  <1>1. ASSUME IInv, TextInv, Next, NEW p \in Procs, NEW v \in versions' \ versions,
               job[p].pc = "insert", job[p].tpl = v.tpl, job[p].num = v.num,
               job[p].typed # <<>>, job'[p] = Idle
        PROVE  Collapsed(v.body.text) = Collapsed(job[p].typed)
    <2>1. Idle.pc = "idle" /\ job = [q \in Procs |-> job[q]]
      BY <1>1 DEF Idle, IInv, Requests
    <2>2. ASSUME NEW q \in Procs, NEW j, job' = [job EXCEPT ![q] = j]
          PROVE  q = p
      BY <1>1, <2>1, <2>2
    <2>3. CASE versions' = versions
      BY <1>1, <2>3
    <2>4. ASSUME NEW q \in Procs, InsertVersion(q) \/ InsertDraft(q)
          PROVE  v.body.text = job[p].typed
      <3>1. versions' = versions \cup {NewVersion(job[q])} /\ job' = [job EXCEPT ![q] = Idle]
        BY <2>4 DEF InsertVersion, InsertDraft, Answer
      <3>2. v = NewVersion(job[p])
        BY <1>1, <2>2, <3>1
      <3>3. job[p].body.text = job[p].typed
        BY <1>1 DEF TextInv, InsertOK
      <3> QED BY <3>2, <3>3 DEF NewVersion
    <2>5. ASSUME NEW q \in Procs, ClearCurrent(q) \/ MarkCurrent(q)
          PROVE  FALSE
      <3>1. job[q].pc \in {"clear", "mark"} /\ \E j : job' = [job EXCEPT ![q] = j]
        BY <2>5, Zenon DEF ClearCurrent, MarkCurrent, Goto
      <3> QED BY <1>1, <2>2, <3>1
    <2>6. ASSUME NEW q \in Procs, RemoveTemplate(q)
          PROVE  FALSE
      BY <1>1, <2>6 DEF RemoveTemplate, Deleted
    <2>7. (\E q \in Procs : TemplateDetail(q) \/ Activate(q)) => versions' = versions
      BY DEF TemplateDetail, Activate
    <2> QED BY <1>1, <2>3, <2>4, <2>5, <2>6, <2>7, StudioSteps
  <1>2. IInv /\ TextInv /\ [Next]_vars =>
           [\A p \in Procs : \A v \in versions' \ versions :
               /\ job[p].pc = "insert" /\ job[p].tpl = v.tpl /\ job[p].num = v.num
               /\ job[p].typed # <<>> /\ job'[p] = Idle
               => Collapsed(v.body.text) = Collapsed(job[p].typed)]_versions
    BY <1>1 DEF vars, tplVars
  <1> QED BY <1>2, Invariance, TextsHold, PTL DEF Spec, TextEditIsSaved

=============================================================================
