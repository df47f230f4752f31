------------------------ MODULE TenantDomains_proofs ------------------------
(* Proofs about TenantDomains, for any number of processes, tenants and names, *)
(* with or without the bridge, Postal's HTTP API and the SPF hint.            *)
EXTENDS TenantDomains, FiniteSetTheorems, FunctionTheorems, WellFoundedInduction, TLAPS

-----------------------------------------------------------------------------
(* The inductive invariant. *)

Flags == {"raced", "typed", "pulled", "vouched", "believed", "clobbered"}

Jobs(n) == [pc : {"idle", "add", "insert", "sync", "ensure", "resync",
                  "verify", "promote", "unlist", "drop"},
            td : Td(0 .. n) \cup {NoDomain}, blank : BOOLEAN, first : BOOLEAN,
            force : BOOLEAN, touched : SUBSET {"dns", "prov", "bridge"}]

Typed == TypeOK /\ job \in [Procs -> Jobs(used)]

\* One row at two times: the fields nobody writes.
Same(x, r) == x.id = r.id /\ x.tenant = r.tenant /\ x.domain = r.domain

\* A process that adds a domain has a row of its own making; one that has loaded a row has
\* that row's name, whatever else has become of it.
Adding(p) == job[p].pc \in {"add", "insert"}

Loaded(p) == job[p].pc \notin {"idle", "add", "insert"}

JobOK(p) ==
    LET j == job[p]
    IN  /\ Adding(p) => \E t \in Tenants, d \in Domains : j.td = NewDomain(t, d)
        /\ Loaded(p) => /\ j.td \in Td(1 .. used)
                        /\ \A r \in rows : r.id = j.td.id => Same(r, j.td)
        /\ j.pc # "resync" => "bridge" \notin j.touched

Hands == \A p \in Procs : JobOK(p)

\* Requests of a tenant between the count and the INSERT.
Pending(t) == {p \in Procs : Adding(p) /\ job[p].td.tenant = t}

CapInv ==
    \A t \in Tenants :
        Cardinality(RowsOf(t)) + Cardinality(Pending(t)) < MaxDomains + Cardinality(Procs)

Sends(t, d) == "typed" \notin past[t] => tenant[t].sending = d

PrimeInv ==
    \A t \in Tenants : "raced" \notin past[t] =>
        IF RowsOf(t) = {} THEN Sends(t, Blank)
        ELSE \E r \in RowsOf(t) : /\ \A x \in RowsOf(t) : x.primary <=> x = r
                                  /\ Sends(t, r.domain)

\* What a row, or a copy of it, says of Postal is so.
Claims(td) == /\ td.prov \in {"created", "exists"} =>
                    postal[td.domain] # Blank \/ "believed" \in past[td.id]
              /\ td.dkim # Blank => td.dkim = postal[td.domain]

ClaimInv ==
    \A r \in rows : "pulled" \notin past[r.id] =>
        /\ Claims(r)
        /\ \A p \in Procs : job[p].pc \in {"sync", "ensure", "resync"} /\ job[p].td.id = r.id
                                => Claims(job[p].td)

MarkInv ==
    \A p \in Procs : job[p].pc = "resync" /\ "bridge" \in job[p].touched =>
        \/ "dns" \in job[p].touched /\ job[p].td.pv
        \/ "vouched" \in past[job[p].td.id]

BridgeInv == BridgeMarkIsEarned /\ MarkInv

IInv == Typed /\ Hands /\ CapInv /\ PrimeInv /\ ClaimInv /\ BridgeInv

-----------------------------------------------------------------------------
(* Postal's answers, and what they leave in a row. *)

Answers == [spf : BOOLEAN, dkim : 0 .. MaxKeys, pv : BOOLEAN]

\* A copy of a row takes from an answer what it tells, and nothing else.
LEMMA Patches ==
    ASSUME NEW ids, NEW td \in Td(ids), NEW a \in Answers
    PROVE  /\ Patched(td, a) \in Td(ids) /\ Same(Patched(td, a), td)
           /\ Patched(td, a).prov = td.prov /\ Patched(td, a).bridge_at = td.bridge_at
           /\ Patched(td, a).primary = td.primary
           /\ Patched(td, a).dkim = (IF a.dkim # Blank THEN a.dkim ELSE td.dkim)
           /\ Patched(td, a).pv = (td.pv \/ a.pv)
  BY ZenonT(60) DEF Patched, Td, Answers, Same

\* An answer of Postal tells its own key of the domain, or none.
LEMMA Fetches ==
    ASSUME NEW k \in 0 .. MaxKeys, NEW a \in Fetched(k)
    PROVE  a \in Answers /\ a.dkim \in {Blank, k} /\ (a.spf => k # Blank)
  <1>1. a = Nothing \/ \E x \in {k} : x # Blank /\ a = Extracted(x)
    BY DEF Fetched
  <1>2. CASE a = Nothing
    BY <1>2, DnsAssumption DEF Nothing, Answers, Blank
  <1>3. CASE k # Blank /\ a = Extracted(k)
    <2>1. PICK n : n = Nothing
      OBVIOUS
    <2>2. a = [n EXCEPT !.spf = TRUE, !.dkim = k]
      BY <1>3, <2>1 DEF Extracted
    <2> QED BY <1>3, <2>1, <2>2 DEF Nothing, Answers
  <1> QED BY <1>1, <1>2, <1>3

\* What the bridge tells is of the key Postal has in the end.
LEMMA BridgeTells ==
    ASSUME NEW k \in Nat, NEW fresh \in Nat \ {0}, NEW b \in Provision(k, fresh)
    PROVE  /\ b.key \in {k, fresh} /\ (k # Blank => b.key = k)
           /\ b.ok \in BOOLEAN /\ b.answer.verified \in BOOLEAN
           /\ b.answer.dns.spf \in BOOLEAN /\ b.answer.dns.pv \in BOOLEAN
           /\ b.answer.dns.dkim \in {Blank, b.key}
           /\ b.answer.dns \in [spf : BOOLEAN, dkim : {Blank, b.key}, pv : BOOLEAN]
           /\ b.ok => b.key # Blank
  <1> DEFINE key == CreateDomain(k, fresh)
             Mute(x) == [key |-> x, ok |-> FALSE, answer |-> [dns |-> Nothing, verified |-> FALSE]]
  <1>1. key \in {k, fresh} /\ (k # Blank => key = k) /\ key # Blank
    BY DEF CreateDomain, Blank
  <1>2. \/ b = Mute(k) \/ b = Mute(key)
        \/ \E a \in BridgeAnswers(key) : b = [key |-> key, ok |-> TRUE, answer |-> a]
    BY DEF Provision
  <1>3. \A x : /\ Mute(x).key = x /\ Mute(x).ok = FALSE /\ Mute(x).answer.verified = FALSE
               /\ Mute(x).answer.dns = [spf |-> FALSE, dkim |-> Blank, pv |-> FALSE]
    BY DEF Nothing
  <1>4. \A a \in BridgeAnswers(key) :
           a.verified \in BOOLEAN /\ \E pv \in BOOLEAN : a.dns = [spf |-> TRUE, dkim |-> key, pv |-> pv]
    BY DEF BridgeAnswers, Extracted, Nothing
  <1> HIDE DEF key, Mute
  <1>5. ASSUME NEW a \in BridgeAnswers(key), b = [key |-> key, ok |-> TRUE, answer |-> a]
        PROVE  /\ b.key = key /\ b.ok = TRUE /\ b.answer = a /\ a.verified \in BOOLEAN
               /\ a.dns.spf = TRUE /\ a.dns.dkim = key /\ a.dns.pv \in BOOLEAN
               /\ a.dns \in [spf : BOOLEAN, dkim : {Blank, key}, pv : BOOLEAN]
    <2>1. PICK pv \in BOOLEAN : a.dns = [spf |-> TRUE, dkim |-> key, pv |-> pv]
      BY <1>4
    <2> QED BY <1>4, <1>5, <2>1
  <1>6. ASSUME NEW x \in {k, key}, b = Mute(x)
        PROVE  /\ b.key = x /\ b.ok = FALSE /\ b.answer.verified = FALSE
               /\ b.answer.dns.spf = FALSE /\ b.answer.dns.dkim = Blank /\ b.answer.dns.pv = FALSE
               /\ b.answer.dns \in [spf : BOOLEAN, dkim : {Blank, x}, pv : BOOLEAN]
    <2>1. b.answer.dns = [spf |-> FALSE, dkim |-> Blank, pv |-> FALSE]
      BY <1>3, <1>6
    <2> QED BY <1>3, <1>6, <2>1
  <1>7. CASE b = Mute(k) \/ b = Mute(key)
    BY <1>1, <1>6, <1>7
  <1> QED BY <1>1, <1>2, <1>5, <1>7

\* Postal has the key it had, or the one it made, and one if the bridge answered.
LEMMA BridgeKeys ==
    ASSUME NEW k \in Nat, NEW fresh \in Nat \ {0}, NEW b \in Provision(k, fresh)
    PROVE  b.key \in {k, fresh} /\ (k # Blank => b.key = k) /\ (b.ok => b.key # Blank)
  BY BridgeTells

\* What is merged after Postal was asked is what it told, or that with the bridge's answer.
LEMMA MergeCases ==
    ASSUME NEW k, NEW found, NEW r \in MergeWebhook(k, found)
    PROVE  \/ r = [key |-> k, success |-> TRUE, outcome |-> "exists", merged |-> FALSE,
                   patch |-> found, verified |-> FALSE, believed |-> FALSE]
           \/ \E b \in Provision(k, k) :
                /\ b.ok
                /\ r = [key |-> k, success |-> TRUE, outcome |-> "exists",
                        merged |-> Merged(Patched(found, b.answer.dns), b.answer.verified),
                        patch |-> Patched(found, b.answer.dns), verified |-> b.answer.verified, believed |-> FALSE]
  <1>1. PICK s : s = [Failed(k) EXCEPT !.success = TRUE, !.outcome = "exists", !.patch = found]
    OBVIOUS
  <1>2. s = [key |-> k, success |-> TRUE, outcome |-> "exists", merged |-> FALSE,
             patch |-> found, verified |-> FALSE, believed |-> FALSE]
    BY <1>1 DEF Failed
  <1>3. ASSUME r # s
        PROVE  \E b \in Provision(k, k) :
                 LET With(dns, verified) == [s EXCEPT !.patch = dns, !.verified = verified,
                                                      !.merged = Merged(dns, verified)]
                 IN  b.ok /\ r = With(Patched(found, b.answer.dns), b.answer.verified)
    BY <1>1, <1>3 DEF MergeWebhook
  <1>4. CASE r = s
    BY <1>2, <1>4
  <1>5. CASE r # s
    <2>1. PICK b \in Provision(k, k) :
             LET With(dns, verified) == [s EXCEPT !.patch = dns, !.verified = verified,
                                                  !.merged = Merged(dns, verified)]
             IN  b.ok /\ r = With(Patched(found, b.answer.dns), b.answer.verified)
      BY <1>3, <1>5
    <2>2. PICK p, v, m : /\ p = Patched(found, b.answer.dns) /\ v = b.answer.verified
                         /\ m = Merged(Patched(found, b.answer.dns), b.answer.verified)
      OBVIOUS
    <2>3. r.merged = m /\ r.patch = p /\ r.verified = v
      BY <1>2, <2>1, <2>2
    <2>4. r = [key |-> k, success |-> TRUE, outcome |-> "exists", merged |-> r.merged,
               patch |-> r.patch, verified |-> r.verified, believed |-> FALSE]
      BY <1>2, <2>1
    <2> QED BY <2>1, <2>2, <2>3, <2>4
  <1> QED BY <1>4, <1>5

\* The bridge is not configured, refuses or answers.
LEMMA TryCases ==
    ASSUME NEW k \in Nat, NEW fresh \in Nat \ {0}, NEW x \in TryWebhook(k, fresh)
    PROVE  \/ \E y \in {k, fresh} : (k # Blank => y = k) /\ x \in {Failed(y), Believed(Failed(y))}
           \/ \E b \in Provision(k, fresh) :
                /\ b.ok
                /\ x = [key |-> b.key, success |-> TRUE,
                        outcome |-> IF k = Blank THEN "created" ELSE "exists",
                        merged |-> Merged(b.answer.dns, b.answer.verified),
                        patch |-> b.answer.dns, verified |-> b.answer.verified, believed |-> FALSE]
  <1>0. \A b \in Provision(k, fresh) : b.key \in {k, fresh} /\ (k # Blank => b.key = k)
    BY BridgeKeys
  <1>1. \/ x = Failed(k)
        \/ \E y \in {k, CreateDomain(k, fresh)} : x = Believed(Failed(y))
        \/ \E b \in Provision(k, fresh) :
             x = IF b.ok THEN [key |-> b.key, success |-> TRUE,
                              outcome |-> IF k = Blank THEN "created" ELSE "exists",
                              merged |-> Merged(b.answer.dns, b.answer.verified),
                              patch |-> b.answer.dns, verified |-> b.answer.verified, believed |-> FALSE]
                 ELSE Failed(b.key)
    BY Zenon DEF TryWebhook
  <1>2. CASE x = Failed(k)
    BY <1>2
  <1>3. ASSUME NEW b \in Provision(k, fresh), ~b.ok, x = Failed(b.key)
        PROVE  \E y \in {k, fresh} : (k # Blank => y = k) /\ x = Failed(y)
    BY <1>0, <1>3
  <1>4. CreateDomain(k, fresh) \in {k, fresh} /\ (k # Blank => CreateDomain(k, fresh) = k)
    BY DEF CreateDomain
  <1>5. ASSUME NEW y \in {k, CreateDomain(k, fresh)}, x = Believed(Failed(y))
        PROVE  \E z \in {k, fresh} : (k # Blank => z = k) /\ x = Believed(Failed(z))
    BY <1>4, <1>5
  <1> QED BY <1>1, <1>2, <1>3, <1>5, Zenon

\* What a result is that was taken for a success.
LEMMA Misread ==
    ASSUME NEW k, NEW f, f = Failed(k)
    PROVE  /\ f = [key |-> k, success |-> FALSE, outcome |-> "failed", merged |-> FALSE,
                   patch |-> Nothing, verified |-> FALSE, believed |-> FALSE]
           /\ Believed(f) = [key |-> k, success |-> TRUE, outcome |-> "created", merged |-> FALSE,
                             patch |-> Nothing, verified |-> FALSE, believed |-> TRUE]
  <1>1. f = [key |-> k, success |-> FALSE, outcome |-> "failed", merged |-> FALSE,
             patch |-> Nothing, verified |-> FALSE, believed |-> FALSE]
    BY DEF Failed
  <1>2. PICK m : m = [f EXCEPT !.success = TRUE, !.outcome = "created", !.believed = TRUE]
    OBVIOUS
  <1>3. m = [key |-> k, success |-> TRUE, outcome |-> "created", merged |-> FALSE,
             patch |-> Nothing, verified |-> FALSE, believed |-> TRUE]
    <2>1. DOMAIN m = {"key", "success", "outcome", "merged", "patch", "verified", "believed"}
      BY <1>1, <1>2
    <2>2. /\ m.key = k /\ m.success = TRUE /\ m.outcome = "created" /\ m.merged = FALSE
          /\ m.patch = Nothing /\ m.verified = FALSE /\ m.believed = TRUE
      BY <1>1, <1>2
    <2>3. m = [x \in DOMAIN f |-> m[x]]
      BY <1>2, Zenon
    <2> QED BY <1>1, <2>1, <2>2, <2>3
  <1>4. Believed(f) = m
    BY <1>2, Zenon DEF Believed
  <1> QED BY <1>1, <1>3, <1>4

\* An attempt to provision leaves the key Postal had, or made; its success means that there
\* is one; and the bridge is marked as asked only with the record, or on its word.
LEMMA EnsureAnswers ==
    ASSUME NEW k \in 0 .. MaxKeys, NEW fresh \in Nat \ {0},
           NEW r \in EnsureResults(k, fresh), r.key <= MaxKeys
    PROVE  /\ r.key \in 0 .. MaxKeys /\ (k # Blank => r.key = k)
           /\ r.success \in BOOLEAN /\ r.verified \in BOOLEAN /\ r.merged \in BOOLEAN
           /\ r.success => r.outcome \in {"created", "exists"} /\ (r.key # Blank \/ r.believed)
           /\ r.believed \in BOOLEAN /\ (r.believed => ~r.verified)
           /\ r.patch \in Answers /\ r.patch.dkim \in {Blank, r.key}
           /\ r.merged => r.patch.pv \/ r.verified
  <1>1. k \in Nat /\ 0 \in 0 .. MaxKeys
    BY DnsAssumption
  <1>2. PICK found \in Fetched(k) :
           r \in IF found.spf THEN MergeWebhook(k, found)
                 ELSE UNION {IF x.success THEN {x} ELSE TryExperimental(x, fresh)
                               : x \in TryWebhook(k, fresh)}
    BY DEF EnsureResults
  <1>3. found \in Answers /\ found.dkim \in {Blank, k} /\ (found.spf => k # Blank)
    BY Fetches
  <1>4. CASE found.spf
    <2>1. k # Blank
      BY <1>3, <1>4
    <2>2. r \in MergeWebhook(k, found)
      BY <1>2, <1>4
    <2>3. CASE r = [key |-> k, success |-> TRUE, outcome |-> "exists", merged |-> FALSE,
                    patch |-> found, verified |-> FALSE, believed |-> FALSE]
      BY <1>1, <1>3, <2>1, <2>3
    <2>4. ASSUME NEW b \in Provision(k, k), b.ok,
                 r = [key |-> k, success |-> TRUE, outcome |-> "exists",
                      merged |-> Merged(Patched(found, b.answer.dns), b.answer.verified),
                      patch |-> Patched(found, b.answer.dns), verified |-> b.answer.verified, believed |-> FALSE]
          PROVE  /\ r.key = k /\ r.success = TRUE /\ r.outcome = "exists" /\ r.believed = FALSE
                 /\ r.verified \in BOOLEAN /\ r.merged \in BOOLEAN
                 /\ r.patch \in Answers /\ r.patch.dkim \in {Blank, k}
                 /\ r.merged => r.patch.pv \/ r.verified
      <3>1. k \in Nat \ {0}
        BY <1>1, <2>1 DEF Blank
      <3>2. /\ b.answer.verified \in BOOLEAN
            /\ b.answer.dns.spf \in BOOLEAN /\ b.answer.dns.pv \in BOOLEAN
            /\ b.answer.dns.dkim \in {Blank, k}
        BY <1>1, <3>1, BridgeTells
      <3>4. /\ Patched(found, b.answer.dns) \in Answers
            /\ Patched(found, b.answer.dns).dkim \in {Blank, k}
            /\ Patched(found, b.answer.dns).pv = (found.pv \/ b.answer.dns.pv)
        BY <1>1, <1>3, <3>2 DEF Patched, Answers, Blank
      <3>5. /\ Merged(Patched(found, b.answer.dns), b.answer.verified) \in BOOLEAN
            /\ Merged(Patched(found, b.answer.dns), b.answer.verified)
                 => Patched(found, b.answer.dns).pv \/ b.answer.verified
        BY DEF Merged
      <3> QED BY <2>4, <3>2, <3>4, <3>5
    <2> QED BY <1>1, <2>1, <2>2, <2>3, <2>4, MergeCases
  <1>5. CASE ~found.spf
    <2>1. PICK x \in TryWebhook(k, fresh) : r \in IF x.success THEN {x} ELSE TryExperimental(x, fresh)
      BY <1>2, <1>5
    <2>2. \/ \E y \in {k, fresh} : (k # Blank => y = k) /\ x \in {Failed(y), Believed(Failed(y))}
          \/ \E b \in Provision(k, fresh) :
                /\ b.ok
                /\ x = [key |-> b.key, success |-> TRUE,
                        outcome |-> IF k = Blank THEN "created" ELSE "exists",
                        merged |-> Merged(b.answer.dns, b.answer.verified),
                        patch |-> b.answer.dns, verified |-> b.answer.verified, believed |-> FALSE]
      BY <1>1, <2>1, TryCases
    <2>3. ASSUME NEW y \in {k, fresh}, k # Blank => y = k, x \in {Failed(y), Believed(Failed(y))}
          PROVE  /\ r.key \in {k, fresh} /\ (k # Blank => r.key = k)
                 /\ r.success \in BOOLEAN /\ r.believed \in BOOLEAN
                 /\ r.success => r.outcome = "created" /\ (r.key # Blank \/ r.believed)
                 /\ r.verified = FALSE /\ r.merged = FALSE /\ r.patch = Nothing
      <3>1. PICK f : f = Failed(y)
        OBVIOUS
      <3>a. PICK m : m = Believed(f)
        OBVIOUS
      <3>2. f = [key |-> y, success |-> FALSE, outcome |-> "failed", merged |-> FALSE,
                 patch |-> Nothing, verified |-> FALSE, believed |-> FALSE]
        BY <3>1, Misread
      <3>3. m = [key |-> y, success |-> TRUE, outcome |-> "created", merged |-> FALSE,
                 patch |-> Nothing, verified |-> FALSE, believed |-> TRUE]
        BY <3>1, <3>a, Misread
      <3>4. PICK key : key = CreateDomain(y, fresh)
        OBVIOUS
      <3>5. key \in {k, fresh} /\ key # Blank /\ (k # Blank => key = k)
        BY <2>3, <3>4 DEF CreateDomain, Blank
      <3>6. CASE x = m
        <4>1. r = m
          BY <2>1, <3>3, <3>6
        <4> QED BY <2>3, <3>3, <4>1
      <3>7. CASE x = f
        <4>1. PICK g, h : /\ g = [f EXCEPT !.key = CreateDomain(@, fresh)]
                          /\ h = [g EXCEPT !.success = TRUE, !.outcome = "created"]
          OBVIOUS
        <4>2. r \in {f, m, g, h}
          <5>1. r \in TryExperimental(f, fresh)
            BY <2>1, <3>2, <3>7
          <5>2. TryExperimental(f, fresh) \subseteq {f, m, g, h}
            BY <3>a, <4>1, Zenon DEF TryExperimental
          <5> QED BY <5>1, <5>2
        <4>3. /\ g = [key |-> key, success |-> FALSE, outcome |-> "failed", merged |-> FALSE,
                      patch |-> Nothing, verified |-> FALSE, believed |-> FALSE]
              /\ h = [key |-> key, success |-> TRUE, outcome |-> "created", merged |-> FALSE,
                      patch |-> Nothing, verified |-> FALSE, believed |-> FALSE]
          <5>1. g = [f EXCEPT !.key = key]
            BY <3>2, <3>4, <4>1
          <5> QED BY <3>2, <4>1, <5>1
        <4>4. CASE r = f
          BY <2>3, <3>2, <4>4
        <4>5. CASE r = m
          BY <2>3, <3>3, <4>5
        <4>6. CASE r = g
          BY <3>5, <4>3, <4>6
        <4>7. CASE r = h
          BY <3>5, <4>3, <4>7
        <4> QED BY <4>2, <4>4, <4>5, <4>6, <4>7
      <3> QED BY <2>3, <3>1, <3>a, <3>6, <3>7
    <2>4. Nothing \in Answers /\ Nothing.dkim = Blank
      BY <1>1 DEF Nothing, Answers, Blank
    <2>5. r.key \in Nat => r.key \in 0 .. MaxKeys
      BY DnsAssumption
    <2>6. ASSUME NEW b \in Provision(k, fresh), b.ok,
                 x = [key |-> b.key, success |-> TRUE,
                      outcome |-> IF k = Blank THEN "created" ELSE "exists",
                      merged |-> Merged(b.answer.dns, b.answer.verified),
                      patch |-> b.answer.dns, verified |-> b.answer.verified, believed |-> FALSE]
          PROVE  /\ r.key \in {k, fresh} /\ (k # Blank => r.key = k)
                 /\ r.success = TRUE /\ r.outcome \in {"created", "exists"} /\ r.key # Blank
                 /\ r.believed = FALSE /\ r.verified \in BOOLEAN /\ r.merged \in BOOLEAN
                 /\ r.patch \in Answers /\ r.patch.dkim \in {Blank, r.key}
                 /\ r.merged => r.patch.pv \/ r.verified
      <3>1. r = x
        BY <2>1, <2>6
      <3>2. /\ b.key \in {k, fresh} /\ (k # Blank => b.key = k) /\ b.key # Blank
            /\ b.answer.verified \in BOOLEAN
            /\ b.answer.dns.spf \in BOOLEAN /\ b.answer.dns.pv \in BOOLEAN
            /\ b.answer.dns.dkim \in {Blank, b.key}
            /\ b.answer.dns \in [spf : BOOLEAN, dkim : {Blank, b.key}, pv : BOOLEAN]
        BY <1>1, <2>6, BridgeTells
      <3>3. /\ Merged(b.answer.dns, b.answer.verified) \in BOOLEAN
            /\ Merged(b.answer.dns, b.answer.verified) => b.answer.dns.pv \/ b.answer.verified
        BY DEF Merged
      <3>4. r.key = b.key /\ b.key \in 0 .. MaxKeys
        BY <1>1, <2>5, <2>6, <3>1, <3>2
      <3>5. b.answer.dns \in Answers
        BY <1>1, <3>2, <3>4 DEF Answers, Blank
      <3> QED BY <2>6, <3>1, <3>2, <3>3, <3>4, <3>5
    <2> QED BY <1>1, <2>2, <2>3, <2>4, <2>5, <2>6
  <1> QED BY <1>4, <1>5

-----------------------------------------------------------------------------
(* Edits of a row. *)

\* save(update_fields=...) leaves a row with the fields of the copy it saves.
LEMMA Saves ==
    ASSUME NEW ids, NEW r \in Td(ids), NEW td \in Td(ids), NEW touched, NEW x,
           x = Saved(r, td, touched)
    PROVE  /\ x \in Td(ids) /\ Same(x, r) /\ x.primary = r.primary
           /\ "prov" \in touched => x.prov = td.prov
           /\ "prov" \notin touched => x.prov = r.prov
           /\ "dns" \in touched => x.dkim = td.dkim /\ x.pv = td.pv
           /\ "dns" \notin touched => x.dkim = r.dkim /\ x.pv = r.pv
           /\ "bridge" \notin touched => x.bridge_at = r.bridge_at
  BY ZenonT(60) DEF Saved, Td, Same

\* The check writes its verdict and nothing else.
LEMMA Judges ==
    ASSUME NEW ids, NEW td \in Td(ids), NEW dns
    PROVE  /\ CheckTenantDomainDns(td, dns).verified \in BOOLEAN
           /\ CheckTenantDomainDns(td, dns).status \in Statuses
  <1> DEFINE spf == SpfOk(td, dns)
             dkim == DkimOk(td, dns)
             Verdict(status, verified) == [td EXCEPT !.status = status, !.verified = verified]
  <1>1. \A st \in Statuses, v \in BOOLEAN :
          Verdict(st, v).verified = v /\ Verdict(st, v).status = st
    BY DEF Td
  <1>2. \E st \in Statuses, v \in BOOLEAN : CheckTenantDomainDns(td, dns) = Verdict(st, v)
    BY DEF CheckTenantDomainDns, Statuses, SpfOk, DkimOk, DmarcOk
  <1> QED BY <1>1, <1>2

\* A row after the row c is made the primary one.
Pointed(y, c) == [y EXCEPT !.primary = (y = c)]

\* A new row.
LEMMA NewRow ==
    ASSUME NEW t \in Tenants, NEW d \in Domains
    PROVE  /\ NewDomain(t, d) \in Td({0})
           /\ NewDomain(t, d).id = 0 /\ NewDomain(t, d).tenant = t /\ NewDomain(t, d).domain = d
  BY DnsAssumption DEF NewDomain, Td, Statuses, Blank

-----------------------------------------------------------------------------
(* Counting. *)

\* A set of records with as many ids as records is no larger than a set with those ids.
LEMMA NoMore ==
    ASSUME NEW S, NEW T, IsFiniteSet(T),
           \A x \in S : \E y \in T : y.id = x.id,
           \A x, y \in S : x.id = y.id => x = y
    PROVE  IsFiniteSet(S) /\ Cardinality(S) <= Cardinality(T)
  <1> DEFINE f == [x \in S |-> CHOOSE y \in T : y.id = x.id]
  <1>1. \A x \in S : f[x] \in T /\ f[x].id = x.id
    OBVIOUS
  <1>2. f \in [S -> T]
    BY <1>1
  <1>3. \A x, y \in S : f[x] = f[y] => x = y
    BY <1>1
  <1> HIDE DEF f
  <1>4. f \in Injection(S, T)
    BY <1>2, <1>3 DEF Injection, IsInjective
  <1> QED BY <1>4, FS_Injection

\* A set of numbers that has an element has a least one.
LEMMA Least ==
  ASSUME NEW S, S \subseteq Nat, S # {}
  PROVE \E x \in S : \A y \in S : x <= y
  <1> DEFINE Below(x) == {y \in S : y < x}
             T == {Below(x) : x \in S}
  <1>1. /\ \A x \in S : x \in Nat
        /\ \A x \in S : Below(x) \in T /\ Below(x) \in SUBSET S
        /\ \A x, y \in S : y \in Below(x) <=> y < x
        /\ \A t \in T : \E x \in S : t = Below(x)
        /\ T # {}
    OBVIOUS
  <1> HIDE DEF Below, T
  <1>2. ASSUME NEW x \in S
        PROVE  Below(x) \in FiniteSubsetsOf(S)
    <2>1. \A y \in Below(x) : y \in 0..x
      <3> SUFFICES ASSUME NEW y \in Below(x)
                   PROVE  y \in 0..x
        OBVIOUS
      <3>1. y \in S
        BY <1>1
      <3>2. y < x /\ y \in Nat /\ x \in Nat
        BY <1>1, <3>1
      <3> QED BY <3>2
    <2>2. IsFiniteSet(0..x)
      BY <1>1, FS_Interval, x \in Int, 0 \in Int
    <2>3. Below(x) \in SUBSET (0..x)
      BY <2>1
    <2>4. IsFiniteSet(Below(x))
      BY <2>2, <2>3, FS_Subset
    <2> QED BY <1>1, <2>4 DEF FiniteSubsetsOf
  <1>3. T \subseteq FiniteSubsetsOf(S)
    BY <1>1, <1>2
  <1>4. PICK t \in T : \A u \in T : ~(<<u, t>> \in StrictSubsetOrdering(S))
    BY <1>1, <1>3, FS_StrictSubsetOrderingWellFounded, WFMin
  <1>5. PICK x \in S : t = Below(x)
    BY <1>1
  <1>6. ASSUME NEW y \in S, y < x
        PROVE  FALSE
    <2>1. x \in Nat /\ y \in Nat
      BY <1>1
    <2>2. ASSUME NEW z \in Below(y)
          PROVE  z \in Below(x)
      <3>1. z \in S
        BY <1>1
      <3>2. z < y /\ z \in Nat
        BY <1>1, <3>1
      <3>3. z < x
        BY <1>6, <2>1, <3>2
      <3> QED BY <1>1, <3>1, <3>3
    <2>3. Below(y) \subseteq Below(x) /\ Below(y) # Below(x)
      BY <1>1, <1>6, <2>1, <2>2
    <2>4. <<Below(y), Below(x)>> \in StrictSubsetOrdering(S)
      BY <1>1, <2>3 DEF StrictSubsetOrdering
    <2> QED BY <1>1, <1>4, <1>5, <2>4
  <1> QED BY <1>1, <1>6

-----------------------------------------------------------------------------
(* Rows and jobs. *)

\* The fields of a row.
LEMMA Fields ==
    ASSUME NEW ids, NEW r \in Td(ids)
    PROVE  /\ r.id \in ids /\ r.tenant \in Tenants /\ r.domain \in Domains
           /\ r.primary \in BOOLEAN /\ r.pv \in BOOLEAN /\ r.bridge_at \in BOOLEAN
           /\ r.dkim \in 0 .. MaxKeys /\ r.verified \in BOOLEAN /\ r.status \in Statuses
  BY DEF Td

\* Rows with fewer ids are rows.
LEMMA MoreIds ==
    ASSUME NEW a, NEW b, a \subseteq b, NEW r \in Td(a)
    PROVE  r \in Td(b)
  BY DEF Td

\* The fields of a job.
LEMMA JobFields ==
    ASSUME NEW n, NEW j \in Jobs(n)
    PROVE  /\ j.pc \in {"idle", "add", "insert", "sync", "ensure", "resync",
                         "verify", "promote", "unlist", "drop"}
           /\ j.td \in Td(0 .. n) \cup {NoDomain} /\ j.blank \in BOOLEAN /\ j.first \in BOOLEAN
           /\ j.force \in BOOLEAN /\ j.touched \in SUBSET {"dns", "prov", "bridge"}
  BY DEF Jobs

\* A process between two requests.
LEMMA IdleJob ==
    ASSUME NEW n
    PROVE  Idle \in Jobs(n) /\ Idle.pc = "idle" /\ Idle.touched = {}
  BY DEF Idle, Jobs

\* The facts of Typed about the rows.
LEMMA RowFacts ==
    ASSUME Typed
    PROVE  /\ used \in Nat /\ used <= MaxRows /\ MaxRows \in Nat
           /\ \A r \in rows : /\ r \in Td(1 .. used) /\ r \in Td(0 .. used) /\ r.id \in 1 .. used
                             /\ r.id \in Ids /\ r.id \notin Tenants
                             /\ r.tenant \in Tenants /\ r.domain \in Domains /\ Here(r.tenant)
           /\ \A r, x \in rows : r.id = x.id => r = x
  <1>1. /\ used \in 0 .. MaxRows /\ MaxRows \in Nat /\ rows \subseteq Td(1 .. used)
        /\ Distinct(rows) /\ \A r \in rows : Here(r.tenant)
    BY DomainsAssumption DEF Typed, TypeOK
  <1>2. used \in Nat /\ used <= MaxRows
    BY <1>1
  <1>3. ASSUME NEW r \in rows
        PROVE  /\ r \in Td(1 .. used) /\ r \in Td(0 .. used) /\ r.id \in 1 .. used /\ r.id \in Ids
               /\ r.id \notin Tenants /\ r.tenant \in Tenants /\ r.domain \in Domains
    <2>1. r \in Td(1 .. used)
      BY <1>1
    <2>2. r \in Td(0 .. used)
      BY <1>2, <2>1, MoreIds, 1 .. used \subseteq 0 .. used
    <2>3. r.id \in 1 .. used /\ r.tenant \in Tenants /\ r.domain \in Domains
      BY <2>1, Fields
    <2>4. r.id \in Ids
      BY <1>1, <1>2, <2>3 DEF Ids
    <2> QED BY <2>1, <2>2, <2>3, <2>4, DomainsAssumption
  <1> QED BY <1>1, <1>2, <1>3 DEF Distinct

\* The row with an id.
LEMMA RowIs ==
    ASSUME NEW id, HasRow(id)
    PROVE  Row(id) \in rows /\ Row(id).id = id
  BY DEF HasRow, Row

-----------------------------------------------------------------------------
(* The steps, by what they change. *)

\* What a process has in hand next, when only that changes.
AsksFor(p, j) ==
    \/ j = Idle
    \/ /\ job[p] = Idle /\ j.pc = "add" /\ j.touched = {}
       /\ \E t \in Tenants, d \in Domains : j.td = NewDomain(t, d) /\ CanAddSendingDomain(t)
    \/ /\ job[p].pc = "add" /\ j.pc = "insert"
       /\ j.td = job[p].td /\ j.touched = job[p].touched
    \/ j.pc \in {"sync", "verify", "promote", "unlist", "drop"} /\ j.td \in rows /\ j.touched = {}
    \/ /\ job[p].pc = "sync" /\ j.pc = "ensure" /\ "bridge" \notin j.touched
       /\ \E a \in Fetched(postal[job[p].td.domain]) : j.td = Patched(job[p].td, a)

Asks(p) ==
    /\ \E j \in Jobs(used) : job' = [job EXCEPT ![p] = j] /\ AsksFor(p, j)
    /\ UNCHANGED <<tenant, rows, postal, made, used, past>>

\* What the save of td over the row r may say, for a process that loaded the row.
SaveOK(p, r, td, touched) ==
    /\ job[p].pc \in {"sync", "resync"} /\ job[p].td.id = r.id
    /\ Claims(job[p].td) => Claims(td)
    /\ td.id = r.id /\ td.domain = r.domain
    /\ job[p].td.pv => td.pv
    /\ "bridge" \in touched => /\ job[p].pc = "resync" /\ "bridge" \in job[p].touched
                               /\ "dns" \in job[p].touched => "dns" \in touched

Writes(p) ==
    /\ \E r \in rows, x \in Td(1 .. used) :
          /\ rows' = (rows \ {r}) \cup {x}
          /\ Same(x, r) /\ x.primary = r.primary
          /\ \/ /\ x.prov = r.prov /\ x.dkim = r.dkim /\ x.pv = r.pv /\ x.bridge_at = r.bridge_at
                /\ past' = past
             \/ \E td \in Td(1 .. used), touched \in SUBSET {"dns", "prov", "bridge"} :
                   /\ SaveOK(p, r, td, touched) /\ x = Saved(r, td, touched)
                   /\ IF "dns" \in touched /\ r.pv /\ ~td.pv
                      THEN Remember({r.id}, "clobbered") ELSE UNCHANGED past
    /\ job' = [job EXCEPT ![p] = Idle]
    /\ UNCHANGED <<tenant, postal, made, used>>

Provisions(p) ==
    /\ job[p].pc = "ensure"
    /\ \E d \in Domains, k \in 0 .. MaxKeys, td \in Td(1 .. used),
          told \in {"vouched", "believed", "nothing"}, touched \in SUBSET {"dns", "prov", "bridge"} :
          /\ d = job[p].td.domain
          /\ postal[d] # Blank => k = postal[d]
          /\ postal' = [postal EXCEPT ![d] = k]
          /\ Same(td, job[p].td)
          /\ td.prov \in {"created", "exists"} => k # Blank \/ told = "believed"
          /\ td.dkim \in {job[p].td.dkim, k}
          /\ "bridge" \in touched => told = "vouched" \/ ("dns" \in touched /\ td.pv)
          /\ job' = [job EXCEPT ![p] = [@ EXCEPT !.pc = "resync", !.td = td, !.touched = touched]]
          /\ IF told = "nothing" THEN UNCHANGED past ELSE Remember({td.id}, told)
    /\ made' \in [Domains -> 0 .. MaxKeys]
    /\ UNCHANGED <<tenant, rows, used>>

Inserts(p) == Insert(p) /\ NotAdded(job[p].td.tenant, job[p].td.domain) /\ Here(job[p].td.tenant)

\* One of some rows of the tenant becomes the primary one; the others are gone.
Repoints(p) ==
    /\ \E t \in Tenants :
          /\ Here(t) /\ Settled(t)
          /\ \E rest \in SUBSET RowsOf(t) :
                \/ /\ rest = {} /\ rows' = rows \ RowsOf(t)
                   /\ SetSending(t, Blank)
                \/ \E c \in rest : /\ rows' = (rows \ RowsOf(t)) \cup OnlyPrimary(rest, c)
                                   /\ SetSending(t, c.domain)
    /\ job' = [job EXCEPT ![p] = Idle]
    /\ UNCHANGED <<postal, made, used>>

\* A process that answers, and nothing else happens.
LEMMA AnswersOnly ==
    ASSUME NEW p \in Procs, Answer(p), UNCHANGED <<tenant, rows, postal, made, used, past>>
    PROVE  Asks(p)
  BY IdleJob, Zenon DEF Asks, AsksFor, Answer

\* A save of what a process has in hand writes its row, if it is still there.
LEMMA SaveStep ==
    ASSUME Typed, Hands, NEW p \in Procs, NEW td \in Td(1 .. used),
           NEW touched \in SUBSET {"dns", "prov", "bridge"},
           job[p].pc \in {"sync", "resync"}, Save(p, td, touched), Same(td, job[p].td),
           Claims(job[p].td) => Claims(td), job[p].td.pv => td.pv,
           "bridge" \in touched => /\ job[p].pc = "resync" /\ "bridge" \in job[p].touched
                                   /\ "dns" \in job[p].touched => "dns" \in touched,
           UNCHANGED <<tenant, postal, made, used>>
    PROVE  Asks(p) \/ Writes(p)
  <1>1. CASE HasRow(td.id) /\ touched # {}
    <2>1. PICK r : r = Row(td.id)
      OBVIOUS
    <2>2. r \in rows /\ r.id = td.id
      BY <1>1, <2>1, RowIs
    <2>3. /\ rows' = (rows \ {r}) \cup {Saved(r, td, touched)}
          /\ IF "dns" \in touched /\ r.pv /\ ~td.pv THEN Remember({r.id}, "clobbered") ELSE UNCHANGED past
          /\ job' = [job EXCEPT ![p] = Idle]
      BY <1>1, <2>1, Zenon DEF Save, Answer
    <2>4. r \in Td(1 .. used)
      BY <2>2, RowFacts
    <2>5. PICK x \in Td(1 .. used) : /\ x = Saved(r, td, touched)
                                     /\ Same(x, r) /\ x.primary = r.primary
      BY <2>4, Saves
    <2>6. Loaded(p)
      BY DEF Loaded
    <2>7. td.domain = r.domain /\ job[p].td.id = r.id
      <3>1. JobOK(p)
        BY DEF Hands
      <3>2. Same(r, job[p].td)
        BY <2>2, <2>6, <3>1 DEF JobOK, Same
      <3> QED BY <2>2, <3>2 DEF Same
    <2>8. SaveOK(p, r, td, touched)
      BY <2>2, <2>7 DEF SaveOK
    <2> QED BY <2>2, <2>3, <2>5, <2>8, Zenon DEF Writes
  <1>2. CASE ~(HasRow(td.id) /\ touched # {})
    <2>1. UNCHANGED <<rows, past>> /\ Answer(p)
      BY <1>2, Zenon DEF Save
    <2> QED BY <2>1, AnswersOnly
  <1> QED BY <1>1, <1>2

\* A copy of a row with what Postal told of its domain.
LEMMA PatchStep ==
    ASSUME Typed, NEW td \in Td(1 .. used), NEW a \in Fetched(postal[td.domain])
    PROVE  /\ Patched(td, a) \in Td(1 .. used) /\ Same(Patched(td, a), td)
           /\ Patched(td, a).prov = td.prov /\ (td.pv => Patched(td, a).pv)
           /\ Claims(td) => Claims(Patched(td, a))
           /\ Told(a) \in SUBSET {"dns"}
  <1>1. td.domain \in Domains /\ postal[td.domain] \in 0 .. MaxKeys
    BY Fields DEF Typed, TypeOK
  <1>2. a \in Answers /\ a.dkim \in {Blank, postal[td.domain]}
    BY <1>1, Fetches
  <1> QED BY <1>2, Patches, ZenonT(60) DEF Claims, Same, Told

\* A copy of a row said to exist in Postal when it has its key.
LEMMA ExistsStep ==
    ASSUME NEW ids, NEW td \in Td(ids), NEW x, x = [td EXCEPT !.prov = "exists"]
    PROVE  /\ x \in Td(ids) /\ Same(x, td) /\ x.pv = td.pv
           /\ Ready(td) /\ Claims(td) => Claims(x)
  BY DEF Td, Same, Claims, Ready, ResolveDkim, ResolveSpf

\* A process at work has a row in hand.
LEMMA InHand ==
    ASSUME Typed, Hands, NEW p \in Procs, Loaded(p)
    PROVE  /\ job[p].td \in Td(1 .. used) /\ job[p].td.domain \in Domains
           /\ postal[job[p].td.domain] \in 0 .. MaxKeys
           /\ job[p].touched \in SUBSET {"dns", "prov", "bridge"}
           /\ job[p].td.id \in Ids /\ job[p].td.id \in 1 .. used /\ job[p].td.tenant \in Tenants
           /\ \A r \in rows : r.id = job[p].td.id => Same(r, job[p].td)
           /\ job[p].pc \in {"sync", "ensure"} => "bridge" \notin job[p].touched
  <1>1. JobOK(p)
    BY DEF Hands
  <1>2. job[p].td \in Td(1 .. used)
    BY <1>1 DEF JobOK
  <1>3. job[p].td.domain \in Domains /\ job[p].td.id \in 1 .. used /\ job[p].td.tenant \in Tenants
    BY <1>2, Fields
  <1>4. job[p].td.id \in Ids
    BY <1>3, RowFacts DEF Ids
  <1>5. job[p] \in Jobs(used)
    BY DEF Typed
  <1>6. postal[job[p].td.domain] \in 0 .. MaxKeys
    BY <1>3 DEF Typed, TypeOK
  <1> QED BY <1>1, <1>2, <1>3, <1>4, <1>5, <1>6, JobFields DEF JobOK

\* Looking for the records at Postal ends in a save, in an answer, or in provisioning.
LEMMA SyncStep ==
    ASSUME Typed, Hands, NEW p \in Procs, Sync(p)
    PROVE  Asks(p) \/ Writes(p)
  <1>1. Loaded(p) /\ job[p].pc = "sync"
    BY DEF Sync, Loaded
  <1>2. /\ job[p].td \in Td(1 .. used) /\ job[p].touched \in SUBSET {"dns", "prov", "bridge"}
    BY <1>1, InHand
  <1>3. PICK answer \in Fetched(postal[job[p].td.domain]) :
          LET td    == Patched(job[p].td, answer)
              needs == NeedsBridgeVerificationFetch(td)
              done  == Ready(td) /\ ~needs
          IN  \/ /\ done
                 /\ Save(p, [td EXCEPT !.prov = "exists"],
                         Told(answer) \cup (IF td.prov = "exists" THEN {} ELSE {"prov"}))
              \/ /\ ~done /\ ~job[p].force /\ ~needs /\ td.tried
                 /\ Save(p, td, Told(answer))
              \/ /\ ~done
                 /\ job' = [job EXCEPT ![p].pc = "ensure", ![p].td = td, ![p].touched = Told(answer)]
                 /\ UNCHANGED <<rows, past>>
    BY Zenon DEF Sync
  <1>4. PICK td : td = Patched(job[p].td, answer)
    OBVIOUS
  <1>5. /\ td \in Td(1 .. used) /\ Same(td, job[p].td) /\ (job[p].td.pv => td.pv)
        /\ Claims(job[p].td) => Claims(td)
        /\ Told(answer) \in SUBSET {"dns"}
    BY <1>2, <1>4, PatchStep
  <1>6. UNCHANGED <<tenant, postal, made, used>>
    BY DEF Sync
  <1>7. CASE /\ Ready(td)
             /\ Save(p, [td EXCEPT !.prov = "exists"],
                        Told(answer) \cup (IF td.prov = "exists" THEN {} ELSE {"prov"}))
    <2>1. PICK x, touched : /\ x = [td EXCEPT !.prov = "exists"]
                            /\ touched = Told(answer) \cup (IF td.prov = "exists" THEN {} ELSE {"prov"})
      OBVIOUS
    <2>2. x \in Td(1 .. used) /\ Same(x, td) /\ x.pv = td.pv /\ (Ready(td) /\ Claims(td) => Claims(x))
      BY <1>5, <2>1, ExistsStep
    <2>3. touched \in SUBSET {"dns", "prov", "bridge"} /\ "bridge" \notin touched
      BY <1>5, <2>1
    <2>4. Save(p, x, touched)
      BY <1>7, <2>1, Zenon
    <2>5. Same(x, job[p].td) /\ (job[p].td.pv => x.pv) /\ (Claims(job[p].td) => Claims(x))
      BY <1>5, <1>7, <2>2 DEF Same
    <2> QED BY <1>1, <1>6, <2>2, <2>3, <2>4, <2>5, SaveStep
  <1>8. CASE Save(p, td, Told(answer))
    <2>1. PICK touched : touched = Told(answer)
      OBVIOUS
    <2>2. touched \in SUBSET {"dns", "prov", "bridge"} /\ "bridge" \notin touched /\ Save(p, td, touched)
      BY <1>5, <1>8, <2>1
    <2> QED BY <1>1, <1>5, <1>6, <2>2, SaveStep
  <1>9. CASE /\ job' = [job EXCEPT ![p].pc = "ensure", ![p].td = td, ![p].touched = Told(answer)]
             /\ UNCHANGED <<rows, past>>
    <2>1. job \in [Procs -> Jobs(used)]
      BY DEF Typed
    <2>2. td \in Td(0 .. used)
      BY <1>5, MoreIds, 1 .. used \subseteq 0 .. used
    <2>3. PICK touched : touched = Told(answer)
      OBVIOUS
    <2>4. touched \in SUBSET {"dns", "prov", "bridge"} /\ "bridge" \notin touched
      BY <1>5, <2>3
    <2>5. PICK j : j = [job[p] EXCEPT !.pc = "ensure", !.td = td, !.touched = touched]
      OBVIOUS
    <2>6. j \in Jobs(used) /\ j.pc = "ensure" /\ j.td = td /\ j.touched = touched
      BY <2>1, <2>2, <2>4, <2>5 DEF Jobs
    <2>7. job' = [job EXCEPT ![p] = j]
      BY <1>9, <2>1, <2>3, <2>5
    <2>8. AsksFor(p, j)
      BY <1>1, <1>4, <2>4, <2>6 DEF AsksFor
    <2> QED BY <1>6, <1>9, <2>6, <2>7, <2>8 DEF Asks
  <1> QED BY <1>3, <1>4, <1>7, <1>8, <1>9, Zenon

\* Looking once more, after provisioning, ends in a save or an answer.
LEMMA ResyncStep ==
    ASSUME Typed, Hands, NEW p \in Procs, Resync(p)
    PROVE  Asks(p) \/ Writes(p)
  <1>1. Loaded(p) /\ job[p].pc = "resync"
    BY DEF Resync, Loaded
  <1>2. job[p].td \in Td(1 .. used) /\ job[p].touched \in SUBSET {"dns", "prov", "bridge"}
    BY <1>1, InHand
  <1>3. PICK answer \in Fetched(postal[job[p].td.domain]) :
          LET td == Patched(job[p].td, answer)
          IN  Save(p, IF Ready(td) THEN [td EXCEPT !.prov = "exists"] ELSE td,
                   job[p].touched \cup Told(answer))
    BY Zenon DEF Resync
  <1>4. PICK td : td = Patched(job[p].td, answer)
    OBVIOUS
  <1>5. /\ td \in Td(1 .. used) /\ Same(td, job[p].td) /\ (job[p].td.pv => td.pv)
        /\ Claims(job[p].td) => Claims(td)
        /\ Told(answer) \in SUBSET {"dns"}
    BY <1>2, <1>4, PatchStep
  <1>6. PICK y : y = [td EXCEPT !.prov = "exists"]
    OBVIOUS
  <1>7. y \in Td(1 .. used) /\ Same(y, td) /\ y.pv = td.pv /\ (Ready(td) /\ Claims(td) => Claims(y))
    BY <1>5, <1>6, ExistsStep
  <1>8. PICK x, touched : /\ x = IF Ready(td) THEN y ELSE td
                          /\ touched = job[p].touched \cup Told(answer)
    OBVIOUS
  <1>9. /\ x \in Td(1 .. used) /\ Same(x, job[p].td) /\ (job[p].td.pv => x.pv)
        /\ Claims(job[p].td) => Claims(x)
    BY <1>5, <1>7, <1>8 DEF Same
  <1>10. /\ touched \in SUBSET {"dns", "prov", "bridge"}
         /\ "bridge" \in touched => "bridge" \in job[p].touched
         /\ "dns" \in job[p].touched => "dns" \in touched
    BY <1>2, <1>5, <1>8
  <1>11. Save(p, x, touched)
    BY <1>3, <1>4, <1>6, <1>8, Zenon
  <1>12. UNCHANGED <<tenant, postal, made, used>>
    BY DEF Resync
  <1> QED BY <1>1, <1>9, <1>10, <1>11, <1>12, SaveStep

\* The check writes its verdict over the row, if it is still there.
LEMMA VerifyStep ==
    ASSUME Typed, Hands, NEW p \in Procs, Verify(p)
    PROVE  Asks(p) \/ Writes(p)
  <1>1. Loaded(p)
    BY DEF Verify, Loaded
  <1>2. job[p].td \in Td(1 .. used)
    BY <1>1, InHand
  <1>3. PICK td \in {job[p].td} \cup {CheckTenantDomainDns(job[p].td, dns) : dns \in LiveDns} :
          rows' = IF HasRow(job[p].td.id)
                  THEN (rows \ {Row(job[p].td.id)}) \cup
                       {[Row(job[p].td.id) EXCEPT !.verified = td.verified, !.status = td.status]}
                  ELSE rows
    BY Zenon DEF Verify
  <1>4. td.verified \in BOOLEAN /\ td.status \in Statuses
    BY <1>2, Judges, Fields
  <1>5. Answer(p) /\ UNCHANGED <<tenant, postal, made, used, past>>
    BY DEF Verify
  <1>6. CASE HasRow(job[p].td.id)
    <2>1. PICK r : r = Row(job[p].td.id)
      OBVIOUS
    <2>2. PICK x : x = [r EXCEPT !.verified = td.verified, !.status = td.status]
      OBVIOUS
    <2>3. r \in rows /\ r \in Td(1 .. used)
      BY <1>6, <2>1, RowIs, RowFacts
    <2>4. /\ x \in Td(1 .. used) /\ Same(x, r) /\ x.primary = r.primary /\ x.prov = r.prov
          /\ x.dkim = r.dkim /\ x.pv = r.pv /\ x.bridge_at = r.bridge_at
      BY <1>4, <2>2, <2>3 DEF Td, Same
    <2>5. rows' = (rows \ {r}) \cup {x}
      BY <1>3, <1>6, <2>1, <2>2
    <2> QED BY <1>5, <2>3, <2>4, <2>5, Zenon DEF Writes, Answer
  <1>7. CASE ~HasRow(job[p].td.id)
    <2>1. rows' = rows
      BY <1>3, <1>7
    <2> QED BY <1>5, <2>1, AnswersOnly
  <1> QED BY <1>6, <1>7

\* The INSERT adds a row or is refused.
LEMMA InsertStep ==
    ASSUME Typed, NEW p \in Procs, Insert(p)
    PROVE  Asks(p) \/ Inserts(p)
  <1>1. CASE NotAdded(job[p].td.tenant, job[p].td.domain) /\ Here(job[p].td.tenant)
    BY <1>1 DEF Inserts
  <1>2. CASE ~(NotAdded(job[p].td.tenant, job[p].td.domain) /\ Here(job[p].td.tenant))
    <2>1. PICK td : td = [job[p].td EXCEPT !.id = used + 1, !.primary = job[p].first]
      OBVIOUS
    <2>2. td.domain = job[p].td.domain
      BY <2>1
    <2>3. Answer(p) /\ UNCHANGED <<rows, used, tenant, past>> /\ UNCHANGED <<postal, made, acts>>
      BY <1>2, <2>1, <2>2, Zenon DEF Insert
    <2> QED BY <2>3, AnswersOnly
  <1> QED BY <1>1, <1>2

\* The chosen row becomes the primary one of its tenant, if it is still there.
LEMMA MakePrimaryStep ==
    ASSUME Typed, Hands, NEW p \in Procs, MakePrimary(p)
    PROVE  Asks(p) \/ Repoints(p)
  <1>1. Loaded(p)
    BY DEF MakePrimary, Loaded
  <1>2. /\ job[p].td.tenant \in Tenants
        /\ \A r \in rows : r.id = job[p].td.id => Same(r, job[p].td)
    BY <1>1, InHand
  <1>3. Answer(p) /\ UNCHANGED <<postal, made, used, acts>>
    BY DEF MakePrimary
  <1>4. CASE HasRow(job[p].td.id)
    <2>1. PICK r : r = Row(job[p].td.id)
      OBVIOUS
    <2>2. r \in rows /\ r.id = job[p].td.id
      BY <1>4, <2>1, RowIs
    <2>3. Same(r, job[p].td) /\ Here(r.tenant)
      BY <1>2, <2>2, RowFacts
    <2>4. PICK t \in Tenants : t = job[p].td.tenant
      BY <1>2
    <2>5. r \in RowsOf(t) /\ Here(t) /\ job[p].td.domain = r.domain
      BY <2>2, <2>3, <2>4 DEF Same, RowsOf
    <2>6. /\ rows' = (rows \ RowsOf(t)) \cup OnlyPrimary(RowsOf(t), r)
          /\ SetSending(t, r.domain) /\ Settled(t)
      BY <1>4, <2>1, <2>4, <2>5, Zenon DEF MakePrimary
    <2>7. RowsOf(t) \in SUBSET RowsOf(t)
      OBVIOUS
    <2> QED BY <1>3, <2>5, <2>6, <2>7, Zenon DEF Repoints, Answer
  <1>5. CASE ~HasRow(job[p].td.id)
    <2>1. UNCHANGED <<rows, tenant, past>>
      BY <1>5, Zenon DEF MakePrimary
    <2> QED BY <1>3, <2>1, AnswersOnly
  <1> QED BY <1>4, <1>5

\* The first by name of some rows is one of them.
LEMMA FirstByName ==
    ASSUME NEW rs, rs # {}, \A r \in rs : r.domain \in Nat
    PROVE  /\ TenantDomainForFromHostname(rs) \in rs
           /\ \A x \in rs : TenantDomainForFromHostname(rs).domain <= x.domain
  <1>1. PICK names : names = {r.domain : r \in rs}
    OBVIOUS
  <1>2. names \subseteq Nat /\ names # {}
    BY <1>1
  <1>3. PICK d \in names : \A y \in names : d <= y
    BY <1>2, Least
  <1>4. PICK r \in rs : r.domain = d
    BY <1>1
  <1>5. \A x \in rs : r.domain <= x.domain
    BY <1>1, <1>3, <1>4
  <1> QED BY <1>5 DEF TenantDomainForFromHostname

\* The domain that becomes the primary one is one of those that are left.
LEMMA CandidateIs ==
    ASSUME NEW rs, rs # {}, \A r \in rs : r.domain \in Nat
    PROVE  Candidate(rs) \in rs
  <1>1. PICK from : from = IF {r \in rs : r.status = "verified"} # {}
                           THEN {r \in rs : r.status = "verified"} ELSE rs
    OBVIOUS
  <1>2. from \subseteq rs /\ from # {}
    BY <1>1
  <1>3. TenantDomainForFromHostname(from) \in from
    BY <1>2, FirstByName
  <1>4. Candidate(rs) = TenantDomainForFromHostname(from)
    BY <1>1, Zenon DEF Candidate, TenantDomainForFromHostname
  <1> QED BY <1>2, <1>3, <1>4

\* Removing a row makes one of those that are left the primary one.
LEMMA DropDomainStep ==
    ASSUME Typed, Hands, NEW p \in Procs, DropDomain(p)
    PROVE  Asks(p) \/ Repoints(p)
  <1>1. Loaded(p)
    BY DEF DropDomain, Loaded
  <1>2. job[p].td.tenant \in Tenants
    BY <1>1, InHand
  <1>3. Answer(p) /\ UNCHANGED <<postal, made, used, acts>>
    BY DEF DropDomain
  <1>4. CASE Here(job[p].td.tenant)
    <2>1. PICK t \in Tenants : t = job[p].td.tenant
      BY <1>2
    <2>2. PICK rest : rest = {r \in RowsOf(t) : r.id # job[p].td.id}
      OBVIOUS
    <2>3. /\ rows' = (rows \ RowsOf(t)) \cup
                       (IF rest = {} THEN {} ELSE OnlyPrimary(rest, Candidate(rest)))
          /\ SetSending(t, IF rest = {} THEN Blank ELSE Candidate(rest).domain)
          /\ Settled(t)
      BY <1>4, <2>1, <2>2, Zenon DEF DropDomain
    <2>4. rest \in SUBSET RowsOf(t) /\ Here(t)
      BY <1>4, <2>1, <2>2
    <2>5. CASE rest = {}
      <3>1. rows' = rows \ RowsOf(t) /\ SetSending(t, Blank)
        BY <2>3, <2>5
      <3> QED BY <1>3, <2>3, <2>4, <2>5, <3>1, Zenon DEF Repoints, Answer
    <2>6. CASE rest # {}
      <3>1. \A r \in rest : r.domain \in Nat
        BY <2>4, RowFacts, DomainsAssumption DEF RowsOf
      <3>2. PICK c \in rest : c = Candidate(rest)
        BY <2>6, <3>1, CandidateIs
      <3>3. rows' = (rows \ RowsOf(t)) \cup OnlyPrimary(rest, c) /\ SetSending(t, c.domain)
        BY <2>3, <2>6, <3>2
      <3> QED BY <1>3, <2>3, <2>4, <3>3, Zenon DEF Repoints, Answer
    <2> QED BY <2>5, <2>6
  <1>5. CASE ~Here(job[p].td.tenant)
    <2>1. UNCHANGED <<rows, tenant, past>>
      BY <1>5, Zenon DEF DropDomain
    <2> QED BY <1>3, <2>1, AnswersOnly
  <1> QED BY <1>4, <1>5

\* Reading whether the domain is the tenant's first changes nothing else.
LEMMA IsFirstStep ==
    ASSUME Typed, NEW p \in Procs, IsFirst(p)
    PROVE  Asks(p)
  <1>1. job \in [Procs -> Jobs(used)] /\ job[p].pc = "add"
    BY DEF Typed, IsFirst
  <1>2. PICK f \in BOOLEAN : f = (RowsOf(job[p].td.tenant) = {})
    OBVIOUS
  <1>3. PICK j : j = [job[p] EXCEPT !.pc = "insert", !.first = f]
    OBVIOUS
  <1>4. j \in Jobs(used) /\ j.pc = "insert" /\ j.td = job[p].td /\ j.touched = job[p].touched
    BY <1>1, <1>3 DEF Jobs
  <1>5. job' = [job EXCEPT ![p] = j]
    BY <1>1, <1>2, <1>3 DEF IsFirst
  <1>6. AsksFor(p, j)
    BY <1>1, <1>4 DEF AsksFor
  <1> QED BY <1>4, <1>5, <1>6 DEF Asks, IsFirst

\* A process that loads a row does nothing else.
LEMMA LoadsStep ==
    ASSUME Typed, NEW p \in Procs, NEW r \in rows, NEW j,
           NEW pc \in {"sync", "verify", "promote", "unlist", "drop"},
           \/ j = [Idle EXCEPT !.pc = pc, !.td = r]
           \/ j = [Idle EXCEPT !.pc = pc, !.td = r, !.force = TRUE],
           Request(p, j)
    PROVE  Asks(p)
  <1>1. r \in Td(0 .. used)
    BY RowFacts
  <1>2. j \in Jobs(used) /\ j.pc = pc /\ j.td = r /\ j.touched = {}
    <2>1. CASE j = [Idle EXCEPT !.pc = pc, !.td = r]
      BY <1>1, <2>1 DEF Idle, Jobs
    <2>2. CASE j = [Idle EXCEPT !.pc = pc, !.td = r, !.force = TRUE]
      BY <1>1, <2>2 DEF Idle, Jobs
    <2> QED BY <2>1, <2>2
  <1>3. AsksFor(p, j)
    BY <1>2 DEF AsksFor
  <1> QED BY <1>2, <1>3 DEF Asks, Request

\* A request on a row only loads it.
LEMMA RequestStep ==
    ASSUME Typed, NEW p \in Procs, NEW r \in rows,
           \/ TenantDomainDetail(p, r) \/ TenantDomainRetryPostal(p, r)
           \/ TenantDomainVerify(p, r) \/ TenantDomainMakePrimary(p, r)
           \/ TenantDomainDelete(p, r)
    PROVE  Asks(p)
  <1>1. ASSUME NEW pc \in {"sync", "verify", "promote", "unlist", "drop"}, Loads(p, r, pc)
        PROVE  Asks(p)
    <2>1. PICK j : j = [Idle EXCEPT !.pc = pc, !.td = r]
      OBVIOUS
    <2>2. Request(p, j)
      BY <1>1, <2>1, Zenon DEF Loads
    <2> QED BY <2>1, <2>2, LoadsStep
  <1>2. CASE TenantDomainRetryPostal(p, r)
    <2>1. PICK j : j = [Idle EXCEPT !.pc = "sync", !.td = r, !.force = TRUE]
      OBVIOUS
    <2>2. Request(p, j)
      BY <1>2, <2>1, Zenon DEF TenantDomainRetryPostal
    <2> QED BY <2>1, <2>2, LoadsStep
  <1>3. CASE TenantDomainDetail(p, r)
    BY <1>1, <1>3 DEF TenantDomainDetail
  <1>4. CASE TenantDomainVerify(p, r)
    BY <1>1, <1>4 DEF TenantDomainVerify
  <1>5. CASE TenantDomainMakePrimary(p, r)
    BY <1>1, <1>5 DEF TenantDomainMakePrimary
  <1>6. CASE TenantDomainDelete(p, r)
    BY <1>1, <1>6 DEF TenantDomainDelete
  <1> QED BY <1>2, <1>3, <1>4, <1>5, <1>6

\* A request to add a domain has a row of its own in hand, while the cap allows it.
LEMMA NewStep ==
    ASSUME Typed, NEW p \in Procs, NEW t \in Tenants, NEW d \in Domains, TenantDomainNew(p, t, d)
    PROVE  Asks(p)
  <1>1. PICK td : td = NewDomain(t, d)
    OBVIOUS
  <1>2. PICK b \in BOOLEAN : b = (tenant[t].sending = Blank)
    OBVIOUS
  <1>3. used \in Nat
    BY RowFacts
  <1>4. td \in Td(0 .. used)
    BY <1>1, <1>3, NewRow, MoreIds, {0} \subseteq 0 .. used
  <1>5. PICK j : j = [Idle EXCEPT !.pc = "add", !.td = td, !.blank = b, !.force = TRUE]
    OBVIOUS
  <1>6. j \in Jobs(used) /\ j.pc = "add" /\ j.td = td /\ j.touched = {}
    BY <1>4, <1>5 DEF Idle, Jobs
  <1>7. Request(p, j) /\ CanAddSendingDomain(t)
    BY <1>1, <1>2, <1>5, Zenon DEF TenantDomainNew
  <1>8. AsksFor(p, j)
    BY <1>1, <1>6, <1>7 DEF AsksFor, Request
  <1> QED BY <1>6, <1>7, <1>8 DEF Asks, Request

\* Provisioning leaves in the copy of the row what Postal and the bridge answered.
LEMMA EnsureStep ==
    ASSUME Typed, Hands, NEW p \in Procs, Ensure(p)
    PROVE  Provisions(p)
  <1>1. Loaded(p) /\ job[p].pc = "ensure"
    BY DEF Ensure, Loaded
  <1>2. /\ job[p].td \in Td(1 .. used) /\ job[p].td.domain \in Domains
        /\ job[p].touched \in SUBSET {"dns", "prov", "bridge"} /\ "bridge" \notin job[p].touched
    BY <1>1, InHand
  <1>3. PICK d \in Domains : d = job[p].td.domain
    BY <1>2
  <1>4. /\ job \in [Procs -> Jobs(used)] /\ postal \in [Domains -> 0 .. MaxKeys]
        /\ made \in [Domains -> 0 .. MaxKeys]
    BY DEF Typed, TypeOK
  <1> DEFINE NewTd(t, r) == [Patched(t, r.patch) EXCEPT
                               !.tried = TRUE,
                               !.bridge_at = @ \/ r.merged,
                               !.prov = IF r.success THEN r.outcome ELSE "failed"]
             NewTouched(s, r) == s \cup {"prov"}
                                   \cup (IF r.patch = Nothing THEN {} ELSE {"dns"})
                                   \cup (IF r.merged THEN {"bridge"} ELSE {})
  <1>5. PICK r \in EnsureResults(postal[d], made[d] + 1) :
          /\ r.key <= MaxKeys
          /\ postal' = [postal EXCEPT ![d] = r.key]
          /\ made' = [made EXCEPT ![d] = IF r.key > @ THEN r.key ELSE @]
          /\ job' = [job EXCEPT ![p].pc = "resync", ![p].td = NewTd(job[p].td, r),
                                ![p].touched = NewTouched(job[p].touched, r)]
          /\ CASE r.verified -> Remember({job[p].td.id}, "vouched")
               [] r.believed -> Remember({job[p].td.id}, "believed")
               [] OTHER      -> UNCHANGED past
    BY <1>3, Zenon DEF Ensure
  <1>6. postal[d] \in 0 .. MaxKeys /\ made[d] + 1 \in Nat \ {0}
    BY <1>4
  <1>7. /\ r.key \in 0 .. MaxKeys /\ (postal[d] # Blank => r.key = postal[d])
        /\ r.success \in BOOLEAN /\ r.verified \in BOOLEAN /\ r.merged \in BOOLEAN
        /\ r.success => r.outcome \in {"created", "exists"} /\ (r.key # Blank \/ r.believed)
        /\ r.believed \in BOOLEAN /\ (r.believed => ~r.verified)
        /\ r.patch \in Answers /\ r.patch.dkim \in {Blank, r.key}
        /\ r.merged => r.patch.pv \/ r.verified
    BY <1>5, <1>6, EnsureAnswers
  <1>8. made' \in [Domains -> 0 .. MaxKeys]
    BY <1>4, <1>5, <1>7
  <1>9. PICK x : x = Patched(job[p].td, r.patch)
    OBVIOUS
  <1>10. /\ x \in Td(1 .. used) /\ Same(x, job[p].td)
         /\ x.dkim = (IF r.patch.dkim # Blank THEN r.patch.dkim ELSE job[p].td.dkim)
         /\ x.pv = (job[p].td.pv \/ r.patch.pv)
    BY <1>2, <1>7, <1>9, Patches
  <1>11. PICK prov, td : /\ prov = (IF r.success THEN r.outcome ELSE "failed")
                         /\ td = NewTd(job[p].td, r)
    OBVIOUS
  <1>12. prov \in {"created", "exists", "failed"} /\ (prov # "failed" => r.key # Blank \/ r.believed)
    BY <1>7, <1>11
  <1>13. /\ td \in Td(1 .. used) /\ Same(td, x) /\ td.prov = prov /\ td.dkim = x.dkim /\ td.pv = x.pv
    <2>1. td = [x EXCEPT !.tried = TRUE, !.bridge_at = @ \/ r.merged, !.prov = prov]
      BY <1>9, <1>11
    <2> QED BY <1>7, <1>10, <1>12, <2>1 DEF Td, Same
  <1>14. PICK touched : touched = NewTouched(job[p].touched, r)
    OBVIOUS
  <1>15. /\ touched \in SUBSET {"dns", "prov", "bridge"}
         /\ "bridge" \in touched => r.merged
         /\ r.patch.pv => "dns" \in touched
    <2>1. Nothing.pv = FALSE
      BY DEF Nothing
    <2> QED BY <1>2, <1>14, <2>1
  <1>16. "bridge" \in touched => r.verified \/ ("dns" \in touched /\ td.pv)
    BY <1>7, <1>10, <1>13, <1>15
  <1>17. job' = [job EXCEPT ![p] = [@ EXCEPT !.pc = "resync", !.td = td, !.touched = touched]]
    <2> HIDE DEF NewTd, NewTouched
    <2> QED BY <1>4, <1>5, <1>11, <1>14 DEF Jobs
  <1>18. Same(td, job[p].td) /\ td.id = job[p].td.id /\ td.dkim \in {job[p].td.dkim, r.key}
    BY <1>7, <1>10, <1>13 DEF Same
  <1>19. PICK told \in {"vouched", "believed", "nothing"} :
           told = (IF r.verified THEN "vouched" ELSE IF r.believed THEN "believed" ELSE "nothing")
    OBVIOUS
  <1>20. UNCHANGED <<tenant, rows, used>>
    BY DEF Ensure
  <1>21. /\ IF told = "nothing" THEN UNCHANGED past ELSE Remember({td.id}, told)
         /\ td.prov \in {"created", "exists"} => r.key # Blank \/ told = "believed"
         /\ "bridge" \in touched => told = "vouched" \/ ("dns" \in touched /\ td.pv)
    BY <1>5, <1>7, <1>12, <1>13, <1>16, <1>18, <1>19
  <1>22. \E e \in Domains, k \in 0 .. MaxKeys, y \in Td(1 .. used),
          what \in {"vouched", "believed", "nothing"}, ts \in SUBSET {"dns", "prov", "bridge"} :
          /\ e = job[p].td.domain
          /\ postal[e] # Blank => k = postal[e]
          /\ postal' = [postal EXCEPT ![e] = k]
          /\ Same(y, job[p].td)
          /\ y.prov \in {"created", "exists"} => k # Blank \/ what = "believed"
          /\ y.dkim \in {job[p].td.dkim, k}
          /\ "bridge" \in ts => what = "vouched" \/ ("dns" \in ts /\ y.pv)
          /\ job' = [job EXCEPT ![p] = [@ EXCEPT !.pc = "resync", !.td = y, !.touched = ts]]
          /\ IF what = "nothing" THEN UNCHANGED past ELSE Remember({y.id}, what)
    <2>1. /\ d = job[p].td.domain
          /\ postal[d] # Blank => r.key = postal[d]
          /\ postal' = [postal EXCEPT ![d] = r.key]
      BY <1>3, <1>5, <1>7
    <2> QED BY <1>7, <1>13, <1>15, <1>17, <1>18, <1>21, <2>1, Zenon
  <1> QED BY <1>1, <1>8, <1>20, <1>22, Zenon DEF Provisions

\* Every step is one of these.
LEMMA StepCases ==
    ASSUME Typed, Hands, [Next]_vars
    PROVE  \/ UNCHANGED vars
           \/ \E p \in Procs : \/ Asks(p) \/ Writes(p) \/ Inserts(p) \/ Repoints(p)
                              \/ Provisions(p) \/ DeletePostalDomain(p)
           \/ \E t \in Tenants : TenantForm(t) \/ OperatorTenantDelete(t)
  <1>1. CASE Next
    <2>1. ASSUME NEW p \in Procs,
                 \/ IsFirst(p) \/ Insert(p)
                 \/ Sync(p) \/ Ensure(p) \/ Resync(p)
                 \/ Verify(p) \/ MakePrimary(p)
                 \/ DeletePostalDomain(p) \/ DropDomain(p)
                 \/ Dies(p)
          PROVE  \/ Asks(p) \/ Writes(p) \/ Inserts(p) \/ Repoints(p)
                 \/ Provisions(p) \/ DeletePostalDomain(p)
      <3>1. CASE Dies(p)
        BY <3>1, AnswersOnly DEF Dies
      <3> QED BY <2>1, <3>1, IsFirstStep, InsertStep, SyncStep, EnsureStep, ResyncStep,
                 VerifyStep, MakePrimaryStep, DropDomainStep
    <2> QED BY <1>1, <2>1, NewStep, RequestStep
            DEF Next, PortalTenantSettings, OperatorTenantEdit
  <1> QED BY <1>1

-----------------------------------------------------------------------------
(* What steps have in common. *)

\* The jobs' types give what TypeOK says of them.
LEMMA TypedNext ==
    ASSUME tenant' \in [Tenants -> TenantRows], used' \in 0 .. MaxRows, acts' \in 0 .. MaxActs,
           rows' \subseteq Td(1 .. used'), Distinct(rows'), \A r \in rows' : Here(r.tenant)',
           postal' \in [Domains -> 0 .. MaxKeys], made' \in [Domains -> 0 .. MaxKeys],
           job' \in [Procs -> Jobs(used')], past' \in [Tenants \cup Ids -> SUBSET Flags]
    PROVE  Typed'
  <1>1. ASSUME NEW p \in Procs
        PROVE  /\ job'[p].pc \in {"idle", "add", "insert", "sync", "ensure", "resync",
                                  "verify", "promote", "unlist", "drop"}
               /\ job'[p].td \in Td(0 .. used') \cup {NoDomain}
               /\ job'[p].touched \subseteq {"dns", "prov", "bridge"}
    <2>1. job'[p] \in Jobs(used')
      OBVIOUS
    <2> QED BY <2>1, JobFields
  <1> QED BY <1>1 DEF Typed, TypeOK, Flags

\* Jobs stay jobs when ids are given.
LEMMA MoreJobs ==
    ASSUME NEW n \in Nat, NEW m \in Nat, n <= m, NEW j \in Jobs(n)
    PROVE  j \in Jobs(m)
  <1>1. 0 .. n \subseteq 0 .. m
    OBVIOUS
  <1>2. \A r \in Td(0 .. n) : r \in Td(0 .. m)
    BY <1>1, MoreIds
  <1> QED BY <1>2 DEF Jobs

\* What is remembered, and of what.
LEMMA Remembers ==
    ASSUME past \in [Tenants \cup Ids -> SUBSET Flags], NEW xs, NEW what \in Flags, Remember(xs, what)
    PROVE  /\ past' \in [Tenants \cup Ids -> SUBSET Flags]
           /\ \A x \in Tenants \cup Ids :
                past'[x] = IF x \in xs THEN past[x] \cup {what} ELSE past[x]
  BY DEF Remember

\* A process that does nothing still has the name of its row.
LEMMA OthersInHand ==
    ASSUME used \in Nat, used' \in Nat, used <= used', NEW q \in Procs, JobOK(q), job'[q] = job[q],
           \A x \in rows' : (\E r \in rows : Same(x, r)) \/ x.id \notin 1 .. used
    PROVE  JobOK(q)'
  <1>1. Adding(q)' = Adding(q) /\ Loaded(q)' = Loaded(q)
    BY DEF Adding, Loaded
  <1>2. Adding(q)' => \E t \in Tenants, d \in Domains : job'[q].td = NewDomain(t, d)
    BY <1>1 DEF JobOK
  <1>3. ASSUME Loaded(q)
        PROVE  /\ job'[q].td \in Td(1 .. used')
               /\ \A x \in rows' : x.id = job'[q].td.id => Same(x, job'[q].td)
    <2>1. job[q].td \in Td(1 .. used) /\ \A r \in rows : r.id = job[q].td.id => Same(r, job[q].td)
      BY <1>3 DEF JobOK
    <2>2. job[q].td \in Td(1 .. used') /\ job[q].td.id \in 1 .. used
      BY <2>1, MoreIds, Fields, 1 .. used \subseteq 1 .. used'
    <2>3. ASSUME NEW x \in rows', x.id = job[q].td.id
          PROVE  Same(x, job[q].td)
      <3>1. PICK r \in rows : Same(x, r)
        BY <2>2, <2>3
      <3> QED BY <2>1, <2>3, <3>1 DEF Same
    <2> QED BY <2>2, <2>3
  <1>4. job'[q].pc # "resync" => "bridge" \notin job'[q].touched
    BY DEF JobOK
  <1> QED BY <1>1, <1>2, <1>3, <1>4 DEF JobOK

\* A tenant has finitely many rows.
LEMMA FiniteRows ==
    ASSUME Typed, NEW t
    PROVE  IsFiniteSet(RowsOf(t)) /\ Cardinality(RowsOf(t)) \in Nat
  <1>1. used \in Nat
    BY RowFacts
  <1>2. IsFiniteSet(1 .. used)
    BY <1>1, FS_Interval, 1 \in Int, used \in Int
  <1>3. PICK f : f = [r \in RowsOf(t) |-> r.id]
    OBVIOUS
  <1>4. f \in [RowsOf(t) -> 1 .. used] /\ \A x, y \in RowsOf(t) : f[x] = f[y] => x = y
    BY <1>3, RowFacts DEF RowsOf
  <1>5. f \in Injection(RowsOf(t), 1 .. used)
    BY <1>4 DEF Injection, IsInjective
  <1>6. IsFiniteSet(RowsOf(t))
    BY <1>2, <1>5, FS_Injection
  <1> QED BY <1>6, FS_CardinalityType

\* So are the requests in flight.
LEMMA FinitePending ==
    ASSUME NEW t
    PROVE  IsFiniteSet(Pending(t)) /\ Cardinality(Pending(t)) \in Nat
  <1>1. IsFiniteSet(Procs) /\ Pending(t) \in SUBSET Procs
    BY DomainsAssumption DEF Pending
  <1> QED BY <1>1, FS_Subset, FS_CardinalityType

\* With no new rows, and no new request to add, the cap holds.
LEMMA CapKeeps ==
    ASSUME Typed, Typed', CapInv, \A x \in rows' : \E r \in rows : Same(x, r),
           \A q \in Procs : Adding(q)' => Adding(q) /\ job'[q].td.tenant = job[q].td.tenant
    PROVE  CapInv'
  <1> SUFFICES ASSUME NEW t \in Tenants
               PROVE  Cardinality(RowsOf(t)') + Cardinality(Pending(t)') < MaxDomains + Cardinality(Procs)
    BY DEF CapInv
  <1>1. /\ IsFiniteSet(RowsOf(t)) /\ Cardinality(RowsOf(t)) \in Nat
        /\ IsFiniteSet(Pending(t)) /\ Cardinality(Pending(t)) \in Nat
    BY FiniteRows, FinitePending
  <1>2. \A x \in RowsOf(t)' : \E y \in RowsOf(t) : y.id = x.id
    BY DEF RowsOf, Same
  <1>3. \A x, y \in RowsOf(t)' : x.id = y.id => x = y
    BY DEF RowsOf, Typed, TypeOK, Distinct
  <1>4. IsFiniteSet(RowsOf(t)') /\ Cardinality(RowsOf(t)') <= Cardinality(RowsOf(t))
    BY <1>1, <1>2, <1>3, NoMore
  <1>5. Pending(t)' \in SUBSET Pending(t)
    BY DEF Pending
  <1>6. IsFiniteSet(Pending(t)') /\ Cardinality(Pending(t)') <= Cardinality(Pending(t))
    BY <1>1, <1>5, FS_Subset
  <1>7. Cardinality(RowsOf(t)') \in Nat /\ Cardinality(Pending(t)') \in Nat
    BY <1>4, <1>6, FS_CardinalityType
  <1>8. Cardinality(RowsOf(t)) + Cardinality(Pending(t)) < MaxDomains + Cardinality(Procs)
    BY DEF CapInv
  <1>9. MaxDomains \in Nat /\ Cardinality(Procs) \in Nat
    BY DomainsAssumption, FS_CardinalityType
  <1> QED BY <1>1, <1>4, <1>6, <1>7, <1>8, <1>9

-----------------------------------------------------------------------------
(* Each kind of step keeps the invariant. *)

\* A request to add is let in while the rows are fewer than the plan's, so that even all
\* processes together exceed it by less than their number.
LEMMA AsksCap ==
    ASSUME Typed, Typed', CapInv, NEW p \in Procs, NEW j, job' = [job EXCEPT ![p] = j], AsksFor(p, j),
           UNCHANGED rows
    PROVE  CapInv'
  <1>1. job \in [Procs -> Jobs(used)] /\ job'[p] = j /\ \A q \in Procs : q # p => job'[q] = job[q]
    BY DEF Typed
  <1>2. \A x \in rows' : \E r \in rows : Same(x, r)
    BY DEF Same
  <1>3. ASSUME j.pc = "add" => FALSE
        PROVE  CapInv'
    <2>1. Idle.pc = "idle"
      BY IdleJob
    <2>2. j.pc = "insert" => job[p].pc = "add" /\ j.td = job[p].td
      BY <2>1 DEF AsksFor
    <2>3. \A q \in Procs : Adding(q)' => Adding(q) /\ job'[q].td.tenant = job[q].td.tenant
      BY <1>1, <1>3, <2>2 DEF Adding
    <2> QED BY <1>2, <2>3, CapKeeps
  <1>4. CASE j.pc = "add"
    <2>1. PICK t \in Tenants, d \in Domains : j.td = NewDomain(t, d) /\ CanAddSendingDomain(t)
      BY <1>4, IdleJob DEF AsksFor
    <2>2. job[p] = Idle
      BY <1>4, IdleJob DEF AsksFor
    <2>3. j.td.tenant = t
      BY <2>1, NewRow
    <2>4. ~Adding(p)
      BY <2>2, IdleJob DEF Adding
    <2> SUFFICES ASSUME NEW u \in Tenants
                 PROVE  Cardinality(RowsOf(u)') + Cardinality(Pending(u)') < MaxDomains + Cardinality(Procs)
      BY DEF CapInv
    <2>5. RowsOf(u)' = RowsOf(u) /\ Cardinality(RowsOf(u)) \in Nat
      BY FiniteRows DEF RowsOf
    <2>6. /\ MaxDomains \in Nat /\ IsFiniteSet(Procs) /\ Cardinality(Procs) \in Nat
          /\ IsFiniteSet(Pending(u)) /\ Cardinality(Pending(u)) \in Nat
      BY DomainsAssumption, FS_CardinalityType, FinitePending
    <2>7. CASE u = t
      <3>1. Pending(u)' \in SUBSET Procs
        BY DEF Pending
      <3>2. IsFiniteSet(Pending(u)') /\ Cardinality(Pending(u)') <= Cardinality(Procs)
        BY <2>6, <3>1, FS_Subset
      <3>3. Cardinality(RowsOf(u)) < MaxDomains
        BY <2>1, <2>7 DEF CanAddSendingDomain
      <3> QED BY <2>5, <2>6, <3>2, <3>3, FS_CardinalityType
    <2>8. CASE u # t
      <3>1. Pending(u)' = Pending(u)
        BY <1>1, <2>3, <2>4, <2>8 DEF Pending, Adding
      <3> QED BY <2>5, <3>1 DEF CapInv
    <2> QED BY <2>7, <2>8
  <1> QED BY <1>3, <1>4

\* Taking something in hand.
LEMMA AsksKeep ==
    ASSUME IInv, acts' \in 0 .. MaxActs, NEW p \in Procs, Asks(p)
    PROVE  IInv'
  <1>1. PICK j \in Jobs(used) : job' = [job EXCEPT ![p] = j] /\ AsksFor(p, j)
    BY DEF Asks
  <1>2. UNCHANGED <<tenant, rows, postal, made, used, past>>
    BY DEF Asks
  <1>3. /\ Typed /\ Hands /\ CapInv /\ PrimeInv /\ ClaimInv /\ BridgeMarkIsEarned /\ MarkInv
        /\ job \in [Procs -> Jobs(used)] /\ used \in Nat
    BY RowFacts DEF IInv, BridgeInv, Typed
  <1>4. job'[p] = j /\ \A q \in Procs : q # p => job'[q] = job[q]
    BY <1>1, <1>3
  <1>5. Typed'
    <2>1. job' \in [Procs -> Jobs(used')]
      BY <1>1, <1>2, <1>3
    <2>2. \A r \in rows' : Here(r.tenant)'
      BY <1>2, <1>3 DEF Typed, TypeOK, Here
    <2> QED BY <1>2, <1>3, <2>1, <2>2, TypedNext DEF Typed, TypeOK, Flags
  <1>6. \A x \in rows' : \E r \in rows : Same(x, r)
    BY <1>2 DEF Same
  <1>7. ASSUME j.pc = "ensure"
        PROVE  /\ Loaded(p) /\ job[p].pc = "sync" /\ "bridge" \notin j.touched
               /\ j.td \in Td(1 .. used) /\ Same(j.td, job[p].td)
               /\ Claims(job[p].td) => Claims(j.td)
    <2>1. /\ job[p].pc = "sync" /\ "bridge" \notin j.touched
          /\ \E a \in Fetched(postal[job[p].td.domain]) : j.td = Patched(job[p].td, a)
      BY <1>1, <1>7, IdleJob DEF AsksFor
    <2>2. Loaded(p)
      BY <2>1 DEF Loaded
    <2>3. job[p].td \in Td(1 .. used)
      BY <1>3, <2>2, InHand
    <2> QED BY <1>3, <2>1, <2>2, <2>3, PatchStep
  <1>8. ASSUME j.pc \in {"sync", "verify", "promote", "unlist", "drop"}
        PROVE  j.td \in rows /\ j.touched = {}
    BY <1>1, <1>8, IdleJob DEF AsksFor
  <1>9. j.pc \in {"idle", "add", "insert", "ensure", "sync", "verify", "promote", "unlist", "drop"}
    BY <1>1, IdleJob DEF AsksFor
  <1>10. Hands'
    <2> SUFFICES ASSUME NEW q \in Procs
                 PROVE  JobOK(q)'
      BY DEF Hands
    <2>1. CASE q # p
      BY <1>2, <1>3, <1>4, <1>6, <2>1, OthersInHand DEF Hands
    <2>2. CASE q = p
      <3>1. Adding(p)' => \E t \in Tenants, d \in Domains : j.td = NewDomain(t, d)
        <4>1. CASE j.pc = "add"
          BY <1>1, <4>1, IdleJob DEF AsksFor
        <4>2. CASE j.pc = "insert"
          <5>1. job[p].pc = "add" /\ j.td = job[p].td
            BY <1>1, <4>2, IdleJob DEF AsksFor
          <5> QED BY <1>3, <5>1 DEF Hands, JobOK, Adding
        <4> QED BY <1>4, <4>1, <4>2 DEF Adding
      <3>2. ASSUME Loaded(p)'
            PROVE  j.td \in Td(1 .. used') /\ \A r \in rows' : r.id = j.td.id => Same(r, j.td)
        <4>1. CASE j.pc = "ensure"
          <5>1. \A r \in rows : r.id = job[p].td.id => Same(r, job[p].td)
            BY <1>3, <1>7, <4>1, InHand
          <5> QED BY <1>2, <1>7, <4>1, <5>1 DEF Same
        <4>2. CASE j.pc \in {"sync", "verify", "promote", "unlist", "drop"}
          BY <1>2, <1>3, <1>8, <4>2, RowFacts DEF Same
        <4> QED BY <1>4, <1>9, <3>2, <4>1, <4>2 DEF Loaded
      <3>3. "bridge" \notin j.touched
        <4>1. CASE j = Idle
          BY <4>1, IdleJob
        <4>2. CASE j.pc = "add"
          BY <1>1, <4>2, IdleJob DEF AsksFor
        <4>3. CASE j.pc = "insert"
          <5>1. job[p].pc = "add" /\ j.touched = job[p].touched
            BY <1>1, <4>3, IdleJob DEF AsksFor
          <5> QED BY <1>3, <5>1 DEF Hands, JobOK
        <4>4. CASE j.pc \in {"ensure", "sync", "verify", "promote", "unlist", "drop"}
          BY <1>7, <1>8, <4>4
        <4>5. j = Idle \/ j.pc # "idle"
          BY <1>1 DEF AsksFor
        <4> QED BY <1>9, <4>1, <4>2, <4>3, <4>4, <4>5
      <3> QED BY <1>4, <2>2, <3>1, <3>2, <3>3 DEF JobOK
    <2> QED BY <2>1, <2>2
  <1>11. CapInv'
    BY <1>1, <1>2, <1>3, <1>5, AsksCap
  <1>12. PrimeInv'
    BY <1>2, <1>3 DEF PrimeInv, RowsOf, Sends
  <1>13. ClaimInv'
    <2> SUFFICES ASSUME NEW r \in rows', "pulled" \notin past'[r.id]
                 PROVE  /\ Claims(r)'
                        /\ \A q \in Procs : job'[q].pc \in {"sync", "ensure", "resync"}
                                            /\ job'[q].td.id = r.id => Claims(job[q].td)'
      BY DEF ClaimInv
    <2>1. /\ Claims(r)
          /\ \A q \in Procs : job[q].pc \in {"sync", "ensure", "resync"} /\ job[q].td.id = r.id
                                => Claims(job[q].td)
      BY <1>2, <1>3 DEF ClaimInv
    <2>2. ASSUME j.pc \in {"sync", "ensure", "resync"}, j.td.id = r.id
          PROVE  Claims(j.td)
      <3>1. CASE j.pc = "ensure"
        BY <1>7, <2>1, <2>2, <3>1 DEF Same
      <3>2. CASE j.pc = "sync"
        BY <1>2, <1>3, <1>8, <2>1, <2>2, <3>2, RowFacts
      <3> QED BY <1>9, <2>2, <3>1, <3>2
    <2>3. (Claims(r)' <=> Claims(r)) /\ \A q \in Procs : Claims(job[q].td)' <=> Claims(job'[q].td)
      BY <1>2 DEF Claims
    <2> QED BY <1>4, <2>1, <2>2, <2>3
  <1>14. BridgeInv'
    <2>1. BridgeMarkIsEarned'
      BY <1>2, <1>3 DEF BridgeMarkIsEarned
    <2>2. j.pc # "resync"
      BY <1>9
    <2>3. MarkInv'
      BY <1>2, <1>3, <1>4, <2>2 DEF MarkInv
    <2> QED BY <2>1, <2>3 DEF BridgeInv
  <1> QED BY <1>5, <1>10, <1>11, <1>12, <1>13, <1>14 DEF IInv

\* A tenant keeps its primary domain when a row of its is written but not that mark.
LEMMA WritesPrime ==
    ASSUME Typed, PrimeInv, NEW r \in rows, NEW x, Same(x, r), x.primary = r.primary,
           rows' = (rows \ {r}) \cup {x}, tenant' = tenant, \A t \in Tenants : past'[t] = past[t]
    PROVE  PrimeInv'
  <1> SUFFICES ASSUME NEW t \in Tenants, "raced" \notin past[t]
               PROVE  IF RowsOf(t)' = {} THEN Sends(t, Blank)'
                      ELSE \E c \in RowsOf(t)' : /\ \A y \in RowsOf(t)' : y.primary <=> y = c
                                               /\ Sends(t, c.domain)'
    BY DEF PrimeInv
  <1>1. \A d : Sends(t, d)' <=> Sends(t, d)
    BY DEF Sends
  <1>2. \A y \in RowsOf(t)' : (y = x /\ r \in RowsOf(t)) \/ (y \in RowsOf(t) /\ y # r /\ y # x)
    BY RowFacts DEF RowsOf, Same
  <1>3. /\ \A y \in RowsOf(t) : y # r => y \in RowsOf(t)'
        /\ r \in RowsOf(t) => x \in RowsOf(t)'
    BY DEF RowsOf, Same
  <1>4. CASE RowsOf(t) = {}
    <2>1. RowsOf(t)' = {}
      BY <1>2, <1>4
    <2>2. Sends(t, Blank)
      BY <1>4 DEF PrimeInv
    <2> QED BY <1>1, <2>1, <2>2
  <1>5. CASE RowsOf(t) # {}
    <2>1. PICK c \in RowsOf(t) : /\ \A y \in RowsOf(t) : y.primary <=> y = c
                                /\ Sends(t, c.domain)
      BY <1>5 DEF PrimeInv
    <2>2. CASE c = r
      <3>1. x \in RowsOf(t)'
        BY <1>3, <2>2
      <3>2. \A y \in RowsOf(t)' : y.primary <=> y = x
        BY <1>2, <2>1, <2>2
      <3>3. Sends(t, x.domain)'
        BY <1>1, <2>1, <2>2 DEF Same
      <3> QED BY <3>1, <3>2, <3>3
    <2>3. CASE c # r
      <3>1. c \in RowsOf(t)'
        BY <1>3, <2>3
      <3>2. \A y \in RowsOf(t)' : y.primary <=> y = c
        BY <1>2, <2>1, <2>3
      <3> QED BY <1>1, <2>1, <3>1, <3>2
    <2> QED BY <2>2, <2>3
  <1> QED BY <1>4, <1>5

\* Writing a row.
LEMMA WritesKeep ==
    ASSUME IInv, acts' \in 0 .. MaxActs, NEW p \in Procs, Writes(p)
    PROVE  IInv'
  <1>1. /\ Typed /\ Hands /\ CapInv /\ PrimeInv /\ ClaimInv /\ BridgeMarkIsEarned /\ MarkInv
        /\ job \in [Procs -> Jobs(used)] /\ used \in Nat
        /\ past \in [Tenants \cup Ids -> SUBSET Flags]
    BY RowFacts DEF IInv, BridgeInv, Typed, TypeOK, Flags
  <1>2. PICK r \in rows, x \in Td(1 .. used) :
          /\ rows' = (rows \ {r}) \cup {x}
          /\ Same(x, r) /\ x.primary = r.primary
          /\ \/ /\ x.prov = r.prov /\ x.dkim = r.dkim /\ x.pv = r.pv /\ x.bridge_at = r.bridge_at
                /\ past' = past
             \/ \E td \in Td(1 .. used), touched \in SUBSET {"dns", "prov", "bridge"} :
                   /\ SaveOK(p, r, td, touched) /\ x = Saved(r, td, touched)
                   /\ IF "dns" \in touched /\ r.pv /\ ~td.pv
                      THEN Remember({r.id}, "clobbered") ELSE UNCHANGED past
    BY DEF Writes
  <1>3. job' = [job EXCEPT ![p] = Idle] /\ UNCHANGED <<tenant, postal, made, used>>
    BY DEF Writes
  <1>4. job'[p] = Idle /\ \A q \in Procs : q # p => job'[q] = job[q]
    BY <1>1, <1>3
  <1>5. /\ r \in Td(1 .. used) /\ r.id \in Ids /\ r.id \notin Tenants /\ x.id = r.id
        /\ \A y \in rows : y.id = r.id => y = r
    BY <1>1, <1>2, RowFacts DEF Same
  <1>6. /\ past' \in [Tenants \cup Ids -> SUBSET Flags]
        /\ \A t \in Tenants : past'[t] = past[t]
        /\ \A i \in Ids : past'[i] = past[i] \/ past'[i] = past[i] \cup {"clobbered"}
    <2>1. past' = past \/ Remember({r.id}, "clobbered")
      BY <1>2
    <2>2. CASE Remember({r.id}, "clobbered")
      BY <1>1, <1>5, <2>2 DEF Remember, Flags
    <2> QED BY <1>1, <2>1, <2>2
  <1>7. \A y \in rows' : y = x \/ (y \in rows /\ y # r)
    BY <1>2
  <1>8. \A y \in rows' : \E z \in rows : Same(y, z)
    BY <1>2, <1>7 DEF Same
  <1>9. Typed'
    <2>1. job' \in [Procs -> Jobs(used')]
      BY <1>1, <1>3, IdleJob
    <2>2. \A y \in rows' : Here(y.tenant)'
      BY <1>1, <1>2, <1>3, <1>7 DEF Typed, TypeOK, Here, Same
    <2>3. Distinct(rows')
      BY <1>1, <1>2, <1>7 DEF Typed, TypeOK, Distinct, Same
    <2>4. rows' \subseteq Td(1 .. used')
      BY <1>1, <1>2, <1>3, <1>7 DEF Typed, TypeOK
    <2> QED BY <1>1, <1>3, <1>6, <2>1, <2>2, <2>3, <2>4, TypedNext DEF Typed, TypeOK
  <1>10. Hands'
    <2> SUFFICES ASSUME NEW q \in Procs
                 PROVE  JobOK(q)'
      BY DEF Hands
    <2>1. CASE q # p
      BY <1>1, <1>3, <1>4, <1>8, <2>1, OthersInHand DEF Hands
    <2>2. CASE q = p
      BY <1>4, <2>2, IdleJob DEF JobOK, Adding, Loaded
    <2> QED BY <2>1, <2>2
  <1>11. CapInv'
    <2>1. \A q \in Procs : Adding(q)' => Adding(q) /\ job'[q].td.tenant = job[q].td.tenant
      BY <1>4, IdleJob DEF Adding
    <2> QED BY <1>1, <1>8, <1>9, <2>1, CapKeeps
  <1>12. PrimeInv'
    BY <1>1, <1>2, <1>3, <1>6, WritesPrime
  <1>13. ClaimInv'
    <2> SUFFICES ASSUME NEW y \in rows', "pulled" \notin past'[y.id]
                 PROVE  /\ Claims(y)'
                        /\ \A q \in Procs : job'[q].pc \in {"sync", "ensure", "resync"}
                                            /\ job'[q].td.id = y.id => Claims(job[q].td)'
      BY DEF ClaimInv
    <2>1. PICK z \in rows : z = (IF y = x THEN r ELSE y)
      BY <1>7
    <2>2. z.id = y.id
      BY <1>5, <2>1
    <2>3. /\ Claims(z)
          /\ \A q \in Procs : job[q].pc \in {"sync", "ensure", "resync"} /\ job[q].td.id = z.id
                                => Claims(job[q].td)
      BY <1>1, <1>6, <2>2, RowFacts DEF ClaimInv
    <2>4. Claims(y)
      <3>1. CASE y # x
        BY <2>1, <2>3, <3>1
      <3>2. ASSUME y = x, x.prov = r.prov, x.dkim = r.dkim
            PROVE  Claims(y)
        BY <1>2, <2>1, <2>3, <3>2 DEF Claims, Same
      <3>3. ASSUME y = x, NEW td \in Td(1 .. used), NEW touched \in SUBSET {"dns", "prov", "bridge"},
                   SaveOK(p, r, td, touched), x = Saved(r, td, touched)
            PROVE  Claims(y)
        <4>1. job[p].pc \in {"sync", "resync"} /\ job[p].td.id = z.id
          BY <2>1, <3>3 DEF SaveOK
        <4>2. Claims(job[p].td)
          BY <2>3, <4>1
        <4>3. Claims(td) /\ td.domain = r.domain /\ td.id = r.id
          BY <3>3, <4>2 DEF SaveOK
        <4>4. /\ "prov" \in touched => x.prov = td.prov
              /\ "prov" \notin touched => x.prov = r.prov
              /\ "dns" \in touched => x.dkim = td.dkim
              /\ "dns" \notin touched => x.dkim = r.dkim
              /\ Same(x, r)
          <5>1. td \in Td(1 .. used) /\ x = Saved(r, td, touched) /\ r \in Td(1 .. used)
            BY <1>5, <3>3
          <5> QED BY <5>1 DEF Saved, Td, Same
        <4> QED BY <2>1, <2>3, <3>3, <4>3, <4>4 DEF Claims, Same
      <3> QED BY <1>2, <3>1, <3>2, <3>3
    <2>5. y.id \in Ids /\ past[y.id] \subseteq past'[y.id]
      BY <1>1, <1>6, <2>2, RowFacts
    <2>6. Claims(y)'
      BY <1>3, <2>4, <2>5 DEF Claims
    <2>7. ASSUME NEW q \in Procs, job'[q].pc \in {"sync", "ensure", "resync"}, job'[q].td.id = y.id
          PROVE  Claims(job[q].td)'
      <3>1. q # p /\ job'[q] = job[q]
        BY <1>4, <2>7, IdleJob
      <3>2. Claims(job[q].td)
        BY <2>2, <2>3, <2>7, <3>1
      <3> QED BY <1>3, <2>5, <2>7, <3>1, <3>2 DEF Claims
    <2> QED BY <2>6, <2>7
  <1>14. BridgeMarkIsEarned'
    <2> SUFFICES ASSUME NEW y \in rows', y.bridge_at
                 PROVE  y.pv \/ past'[y.id] \cap {"vouched", "clobbered"} # {}
      BY DEF BridgeMarkIsEarned
    <2>1. CASE y # x
      BY <1>1, <1>6, <1>7, <2>1, RowFacts DEF BridgeMarkIsEarned
    <2>2. r.bridge_at => r.pv \/ past[r.id] \cap {"vouched", "clobbered"} # {}
      BY <1>1 DEF BridgeMarkIsEarned
    <2>3. past[r.id] \subseteq past'[x.id]
      BY <1>5, <1>6
    <2>4. ASSUME y = x, x.pv = r.pv, x.bridge_at = r.bridge_at
          PROVE  y.pv \/ past'[y.id] \cap {"vouched", "clobbered"} # {}
      BY <2>2, <2>3, <2>4
    <2>5. ASSUME y = x, NEW td \in Td(1 .. used), NEW touched \in SUBSET {"dns", "prov", "bridge"},
                 SaveOK(p, r, td, touched), x = Saved(r, td, touched),
                 IF "dns" \in touched /\ r.pv /\ ~td.pv
                 THEN Remember({r.id}, "clobbered") ELSE UNCHANGED past
          PROVE  y.pv \/ past'[y.id] \cap {"vouched", "clobbered"} # {}
      <3>1. /\ "dns" \in touched => x.pv = td.pv
            /\ "dns" \notin touched => x.pv = r.pv
            /\ "bridge" \notin touched => x.bridge_at = r.bridge_at
        <4>1. td \in Td(1 .. used) /\ x = Saved(r, td, touched) /\ r \in Td(1 .. used)
          BY <1>5, <2>5
        <4> QED BY <4>1 DEF Saved, Td, Same
      <3>2. CASE "bridge" \in touched
        <4>1. /\ job[p].pc = "resync" /\ "bridge" \in job[p].touched /\ job[p].td.id = r.id
              /\ "dns" \in job[p].touched => "dns" \in touched
              /\ job[p].td.pv => td.pv
          BY <2>5, <3>2 DEF SaveOK
        <4>2. ("dns" \in job[p].touched /\ job[p].td.pv) \/ "vouched" \in past[r.id]
          BY <1>1, <4>1 DEF MarkInv
        <4> QED BY <2>3, <2>5, <3>1, <4>1, <4>2
      <3>3. CASE "bridge" \notin touched /\ r.pv /\ ~x.pv
        <4>1. "dns" \in touched /\ ~td.pv
          BY <3>1, <3>3
        <4>2. Remember({r.id}, "clobbered")
          BY <2>5, <3>3, <4>1
        <4>3. "clobbered" \in past'[r.id]
          BY <1>1, <1>5, <4>2 DEF Remember
        <4> QED BY <1>5, <2>5, <4>3
      <3>4. CASE "bridge" \notin touched /\ ~(r.pv /\ ~x.pv)
        BY <2>2, <2>3, <2>5, <3>1, <3>4
      <3> QED BY <3>2, <3>3, <3>4
    <2> QED BY <1>2, <2>1, <2>4, <2>5
  <1>15. MarkInv'
    <2>1. \A q \in Procs : job[q].pc = "resync" => job[q].td.id \in Ids
      BY <1>1, InHand DEF Loaded
    <2> QED BY <1>1, <1>4, <1>6, <2>1, IdleJob DEF MarkInv
  <1> QED BY <1>9, <1>10, <1>11, <1>12, <1>13, <1>14, <1>15 DEF IInv, BridgeInv

\* The row that is inserted: unprovisioned, with the next id.
LEMMA InsertedRow ==
    ASSUME Typed, Hands, NEW p \in Procs, Inserts(p)
    PROVE  \E t \in Tenants, td \in Td(1 .. used + 1), j \in Jobs(used + 1) :
              /\ t = job[p].td.tenant /\ Adding(p)
              /\ td.id = used + 1 /\ td.tenant = t /\ td.primary = job[p].first
              /\ td.prov = "pending" /\ td.dkim = Blank /\ td.bridge_at = FALSE
              /\ \A r \in rows : ~(r.tenant = t /\ r.domain = td.domain)
              /\ j.pc = "sync" /\ j.td = td /\ j.touched = job[p].touched
              /\ Here(t) /\ used + 1 <= MaxRows /\ used' = used + 1
              /\ rows' = rows \cup {td}
              /\ job' = [job EXCEPT ![p] = j]
              /\ tenant' = IF job[p].first /\ job[p].blank
                           THEN [tenant EXCEPT ![t].sending = td.domain] ELSE tenant
              /\ IF \/ job[p].first # (RowsOf(t) = {})
                    \/ job[p].first /\ job[p].blank # (tenant[t].sending = Blank)
                 THEN Remember({t}, "raced") ELSE UNCHANGED past
  <1>1. job[p].pc = "insert" /\ used < MaxRows
    BY DEF Inserts, Insert
  <1>2. Adding(p)
    BY <1>1 DEF Adding
  <1>3. PICK t \in Tenants, d \in Domains : job[p].td = NewDomain(t, d)
    BY <1>2 DEF Hands, JobOK
  <1>4. job[p].td.tenant = t /\ job[p].td.domain = d
    BY <1>3, NewRow
  <1>5. PICK td : td = [job[p].td EXCEPT !.id = used + 1, !.primary = job[p].first]
    OBVIOUS
  <1>6. /\ job \in [Procs -> Jobs(used)] /\ used \in Nat /\ MaxRows \in Nat /\ 0 \in 0 .. MaxKeys
    BY RowFacts, DnsAssumption DEF Typed
  <1>7. job[p].first \in BOOLEAN
    BY <1>6 DEF Jobs
  <1>8. td = [id |-> used + 1, tenant |-> t, domain |-> d, primary |-> job[p].first,
              verified |-> FALSE, status |-> "unverified", spf |-> FALSE, dkim |-> Blank,
              pv |-> FALSE, bridge_at |-> FALSE, prov |-> "pending", tried |-> FALSE]
    <2>1. PICK n : n = NewDomain(t, d)
      OBVIOUS
    <2>2. PICK f : f = job[p].first
      OBVIOUS
    <2>3. td = [n EXCEPT !.id = used + 1, !.primary = f]
      BY <1>3, <1>5, <2>1, <2>2
    <2> QED BY <2>1, <2>2, <2>3 DEF NewDomain
  <1>9. /\ td \in Td(1 .. used + 1) /\ td.id = used + 1 /\ td.tenant = t /\ td.domain = d
        /\ td.primary = job[p].first
        /\ td.prov = "pending" /\ td.dkim = Blank /\ td.bridge_at = FALSE
    BY <1>6, <1>7, <1>8 DEF Td, Statuses, Blank
  <1>10. td \in Td(0 .. used + 1)
    BY <1>6, <1>9, MoreIds, 1 .. used + 1 \subseteq 0 .. used + 1
  <1>11. PICK j : j = [job[p] EXCEPT !.pc = "sync", !.td = td]
    OBVIOUS
  <1>12. job[p] \in Jobs(used + 1)
    BY <1>6, MoreJobs
  <1>13. j \in Jobs(used + 1) /\ j.pc = "sync" /\ j.td = td /\ j.touched = job[p].touched
    BY <1>10, <1>11, <1>12 DEF Jobs
  <1>14. NotAdded(t, d) /\ Here(t)
    BY <1>4 DEF Inserts
  <1>15. \A r \in rows : ~(r.tenant = t /\ r.domain = td.domain)
    BY <1>9, <1>14 DEF NotAdded, Named, RowsOf
  <1>16. /\ rows' = rows \cup {td} /\ used' = used + 1
         /\ tenant' = IF job[p].first /\ job[p].blank
                      THEN [tenant EXCEPT ![t].sending = td.domain] ELSE tenant
         /\ job' = [job EXCEPT ![p].pc = "sync", ![p].td = td]
         /\ IF \/ job[p].first # (RowsOf(t) = {})
               \/ job[p].first /\ job[p].blank # (tenant[t].sending = Blank)
            THEN Remember({t}, "raced") ELSE UNCHANGED past
    BY <1>4, <1>5, <1>9, <1>14, Zenon DEF Inserts, Insert
  <1>17. job' = [job EXCEPT ![p] = j]
    BY <1>6, <1>11, <1>16
  <1>18. used + 1 <= MaxRows
    BY <1>1, <1>6
  <1> QED BY <1>2, <1>4, <1>9, <1>13, <1>14, <1>15, <1>16, <1>17, <1>18, ZenonT(30)

\* The request that adds a row is no longer one in flight.
LEMMA InsertsCap ==
    ASSUME Typed, CapInv, NEW p \in Procs, NEW t \in Tenants, NEW td, NEW j,
           t = job[p].td.tenant, Adding(p), td.id = used + 1, td.tenant = t,
           rows' = rows \cup {td}, job' = [job EXCEPT ![p] = j], j.pc = "sync"
    PROVE  CapInv'
  <1>1. job'[p] = j /\ \A q \in Procs : q # p => job'[q] = job[q]
    BY DEF Typed
  <1> SUFFICES ASSUME NEW u \in Tenants
               PROVE  Cardinality(RowsOf(u)') + Cardinality(Pending(u)') < MaxDomains + Cardinality(Procs)
    BY DEF CapInv
  <1>2. /\ IsFiniteSet(RowsOf(u)) /\ Cardinality(RowsOf(u)) \in Nat
        /\ IsFiniteSet(Pending(u)) /\ Cardinality(Pending(u)) \in Nat
        /\ Cardinality(RowsOf(u)) + Cardinality(Pending(u)) < MaxDomains + Cardinality(Procs)
        /\ MaxDomains \in Nat /\ Cardinality(Procs) \in Nat
    BY FiniteRows, FinitePending, DomainsAssumption, FS_CardinalityType DEF CapInv
  <1>3. CASE u = t
    <2>1. td \notin RowsOf(u)
      BY RowFacts DEF RowsOf
    <2>2. RowsOf(u)' = RowsOf(u) \cup {td}
      BY <1>3 DEF RowsOf
    <2>3. Cardinality(RowsOf(u)') = Cardinality(RowsOf(u)) + 1
      BY <1>2, <2>1, <2>2, FS_AddElement
    <2>4. p \in Pending(u)
      BY <1>3 DEF Pending
    <2>5. Pending(u)' = Pending(u) \ {p}
      BY <1>1 DEF Pending, Adding
    <2>6. Cardinality(Pending(u)') = Cardinality(Pending(u)) - 1
      BY <1>2, <2>4, <2>5, FS_RemoveElement
    <2> QED BY <1>2, <2>3, <2>6
  <1>4. CASE u # t
    <2>1. RowsOf(u)' = RowsOf(u)
      BY <1>4 DEF RowsOf
    <2>2. Pending(u)' = Pending(u)
      BY <1>1, <1>4 DEF Pending, Adding
    <2> QED BY <1>2, <2>1, <2>2
  <1> QED BY <1>3, <1>4

\* A domain added on a fresh reading becomes the primary one exactly when it is the first.
LEMMA InsertsPrime ==
    ASSUME Typed, PrimeInv, NEW p \in Procs, NEW t \in Tenants, NEW td,
           td.tenant = t, td.domain \in Domains, td.primary = job[p].first,
           rows' = rows \cup {td},
           tenant' = IF job[p].first /\ job[p].blank
                     THEN [tenant EXCEPT ![t].sending = td.domain] ELSE tenant,
           IF \/ job[p].first # (RowsOf(t) = {})
              \/ job[p].first /\ job[p].blank # (tenant[t].sending = Blank)
           THEN Remember({t}, "raced") ELSE UNCHANGED past
    PROVE  PrimeInv'
  <1>1. /\ tenant \in [Tenants -> TenantRows] /\ past \in [Tenants \cup Ids -> SUBSET Flags]
        /\ job[p].first \in BOOLEAN /\ job[p].blank \in BOOLEAN
    BY DEF Typed, TypeOK, Flags, Jobs
  <1>2. td \in rows \/ td \notin rows
    OBVIOUS
  <1> SUFFICES ASSUME NEW u \in Tenants, "raced" \notin past'[u]
               PROVE  IF RowsOf(u)' = {} THEN Sends(u, Blank)'
                      ELSE \E c \in RowsOf(u)' : /\ \A y \in RowsOf(u)' : y.primary <=> y = c
                                               /\ Sends(u, c.domain)'
    BY DEF PrimeInv
  <1>3. past[u] \subseteq past'[u]
    BY <1>1 DEF Remember
  <1>4. /\ RowsOf(u) = {} => Sends(u, Blank)
        /\ RowsOf(u) # {} => \E c \in RowsOf(u) : /\ \A y \in RowsOf(u) : y.primary <=> y = c
                                                /\ Sends(u, c.domain)
    BY <1>3 DEF PrimeInv
  <1>5. CASE u # t
    <2>1. RowsOf(u)' = RowsOf(u)
      BY <1>5 DEF RowsOf
    <2>2. tenant'[u] = tenant[u]
      BY <1>1, <1>5
    <2>3. \A d : Sends(u, d) => Sends(u, d)'
      BY <1>3, <2>2 DEF Sends
    <2> QED BY <1>4, <2>1, <2>3
  <1>6. CASE u = t
    <2>1. past' = past /\ (job[p].first <=> RowsOf(t) = {})
          /\ (job[p].first => (job[p].blank <=> tenant[t].sending = Blank))
      <3>1. ASSUME Remember({t}, "raced")
            PROVE  FALSE
        <4>1. past'[t] = past[t] \cup {"raced"}
          BY <1>1, <3>1 DEF Remember
        <4> QED BY <1>6, <4>1
      <3> QED BY <1>1, <3>1
    <2>2. RowsOf(t)' = RowsOf(t) \cup {td}
      BY DEF RowsOf
    <2>3. CASE RowsOf(t) = {}
      <3>1. RowsOf(t)' = {td} /\ td.primary = TRUE
        BY <1>1, <2>1, <2>2, <2>3
      <3>2. Sends(t, td.domain)'
        <4>1. CASE "typed" \in past[t]
          BY <2>1, <4>1 DEF Sends
        <4>2. CASE "typed" \notin past[t]
          <5>1. tenant[t].sending = Blank
            BY <1>4, <1>6, <2>3, <4>2 DEF Sends
          <5>2. tenant' = [tenant EXCEPT ![t].sending = td.domain]
            BY <2>1, <2>3, <5>1
          <5>3. tenant'[t].sending = td.domain
            BY <1>1, <5>2 DEF TenantRows
          <5> QED BY <5>3 DEF Sends
        <4> QED BY <4>1, <4>2
      <3> QED BY <1>6, <3>1, <3>2
    <2>4. CASE RowsOf(t) # {}
      <3>1. PICK c \in RowsOf(t) : (\A y \in RowsOf(t) : y.primary <=> y = c) /\ Sends(t, c.domain)
        BY <1>4, <1>6, <2>4
      <3>2. td.primary = FALSE /\ tenant' = tenant
        BY <1>1, <2>1, <2>4
      <3>3. td # c
        BY <3>1, <3>2
      <3>4. \A y \in RowsOf(t)' : y.primary <=> y = c
        BY <2>2, <3>1, <3>2, <3>3
      <3>5. Sends(t, c.domain)'
        BY <2>1, <3>1, <3>2 DEF Sends
      <3> QED BY <1>6, <2>2, <3>1, <3>4, <3>5
    <2> QED BY <2>3, <2>4
  <1> QED BY <1>5, <1>6

\* Adding a row.
LEMMA InsertsKeep ==
    ASSUME IInv, acts' \in 0 .. MaxActs, NEW p \in Procs, Inserts(p)
    PROVE  IInv'
  <1>1. /\ Typed /\ Hands /\ CapInv /\ PrimeInv /\ ClaimInv /\ BridgeMarkIsEarned /\ MarkInv
        /\ job \in [Procs -> Jobs(used)] /\ used \in Nat /\ MaxRows \in Nat
        /\ tenant \in [Tenants -> TenantRows]
        /\ past \in [Tenants \cup Ids -> SUBSET Flags]
    BY RowFacts DEF IInv, BridgeInv, Typed, TypeOK, Flags
  <1>2. PICK t \in Tenants, td \in Td(1 .. used + 1), j \in Jobs(used + 1) :
           /\ t = job[p].td.tenant /\ Adding(p)
           /\ td.id = used + 1 /\ td.tenant = t /\ td.primary = job[p].first
           /\ td.prov = "pending" /\ td.dkim = Blank /\ td.bridge_at = FALSE
           /\ \A r \in rows : ~(r.tenant = t /\ r.domain = td.domain)
           /\ j.pc = "sync" /\ j.td = td /\ j.touched = job[p].touched
           /\ Here(t) /\ used + 1 <= MaxRows /\ used' = used + 1
           /\ rows' = rows \cup {td}
           /\ job' = [job EXCEPT ![p] = j]
           /\ tenant' = IF job[p].first /\ job[p].blank
                        THEN [tenant EXCEPT ![t].sending = td.domain] ELSE tenant
           /\ IF \/ job[p].first # (RowsOf(t) = {})
                 \/ job[p].first /\ job[p].blank # (tenant[t].sending = Blank)
              THEN Remember({t}, "raced") ELSE UNCHANGED past
    BY <1>1, InsertedRow
  <1>3. UNCHANGED <<postal, made, acts>>
    BY DEF Inserts, Insert
  <1>4. job'[p] = j /\ \A q \in Procs : q # p => job'[q] = job[q]
    BY <1>1, <1>2
  <1>5. /\ past' \in [Tenants \cup Ids -> SUBSET Flags]
        /\ \A i \in Ids : past'[i] = past[i]
    <2>1. CASE Remember({t}, "raced")
      BY <1>1, <2>1, DomainsAssumption DEF Remember, Flags
    <2> QED BY <1>1, <1>2, <2>1
  <1>6. td.domain \in Domains
    BY Fields
  <1>7. /\ tenant' \in [Tenants -> TenantRows]
        /\ \A u \in Tenants : tenant'[u].state = tenant[u].state
    BY <1>1, <1>2, <1>6 DEF TenantRows
  <1>8. \A r \in rows : r.id \in 1 .. used /\ r.id \in Ids /\ r \in Td(1 .. used)
    BY <1>1, RowFacts
  <1>9. Typed'
    <2>1. job' \in [Procs -> Jobs(used')]
      <3>1. \A q \in Procs : job'[q] \in Jobs(used + 1)
        BY <1>1, <1>2, <1>4, MoreJobs
      <3> QED BY <1>1, <1>2, <3>1
    <2>2. rows' \subseteq Td(1 .. used')
      <3>1. 1 .. used \subseteq 1 .. used + 1
        BY <1>1
      <3> QED BY <1>2, <1>8, <3>1, MoreIds
    <2>3. Distinct(rows')
      <3>1. Distinct(rows) /\ \A r \in rows : r.id # td.id
        BY <1>1, <1>2, <1>8 DEF Typed, TypeOK
      <3> QED BY <1>2, <3>1 DEF Distinct
    <2>4. \A r \in rows' : Here(r.tenant)'
      <3>1. \A r \in rows' : r.tenant \in Tenants /\ Here(r.tenant)
        BY <1>1, <1>2, RowFacts
      <3> QED BY <1>7, <3>1 DEF Here
    <2>5. used' \in 0 .. MaxRows
      BY <1>1, <1>2
    <2> QED BY <1>1, <1>3, <1>5, <1>7, <2>1, <2>2, <2>3, <2>4, <2>5, TypedNext DEF Typed, TypeOK
  <1>10. Hands'
    <2> SUFFICES ASSUME NEW q \in Procs
                 PROVE  JobOK(q)'
      BY DEF Hands
    <2>1. \A x \in rows' : (\E r \in rows : Same(x, r)) \/ x.id \notin 1 .. used
      BY <1>1, <1>2 DEF Same
    <2>2. CASE q # p
      BY <1>1, <1>2, <1>4, <2>1, <2>2, OthersInHand DEF Hands
    <2>3. CASE q = p
      <3>1. JobOK(p)
        BY <1>1 DEF Hands
      <3>2. \A r \in rows' : r.id = td.id => Same(r, td)
        BY <1>1, <1>2, <1>8 DEF Same
      <3>3. "bridge" \notin job[p].touched
        <4>1. job[p].pc = "insert"
          BY DEF Inserts, Insert
        <4> QED BY <1>1, <4>1, <3>1 DEF JobOK
      <3> QED BY <1>2, <1>4, <2>3, <3>2, <3>3 DEF JobOK, Adding, Loaded
    <2> QED BY <2>2, <2>3
  <1>11. CapInv'
    BY <1>1, <1>2, InsertsCap
  <1>12. PrimeInv'
    BY <1>1, <1>2, <1>6, InsertsPrime
  <1>13. \A q \in Procs : job[q].pc \in {"sync", "ensure", "resync"} =>
                             job[q].td.id \in 1 .. used /\ job[q].td.id \in Ids
    BY <1>1, InHand DEF Loaded
  <1>14. ClaimInv'
    <2> SUFFICES ASSUME NEW r \in rows', "pulled" \notin past'[r.id]
                 PROVE  /\ Claims(r)'
                        /\ \A q \in Procs : job'[q].pc \in {"sync", "ensure", "resync"}
                                            /\ job'[q].td.id = r.id => Claims(job[q].td)'
      BY DEF ClaimInv
    <2>1. CASE r = td
      <3>1. \A q \in Procs : q # p /\ job[q].pc \in {"sync", "ensure", "resync"} => job[q].td.id # r.id
        BY <1>1, <1>2, <1>13, <2>1
      <3>2. Claims(td)'
        BY <1>2 DEF Claims
      <3>3. job'[p].td = td
        BY <1>2, <1>4
      <3> QED BY <1>4, <2>1, <3>1, <3>2, <3>3 DEF Claims
    <2>2. CASE r # td
      <3>1. r \in rows /\ r.id # td.id /\ r.id \in Ids /\ past'[r.id] = past[r.id]
        BY <1>1, <1>2, <1>5, <1>8, <2>2
      <3>2. /\ Claims(r)
            /\ \A q \in Procs : job[q].pc \in {"sync", "ensure", "resync"} /\ job[q].td.id = r.id
                                  => Claims(job[q].td)
        BY <1>1, <3>1 DEF ClaimInv
      <3>3. Claims(r)'
        BY <1>3, <3>1, <3>2 DEF Claims
      <3>4. ASSUME NEW q \in Procs, job'[q].pc \in {"sync", "ensure", "resync"}, job'[q].td.id = r.id
            PROVE  Claims(job[q].td)'
        <4>1. q # p /\ job'[q] = job[q]
          BY <1>2, <1>4, <3>1, <3>4
        <4>2. Claims(job[q].td)
          BY <3>2, <3>4, <4>1
        <4> QED BY <1>3, <3>1, <3>4, <4>1, <4>2 DEF Claims
      <3> QED BY <3>3, <3>4
    <2> QED BY <2>1, <2>2
  <1>15. BridgeInv'
    <2>1. BridgeMarkIsEarned'
      BY <1>1, <1>2, <1>5, <1>8 DEF BridgeMarkIsEarned
    <2>2. MarkInv'
      BY <1>1, <1>2, <1>4, <1>5, <1>13 DEF MarkInv
    <2> QED BY <2>1, <2>2 DEF BridgeInv
  <1> QED BY <1>9, <1>10, <1>11, <1>12, <1>14, <1>15 DEF IInv

\* Postal only learns of domains.
LEMMA ProvisionsClaims ==
    ASSUME Typed, Hands, ClaimInv, NEW p \in Procs, job[p].pc = "ensure",
           NEW k, NEW td, NEW j, NEW d \in Domains, d = job[p].td.domain,
           postal[d] # Blank => k = postal[d],
           postal' = [postal EXCEPT ![d] = k],
           Same(td, job[p].td),
           td.prov \in {"created", "exists"} => k # Blank \/ "believed" \in past'[td.id],
           td.dkim \in {job[p].td.dkim, k},
           job' = [job EXCEPT ![p] = j], j.td = td, rows' = rows,
           \A i \in Ids : past[i] \subseteq past'[i]
    PROVE  ClaimInv'
  <1>1. /\ job'[p] = j /\ \A q \in Procs : q # p => job'[q] = job[q]
        /\ postal'[d] = k /\ \A e \in Domains : e # d => postal'[e] = postal[e]
    BY DEF Typed, TypeOK
  <1> SUFFICES ASSUME NEW r \in rows', "pulled" \notin past'[r.id]
               PROVE  /\ Claims(r)'
                      /\ \A q \in Procs : job'[q].pc \in {"sync", "ensure", "resync"}
                                          /\ job'[q].td.id = r.id => Claims(job[q].td)'
    BY DEF ClaimInv
  <1>2. r \in rows /\ r.domain \in Domains /\ r.id \in Ids
    BY RowFacts
  <1>3. /\ Claims(r)
        /\ \A q \in Procs : job[q].pc \in {"sync", "ensure", "resync"} /\ job[q].td.id = r.id
                              => Claims(job[q].td)
    BY <1>2 DEF ClaimInv
  <1>4. Claims(r)'
    BY <1>1, <1>2, <1>3 DEF Claims
  <1>5. ASSUME NEW q \in Procs, q # p, job[q].pc \in {"sync", "ensure", "resync"}, job[q].td.id = r.id
        PROVE  Claims(job[q].td)'
    <2>1. job[q].td.domain \in Domains
      BY <1>5, InHand DEF Loaded
    <2>2. Claims(job[q].td)
      BY <1>3, <1>5
    <2>3. past[job[q].td.id] \subseteq past'[job[q].td.id]
      BY <1>2, <1>5
    <2> QED BY <1>1, <1>5, <2>1, <2>2, <2>3 DEF Claims
  <1>6. ASSUME td.id = r.id
        PROVE  Claims(job[p].td)'
    <2>1. Claims(job[p].td)
      BY <1>3, <1>6 DEF Same
    <2>2. td.domain = d
      BY DEF Same
    <2> QED BY <1>1, <2>1, <2>2 DEF Claims
  <1> QED BY <1>1, <1>4, <1>5, <1>6

\* Provisioning.
LEMMA ProvisionsKeep ==
    ASSUME IInv, acts' \in 0 .. MaxActs, NEW p \in Procs, Provisions(p)
    PROVE  IInv'
  <1>1. /\ Typed /\ Hands /\ CapInv /\ PrimeInv /\ ClaimInv /\ BridgeMarkIsEarned /\ MarkInv
        /\ job \in [Procs -> Jobs(used)] /\ used \in Nat
        /\ postal \in [Domains -> 0 .. MaxKeys]
        /\ past \in [Tenants \cup Ids -> SUBSET Flags]
    BY RowFacts DEF IInv, BridgeInv, Typed, TypeOK, Flags
  <1>2. PICK d \in Domains, k \in 0 .. MaxKeys, td \in Td(1 .. used),
             told \in {"vouched", "believed", "nothing"}, touched \in SUBSET {"dns", "prov", "bridge"} :
          /\ d = job[p].td.domain
          /\ postal[d] # Blank => k = postal[d]
          /\ postal' = [postal EXCEPT ![d] = k]
          /\ Same(td, job[p].td)
          /\ td.prov \in {"created", "exists"} => k # Blank \/ told = "believed"
          /\ td.dkim \in {job[p].td.dkim, k}
          /\ "bridge" \in touched => told = "vouched" \/ ("dns" \in touched /\ td.pv)
          /\ job' = [job EXCEPT ![p] = [@ EXCEPT !.pc = "resync", !.td = td, !.touched = touched]]
          /\ IF told = "nothing" THEN UNCHANGED past ELSE Remember({td.id}, told)
    BY DEF Provisions
  <1>3. /\ job[p].pc = "ensure" /\ made' \in [Domains -> 0 .. MaxKeys]
        /\ tenant' = tenant /\ rows' = rows /\ used' = used
    BY DEF Provisions
  <1>4. PICK j : j = [job[p] EXCEPT !.pc = "resync", !.td = td, !.touched = touched]
    OBVIOUS
  <1>5. td \in Td(0 .. used)
    BY <1>1, MoreIds, 1 .. used \subseteq 0 .. used, SMTT(30)
  <1>6. j \in Jobs(used) /\ j.pc = "resync" /\ j.td = td /\ j.touched = touched
    BY <1>1, <1>4, <1>5, ZenonT(60) DEF Jobs
  <1>7. job' = [job EXCEPT ![p] = j]
    BY <1>1, <1>2, <1>4
  <1>8. job'[p] = j /\ \A q \in Procs : q # p => job'[q] = job[q]
    BY <1>1, <1>7
  <1>9. /\ job[p].td.id \in Ids /\ td.id = job[p].td.id /\ td.id \notin Tenants
        /\ \A r \in rows : r.id = job[p].td.id => Same(r, job[p].td)
    BY <1>1, <1>2, <1>3, InHand, DomainsAssumption DEF Loaded, Same
  <1>10. /\ past' \in [Tenants \cup Ids -> SUBSET Flags]
         /\ \A t \in Tenants : past'[t] = past[t]
         /\ \A i \in Ids : past[i] \subseteq past'[i]
         /\ told # "nothing" => told \in past'[td.id]
    <2>1. CASE Remember({td.id}, told) /\ told # "nothing"
      BY <1>1, <1>9, <2>1 DEF Remember, Flags
    <2> QED BY <1>1, <1>2, <2>1
  <1>11. Typed'
    <2>1. job' \in [Procs -> Jobs(used')]
      BY <1>1, <1>3, <1>6, <1>7
    <2>2. postal' \in [Domains -> 0 .. MaxKeys]
      BY <1>1, <1>2
    <2>3. \A r \in rows' : Here(r.tenant)'
      BY <1>1, <1>3 DEF Typed, TypeOK, Here
    <2> QED BY <1>1, <1>3, <1>10, <2>1, <2>2, <2>3, TypedNext DEF Typed, TypeOK
  <1>12. \A x \in rows' : \E r \in rows : Same(x, r)
    BY <1>3 DEF Same
  <1>13. Hands'
    <2> SUFFICES ASSUME NEW q \in Procs
                 PROVE  JobOK(q)'
      BY DEF Hands
    <2>1. CASE q # p
      BY <1>1, <1>3, <1>8, <1>12, <2>1, OthersInHand DEF Hands
    <2>2. CASE q = p
      <3>1. \A r \in rows' : r.id = td.id => Same(r, td)
        BY <1>2, <1>3, <1>9 DEF Same
      <3> QED BY <1>3, <1>6, <1>8, <2>2, <3>1 DEF JobOK, Adding, Loaded
    <2> QED BY <2>1, <2>2
  <1>14. CapInv'
    <2>1. \A q \in Procs : Adding(q)' => Adding(q) /\ job'[q].td.tenant = job[q].td.tenant
      BY <1>6, <1>8 DEF Adding
    <2> QED BY <1>1, <1>11, <1>12, <2>1, CapKeeps
  <1>15. PrimeInv'
    BY <1>1, <1>3, <1>10, SMTT(30) DEF PrimeInv, RowsOf, Sends
  <1>16. ClaimInv'
    <2>1. job' = [job EXCEPT ![p] = j] /\ j.td = td
      BY <1>6, <1>7
    <2>2. td.prov \in {"created", "exists"} => k # Blank \/ "believed" \in past'[td.id]
      BY <1>2, <1>10
    <2> QED BY <1>1, <1>2, <1>3, <1>10, <2>1, <2>2, ProvisionsClaims, ZenonT(60)
  <1>17. BridgeMarkIsEarned'
    <2>1. \A r \in rows : r.id \in Ids
      BY <1>1, RowFacts
    <2> QED BY <1>1, <1>3, <1>10, <2>1 DEF BridgeMarkIsEarned
  <1>18. MarkInv'
    <2>1. \A q \in Procs : job[q].pc = "resync" => job[q].td.id \in Ids
      BY <1>1, InHand DEF Loaded
    <2> QED BY <1>1, <1>2, <1>6, <1>8, <1>10, <2>1 DEF MarkInv
  <1> QED BY <1>11, <1>13, <1>14, <1>15, <1>16, <1>17, <1>18 DEF IInv, BridgeInv

\* Removing a name from Postal, which is remembered of all rows of that name.
LEMMA UnlistsKeep ==
    ASSUME IInv, acts' \in 0 .. MaxActs, NEW p \in Procs, DeletePostalDomain(p)
    PROVE  IInv'
  <1>1. /\ Typed /\ Hands /\ CapInv /\ PrimeInv /\ ClaimInv /\ BridgeMarkIsEarned /\ MarkInv
        /\ job \in [Procs -> Jobs(used)] /\ used \in Nat
        /\ postal \in [Domains -> 0 .. MaxKeys]
        /\ past \in [Tenants \cup Ids -> SUBSET Flags]
    BY RowFacts DEF IInv, BridgeInv, Typed, TypeOK, Flags
  <1>2. job[p].pc = "unlist" /\ UNCHANGED <<tenant, rows, made, used, acts>>
        /\ job' = [job EXCEPT ![p].pc = "drop"]
    BY DEF DeletePostalDomain, Goto
  <1>3. PICK d : d = job[p].td.domain
    OBVIOUS
  <1>4. PICK a \in DeleteDomain(postal[d]) :
          /\ postal' = [postal EXCEPT ![d] = a.key]
          /\ IF a.key = Blank THEN Remember({x.id : x \in {y \in rows : y.domain = d}}, "pulled")
             ELSE UNCHANGED past
    BY <1>3, Zenon DEF DeletePostalDomain
  <1>5. d \in Domains /\ a.key \in {Blank, postal[d]} /\ Blank \in 0 .. MaxKeys
    BY <1>1, <1>2, <1>3, InHand, DnsAssumption DEF DeleteDomain, Loaded, Blank
  <1>6. PICK j : j = [job[p] EXCEPT !.pc = "drop"]
    OBVIOUS
  <1>7. j \in Jobs(used) /\ j.pc = "drop" /\ j.td = job[p].td /\ j.touched = job[p].touched
    BY <1>1, <1>6 DEF Jobs
  <1>8. job' = [job EXCEPT ![p] = j]
    BY <1>1, <1>2, <1>6
  <1>9. job'[p] = j /\ \A q \in Procs : q # p => job'[q] = job[q]
    BY <1>1, <1>8
  <1>10. \A r \in rows : r.id \in Ids /\ r.id \notin Tenants /\ r.domain \in Domains
    BY <1>1, RowFacts
  <1>11. /\ past' \in [Tenants \cup Ids -> SUBSET Flags]
         /\ \A t \in Tenants : past'[t] = past[t]
         /\ \A i \in Ids : past[i] \subseteq past'[i]
         /\ a.key = Blank => \A r \in rows : r.domain = d => "pulled" \in past'[r.id]
    <2>1. PICK xs : xs = {x.id : x \in {y \in rows : y.domain = d}}
      OBVIOUS
    <2>2. (\A x \in xs : x \in Ids /\ x \notin Tenants) /\ \A r \in rows : r.domain = d => r.id \in xs
      BY <1>10, <2>1
    <2>3. CASE a.key = Blank
      <3>1. Remember(xs, "pulled")
        BY <1>4, <2>1, <2>3
      <3>2. /\ past' \in [Tenants \cup Ids -> SUBSET Flags]
            /\ \A x \in Tenants \cup Ids :
                 past'[x] = IF x \in xs THEN past[x] \cup {"pulled"} ELSE past[x]
        BY <1>1, <3>1, Remembers DEF Flags
      <3> QED BY <1>10, <2>2, <3>2
    <2> QED BY <1>1, <1>4, <2>3
  <1>12. Typed'
    <2>1. job' \in [Procs -> Jobs(used')]
      BY <1>1, <1>2, <1>7, <1>8
    <2>2. postal' \in [Domains -> 0 .. MaxKeys]
      BY <1>1, <1>4, <1>5
    <2>3. \A r \in rows' : Here(r.tenant)'
      BY <1>1, <1>2 DEF Typed, TypeOK, Here
    <2> QED BY <1>1, <1>2, <1>11, <2>1, <2>2, <2>3, TypedNext DEF Typed, TypeOK
  <1>13. \A x \in rows' : \E r \in rows : Same(x, r)
    BY <1>2 DEF Same
  <1>14. Hands'
    <2> SUFFICES ASSUME NEW q \in Procs
                 PROVE  JobOK(q)'
      BY DEF Hands
    <2>1. CASE q # p
      BY <1>1, <1>2, <1>9, <1>13, <2>1, OthersInHand DEF Hands
    <2>2. CASE q = p
      <3>1. JobOK(p) /\ Loaded(p)
        BY <1>1, <1>2 DEF Hands, Loaded
      <3> QED BY <1>2, <1>7, <1>9, <2>2, <3>1 DEF JobOK, Adding, Loaded
    <2> QED BY <2>1, <2>2
  <1>15. CapInv'
    <2>1. \A q \in Procs : Adding(q)' => Adding(q) /\ job'[q].td.tenant = job[q].td.tenant
      BY <1>7, <1>9 DEF Adding
    <2> QED BY <1>1, <1>12, <1>13, <2>1, CapKeeps
  <1>16. PrimeInv'
    BY <1>1, <1>2, <1>11 DEF PrimeInv, RowsOf, Sends
  <1>17. ClaimInv'
    <2> SUFFICES ASSUME NEW r \in rows', "pulled" \notin past'[r.id]
                 PROVE  /\ Claims(r)'
                        /\ \A q \in Procs : job'[q].pc \in {"sync", "ensure", "resync"}
                                            /\ job'[q].td.id = r.id => Claims(job[q].td)'
      BY DEF ClaimInv
    <2>1. r \in rows /\ "pulled" \notin past[r.id] /\ r.domain \in Domains
      BY <1>2, <1>10, <1>11
    <2>2. /\ Claims(r)
          /\ \A q \in Procs : job[q].pc \in {"sync", "ensure", "resync"} /\ job[q].td.id = r.id
                                => Claims(job[q].td)
      BY <1>1, <2>1 DEF ClaimInv
    <2>3. postal'[r.domain] = postal[r.domain]
      BY <1>1, <1>4, <1>5, <1>11, <2>1
    <2>a. past[r.id] \subseteq past'[r.id]
      BY <1>10, <1>11, <2>1
    <2>4. ASSUME NEW q \in Procs, job'[q].pc \in {"sync", "ensure", "resync"}, job'[q].td.id = r.id
          PROVE  Claims(job[q].td)'
      <3>1. q # p /\ job'[q] = job[q]
        BY <1>7, <1>9, <2>4
      <3>2. Same(r, job[q].td)
        BY <1>1, <2>1, <2>4, <3>1, InHand DEF Loaded
      <3> QED BY <2>a, <2>2, <2>3, <2>4, <3>1, <3>2 DEF Claims, Same
    <2>5. Claims(r)'
      BY <2>a, <2>2, <2>3 DEF Claims
    <2> QED BY <2>4, <2>5
  <1>18. BridgeMarkIsEarned'
    BY <1>1, <1>2, <1>10, <1>11 DEF BridgeMarkIsEarned
  <1>19. MarkInv'
    <2>1. \A q \in Procs : job[q].pc = "resync" => job[q].td.id \in Ids
      BY <1>1, InHand DEF Loaded
    <2> QED BY <1>1, <1>7, <1>9, <1>11, <2>1 DEF MarkInv
  <1> QED BY <1>12, <1>14, <1>15, <1>16, <1>17, <1>18, <1>19 DEF IInv, BridgeInv

\* Rows that are lost, or keep what they say, and processes that answer or do nothing.
LEMMA RowsKeep ==
    ASSUME IInv, Typed', \A q \in Procs : job'[q] \in {job[q], Idle}, used' = used, postal' = postal,
           \A i \in Ids : past'[i] = past[i],
           \A x \in rows' : \E r \in rows : /\ Same(x, r) /\ x.prov = r.prov /\ x.dkim = r.dkim
                                           /\ x.pv = r.pv /\ x.bridge_at = r.bridge_at
    PROVE  Hands' /\ CapInv' /\ ClaimInv' /\ BridgeInv'
  <1>1. Typed /\ Hands /\ CapInv /\ ClaimInv /\ BridgeMarkIsEarned /\ MarkInv /\ used \in Nat
    BY RowFacts DEF IInv, BridgeInv
  <1>2. \A x \in rows' : \E r \in rows : Same(x, r)
    OBVIOUS
  <1>3. Hands'
    <2> SUFFICES ASSUME NEW q \in Procs
                 PROVE  JobOK(q)'
      BY DEF Hands
    <2>1. CASE job'[q] = job[q]
      BY <1>1, <1>2, <2>1, OthersInHand DEF Hands
    <2>2. CASE job'[q] = Idle
      BY <2>2, IdleJob DEF JobOK, Adding, Loaded
    <2> QED BY <2>1, <2>2
  <1>4. CapInv'
    <2>1. \A q \in Procs : Adding(q)' => Adding(q) /\ job'[q].td.tenant = job[q].td.tenant
      BY IdleJob DEF Adding
    <2> QED BY <1>1, <1>2, <2>1, CapKeeps
  <1>5. ClaimInv'
    <2> SUFFICES ASSUME NEW x \in rows', "pulled" \notin past'[x.id]
                 PROVE  /\ Claims(x)'
                        /\ \A q \in Procs : job'[q].pc \in {"sync", "ensure", "resync"}
                                            /\ job'[q].td.id = x.id => Claims(job[q].td)'
      BY DEF ClaimInv
    <2>1. PICK r \in rows : Same(x, r) /\ x.prov = r.prov /\ x.dkim = r.dkim
      OBVIOUS
    <2>2. r.id = x.id /\ r.id \in Ids /\ r.domain = x.domain
      BY <1>1, <2>1, RowFacts DEF Same
    <2>3. /\ Claims(r)
          /\ \A q \in Procs : job[q].pc \in {"sync", "ensure", "resync"} /\ job[q].td.id = r.id
                                => Claims(job[q].td)
      BY <1>1, <2>2 DEF ClaimInv
    <2>4. Claims(x)'
      BY <2>1, <2>2, <2>3 DEF Claims
    <2>5. ASSUME NEW q \in Procs, job'[q].pc \in {"sync", "ensure", "resync"}, job'[q].td.id = x.id
          PROVE  Claims(job[q].td)'
      <3>1. job'[q] = job[q]
        BY <2>5, IdleJob
      <3> QED BY <2>2, <2>3, <2>5, <3>1 DEF Claims
    <2> QED BY <2>4, <2>5
  <1>6. BridgeMarkIsEarned'
    <2> SUFFICES ASSUME NEW x \in rows', x.bridge_at
                 PROVE  x.pv \/ past'[x.id] \cap {"vouched", "clobbered"} # {}
      BY DEF BridgeMarkIsEarned
    <2>1. PICK r \in rows : Same(x, r) /\ x.pv = r.pv /\ x.bridge_at = r.bridge_at
      OBVIOUS
    <2>2. r.id = x.id /\ r.id \in Ids
      BY <1>1, <2>1, RowFacts DEF Same
    <2> QED BY <1>1, <2>1, <2>2 DEF BridgeMarkIsEarned
  <1>7. MarkInv'
    <2> SUFFICES ASSUME NEW q \in Procs, job'[q].pc = "resync", "bridge" \in job'[q].touched
                 PROVE  \/ "dns" \in job'[q].touched /\ job'[q].td.pv
                        \/ "vouched" \in past'[job'[q].td.id]
      BY DEF MarkInv
    <2>1. job'[q] = job[q]
      BY IdleJob
    <2>2. job[q].td.id \in Ids
      BY <1>1, <2>1, InHand DEF Loaded
    <2> QED BY <1>1, <2>1, <2>2 DEF MarkInv
  <1> QED BY <1>3, <1>4, <1>5, <1>6, <1>7 DEF BridgeInv

\* A tenant whose rows and sending domain are as they were keeps its primary domain.
LEMMA OthersPrime ==
    ASSUME NEW u \in Tenants, PrimeInv, "raced" \notin past[u],
           RowsOf(u)' = RowsOf(u), \A d : Sends(u, d) => Sends(u, d)'
    PROVE  IF RowsOf(u)' = {} THEN Sends(u, Blank)'
           ELSE \E c \in RowsOf(u)' : /\ \A y \in RowsOf(u)' : y.primary <=> y = c
                                    /\ Sends(u, c.domain)'
  <1>1. /\ RowsOf(u) = {} => Sends(u, Blank)
        /\ RowsOf(u) # {} => \E c \in RowsOf(u) : /\ \A y \in RowsOf(u) : y.primary <=> y = c
                                                /\ Sends(u, c.domain)
    BY DEF PrimeInv
  <1> QED BY <1>1

\* A form that names the sending domain, as is remembered.
LEMMA FormKeeps ==
    ASSUME IInv, acts' \in 0 .. MaxActs, NEW t \in Tenants, TenantForm(t)
    PROVE  IInv'
  <1>1. /\ Typed /\ PrimeInv
        /\ tenant \in [Tenants -> TenantRows]
        /\ past \in [Tenants \cup Ids -> SUBSET Flags]
    BY DEF IInv, Typed, TypeOK, Flags
  <1>2. /\ Here(t) /\ Remember({t}, "typed") /\ UNCHANGED <<rows, postal, made, used, job>>
    BY DEF TenantForm
  <1>3. PICK st \in {"active", "suspended"}, d \in Domains \cup {Blank} :
          tenant' = [tenant EXCEPT ![t] = [state |-> st, sending |-> d]]
    BY DEF TenantForm
  <1>4. /\ tenant' \in [Tenants -> TenantRows]
        /\ tenant'[t].state # "deleted" /\ \A u \in Tenants : u # t => tenant'[u] = tenant[u]
    BY <1>1, <1>3 DEF TenantRows
  <1>5. /\ past' \in [Tenants \cup Ids -> SUBSET Flags]
        /\ \A i \in Ids : past'[i] = past[i]
        /\ \A u \in Tenants : u # t => past'[u] = past[u]
        /\ past'[t] = past[t] \cup {"typed"}
    BY <1>1, <1>2, DomainsAssumption DEF Remember, Flags
  <1>6. Typed'
    <2>1. \A r \in rows' : Here(r.tenant)'
      <3>1. \A r \in rows' : r.tenant \in Tenants /\ Here(r.tenant)
        BY <1>1, <1>2, RowFacts
      <3> QED BY <1>4, <3>1 DEF Here
    <2>2. job' \in [Procs -> Jobs(used')]
      BY <1>1, <1>2 DEF Typed
    <2> QED BY <1>1, <1>2, <1>4, <1>5, <2>1, <2>2, TypedNext DEF Typed, TypeOK
  <1>7. Hands' /\ CapInv' /\ ClaimInv' /\ BridgeInv'
    <2>1. \A x \in rows' : \E r \in rows : /\ Same(x, r) /\ x.prov = r.prov /\ x.dkim = r.dkim
                                          /\ x.pv = r.pv /\ x.bridge_at = r.bridge_at
      BY <1>2 DEF Same
    <2> QED BY <1>2, <1>5, <1>6, <2>1, RowsKeep
  <1>8. PrimeInv'
    <2> SUFFICES ASSUME NEW u \in Tenants, "raced" \notin past'[u]
                 PROVE  IF RowsOf(u)' = {} THEN Sends(u, Blank)'
                        ELSE \E c \in RowsOf(u)' : /\ \A y \in RowsOf(u)' : y.primary <=> y = c
                                                 /\ Sends(u, c.domain)'
      BY DEF PrimeInv
    <2>1. RowsOf(u)' = RowsOf(u) /\ "raced" \notin past[u]
      BY <1>2, <1>5 DEF RowsOf
    <2>2. \A e : Sends(u, e) => Sends(u, e)'
      BY <1>4, <1>5 DEF Sends
    <2> QED BY <1>1, <2>1, <2>2, OthersPrime
  <1> QED BY <1>6, <1>7, <1>8 DEF IInv

\* Deleting a tenant takes its rows with it.
LEMMA DeleteKeeps ==
    ASSUME IInv, acts' \in 0 .. MaxActs, NEW t \in Tenants, OperatorTenantDelete(t)
    PROVE  IInv'
  <1>1. /\ Typed /\ PrimeInv
        /\ tenant \in [Tenants -> TenantRows]
    BY DEF IInv, Typed, TypeOK
  <1>2. /\ UNCHANGED <<postal, made, used, job, past>> /\ rows' = rows \ RowsOf(t)
        /\ tenant' = [tenant EXCEPT ![t] = [state |-> "deleted", sending |-> Blank]]
    BY DEF OperatorTenantDelete
  <1>3. /\ tenant' \in [Tenants -> TenantRows]
        /\ tenant'[t].sending = Blank /\ \A u \in Tenants : u # t => tenant'[u] = tenant[u]
    BY <1>1, <1>2 DEF TenantRows
  <1>4. \A r \in rows' : r \in rows /\ r.tenant # t
    BY <1>2 DEF RowsOf
  <1>5. Typed'
    <2>1. \A r \in rows' : Here(r.tenant)'
      <3>1. \A r \in rows' : r.tenant \in Tenants /\ r.tenant # t /\ Here(r.tenant)
        BY <1>1, <1>4, RowFacts
      <3> QED BY <1>3, <3>1 DEF Here
    <2>2. job' \in [Procs -> Jobs(used')]
      BY <1>1, <1>2 DEF Typed
    <2>3. Distinct(rows') /\ rows' \subseteq Td(1 .. used')
      BY <1>1, <1>2 DEF Typed, TypeOK, Distinct
    <2> QED BY <1>1, <1>2, <1>3, <2>1, <2>2, <2>3, TypedNext DEF Typed, TypeOK, Flags
  <1>6. Hands' /\ CapInv' /\ ClaimInv' /\ BridgeInv'
    <2>1. \A x \in rows' : \E r \in rows : /\ Same(x, r) /\ x.prov = r.prov /\ x.dkim = r.dkim
                                          /\ x.pv = r.pv /\ x.bridge_at = r.bridge_at
      BY <1>4 DEF Same
    <2> QED BY <1>2, <1>5, <2>1, RowsKeep
  <1>7. PrimeInv'
    <2> SUFFICES ASSUME NEW u \in Tenants, "raced" \notin past'[u]
                 PROVE  IF RowsOf(u)' = {} THEN Sends(u, Blank)'
                        ELSE \E c \in RowsOf(u)' : /\ \A y \in RowsOf(u)' : y.primary <=> y = c
                                                 /\ Sends(u, c.domain)'
      BY DEF PrimeInv
    <2>1. CASE u = t
      <3>1. RowsOf(t)' = {}
        BY <1>4 DEF RowsOf
      <3> QED BY <1>3, <2>1, <3>1 DEF Sends
    <2>2. CASE u # t
      <3>1. RowsOf(u)' = RowsOf(u) /\ "raced" \notin past[u]
        BY <1>2, <2>2 DEF RowsOf
      <3>2. \A e : Sends(u, e) => Sends(u, e)'
        BY <1>2, <1>3, <2>2 DEF Sends
      <3> QED BY <1>1, <3>1, <3>2, OthersPrime
    <2> QED BY <2>1, <2>2
  <1> QED BY <1>5, <1>6, <1>7 DEF IInv

\* Choosing a primary domain or removing one sets what the tenant sends from as well.
LEMMA RepointsKeep ==
    ASSUME IInv, acts' \in 0 .. MaxActs, NEW p \in Procs, Repoints(p)
    PROVE  IInv'
  <1>1. /\ Typed /\ PrimeInv
        /\ tenant \in [Tenants -> TenantRows] /\ job \in [Procs -> Jobs(used)]
        /\ past \in [Tenants \cup Ids -> SUBSET Flags]
        /\ rows \subseteq Td(1 .. used)
    BY DEF IInv, Typed, TypeOK, Flags
  <1>a. PICK t \in Tenants :
          /\ Here(t) /\ Settled(t)
          /\ \E rest \in SUBSET RowsOf(t) :
                \/ rest = {} /\ rows' = rows \ RowsOf(t) /\ SetSending(t, Blank)
                \/ \E c \in rest : /\ rows' = (rows \ RowsOf(t)) \cup OnlyPrimary(rest, c)
                                   /\ SetSending(t, c.domain)
    BY DEF Repoints
  <1>2. PICK rest \in SUBSET RowsOf(t) :
          \/ rest = {} /\ rows' = rows \ RowsOf(t) /\ SetSending(t, Blank)
          \/ \E c \in rest : /\ rows' = (rows \ RowsOf(t)) \cup OnlyPrimary(rest, c)
                             /\ SetSending(t, c.domain)
    BY <1>a
  <1>3. job' = [job EXCEPT ![p] = Idle] /\ UNCHANGED <<postal, made, used>>
    BY DEF Repoints
  <1>4. rest \subseteq Td(1 .. used) /\ rest \subseteq rows /\ \A r \in rest : r.tenant = t
    BY <1>1 DEF RowsOf
  <1>5. /\ past' \in [Tenants \cup Ids -> SUBSET Flags] /\ past'[t] = {}
        /\ \A i \in Ids : past'[i] = past[i]
        /\ \A u \in Tenants : u # t => past'[u] = past[u]
    BY <1>1, <1>a, DomainsAssumption DEF Settled
  <1>b. ASSUME NEW c
        PROVE  \A x \in OnlyPrimary(rest, c) : \E y \in rest :
                 /\ x = Pointed(y, c)
                 /\ x \in Td(1 .. used) /\ Same(x, y) /\ (x.primary <=> y = c)
                 /\ x.prov = y.prov /\ x.dkim = y.dkim /\ x.pv = y.pv /\ x.bridge_at = y.bridge_at
    <2> SUFFICES ASSUME NEW x \in OnlyPrimary(rest, c)
                 PROVE  \E y \in rest :
                          /\ x = Pointed(y, c)
                          /\ x \in Td(1 .. used) /\ Same(x, y) /\ (x.primary <=> y = c)
                          /\ x.prov = y.prov /\ x.dkim = y.dkim /\ x.pv = y.pv
                          /\ x.bridge_at = y.bridge_at
      OBVIOUS
    <2>1. PICK y \in rest : x = Pointed(y, c)
      BY DEF OnlyPrimary, Pointed
    <2>2. y \in Td(1 .. used)
      BY <1>4
    <2>3. /\ x \in Td(1 .. used) /\ Same(x, y) /\ (x.primary <=> y = c)
          /\ x.prov = y.prov /\ x.dkim = y.dkim /\ x.pv = y.pv /\ x.bridge_at = y.bridge_at
      BY <2>1, <2>2 DEF Td, Same, Pointed
    <2> QED BY <2>1, <2>3
  <1> DEFINE Edited(rs) ==
               /\ rs \subseteq Td(1 .. used)
               /\ \A x \in rs : x.tenant # t => x \in rows
               /\ \A x \in rs : \E r \in rows : /\ Same(x, r) /\ x.prov = r.prov /\ x.dkim = r.dkim
                                               /\ x.pv = r.pv /\ x.bridge_at = r.bridge_at
               /\ \A x, y \in rs : (x.tenant = t /\ y.tenant = t
                                      /\ (x.id = y.id \/ x.domain = y.domain)) => x = y
  <1>6. Edited(rows')
    <2>1. CASE rest = {} /\ rows' = rows \ RowsOf(t)
      <3>1. \A x \in rows' : x \in rows /\ x.tenant # t /\ Same(x, x)
        BY <2>1 DEF RowsOf, Same
      <3> QED BY <1>1, <3>1
    <2>2. ASSUME NEW c \in rest, rows' = (rows \ RowsOf(t)) \cup OnlyPrimary(rest, c)
          PROVE  Edited(rows')
      <3>1. \A x \in OnlyPrimary(rest, c) : \E y \in rest :
              /\ x = Pointed(y, c)
              /\ x \in Td(1 .. used) /\ Same(x, y) /\ (x.primary <=> y = c)
              /\ x.prov = y.prov /\ x.dkim = y.dkim /\ x.pv = y.pv /\ x.bridge_at = y.bridge_at
        BY <1>b
      <3>2. \A x \in rows' : x \in OnlyPrimary(rest, c) \/ (x \in rows /\ x.tenant # t)
        BY <2>2 DEF RowsOf
      <3>3. \A x \in OnlyPrimary(rest, c) : x.tenant = t
        BY <1>4, <3>1 DEF Same
      <3>4. ASSUME NEW x \in rows', NEW y \in rows', x.tenant = t, y.tenant = t,
                   x.id = y.id \/ x.domain = y.domain
            PROVE  x = y
        <4>1. PICK v \in rest : x = Pointed(v, c) /\ Same(x, v)
          BY <3>1, <3>2, <3>4
        <4>2. PICK w \in rest : y = Pointed(w, c) /\ Same(y, w)
          BY <3>1, <3>2, <3>4
        <4>3. v = w
          BY <1>1, <1>4, <3>4, <4>1, <4>2 DEF Typed, TypeOK, Distinct, Same
        <4> QED BY <4>1, <4>2, <4>3
      <3>5. \A x \in rows' : \E r \in rows : /\ Same(x, r) /\ x.prov = r.prov /\ x.dkim = r.dkim
                                            /\ x.pv = r.pv /\ x.bridge_at = r.bridge_at
        <4>1. \A x \in rows : Same(x, x)
          BY DEF Same
        <4> QED BY <1>4, <3>1, <3>2, <4>1
      <3>6. rows' \subseteq Td(1 .. used)
        BY <1>1, <3>1, <3>2
      <3> QED BY <3>2, <3>3, <3>4, <3>5, <3>6
    <2> QED BY <1>2, <2>1, <2>2
  <1>7. /\ tenant' \in [Tenants -> TenantRows] /\ tenant'[t].state = tenant[t].state
        /\ \A u \in Tenants : u # t => tenant'[u] = tenant[u]
    <2>1. PICK d \in Domains \cup {Blank} : SetSending(t, d)
      BY <1>2, <1>4, Fields
    <2> QED BY <1>1, <2>1 DEF SetSending, TenantRows
  <1>8. Typed'
    <2>1. \A r \in rows' : Here(r.tenant)'
      <3>1. \A x \in rows' : x.tenant \in Tenants /\ Here(x.tenant)
        BY <1>1, <1>6, RowFacts DEF Same
      <3> QED BY <1>7, <3>1 DEF Here
    <2>2. job' \in [Procs -> Jobs(used')]
      BY <1>1, <1>3, IdleJob
    <2>3. Distinct(rows')
      <3> SUFFICES ASSUME NEW x \in rows', NEW y \in rows',
                          x.id = y.id \/ (x.tenant = y.tenant /\ x.domain = y.domain)
                   PROVE  x = y
        BY DEF Distinct
      <3>1. PICK v \in rows : Same(x, v)
        BY <1>6
      <3>2. PICK w \in rows : Same(y, w)
        BY <1>6
      <3>3. v = w
        BY <1>1, <3>1, <3>2 DEF Typed, TypeOK, Distinct, Same
      <3>4. x.tenant = y.tenant
        BY <3>1, <3>2, <3>3 DEF Same
      <3>5. CASE x.tenant = t
        BY <1>6, <3>4, <3>5
      <3>6. CASE x.tenant # t
        BY <1>1, <1>6, <3>4, <3>6 DEF Typed, TypeOK, Distinct
      <3> QED BY <3>5, <3>6
    <2>4. rows' \subseteq Td(1 .. used')
      BY <1>3, <1>6
    <2> QED BY <1>1, <1>3, <1>5, <1>7, <2>1, <2>2, <2>3, <2>4, TypedNext DEF Typed, TypeOK
  <1>9. Hands' /\ CapInv' /\ ClaimInv' /\ BridgeInv'
    <2>1. \A q \in Procs : job'[q] \in {job[q], Idle}
      BY <1>1, <1>3
    <2> QED BY <1>3, <1>5, <1>6, <1>8, <2>1, RowsKeep
  <1>10. PrimeInv'
    <2> SUFFICES ASSUME NEW u \in Tenants, "raced" \notin past'[u]
                 PROVE  IF RowsOf(u)' = {} THEN Sends(u, Blank)'
                        ELSE \E c \in RowsOf(u)' : /\ \A y \in RowsOf(u)' : y.primary <=> y = c
                                                 /\ Sends(u, c.domain)'
      BY DEF PrimeInv
    <2>1. CASE u # t
      <3>1. RowsOf(u)' = RowsOf(u)
        <4>1. \A x \in rows : x.tenant = u => x \in rows'
          BY <1>2, <2>1 DEF RowsOf
        <4> QED BY <1>6, <2>1, <4>1 DEF RowsOf
      <3>2. (\A e : Sends(u, e) => Sends(u, e)') /\ "raced" \notin past[u]
        BY <1>5, <1>7, <2>1 DEF Sends
      <3> QED BY <1>1, <3>1, <3>2, OthersPrime
    <2>2. CASE u = t /\ rest = {} /\ rows' = rows \ RowsOf(t) /\ SetSending(t, Blank)
      <3>1. RowsOf(t)' = {}
        BY <2>2 DEF RowsOf
      <3>2. tenant'[t].sending = Blank
        BY <1>1, <2>2 DEF SetSending, TenantRows
      <3> QED BY <2>2, <3>1, <3>2 DEF Sends
    <2>3. ASSUME u = t, NEW c \in rest, rows' = (rows \ RowsOf(t)) \cup OnlyPrimary(rest, c),
                 SetSending(t, c.domain)
          PROVE  \E y \in RowsOf(t)' : /\ \A x \in RowsOf(t)' : x.primary <=> x = y
                                     /\ Sends(t, y.domain)'
      <3>1. \A x \in OnlyPrimary(rest, c) : \E y \in rest :
              /\ x = Pointed(y, c)
              /\ x \in Td(1 .. used) /\ Same(x, y) /\ (x.primary <=> y = c)
              /\ x.prov = y.prov /\ x.dkim = y.dkim /\ x.pv = y.pv /\ x.bridge_at = y.bridge_at
        BY <1>b
      <3>2. PICK y : y = Pointed(c, c)
        OBVIOUS
      <3>3. y \in OnlyPrimary(rest, c)
        BY <3>2 DEF OnlyPrimary, Pointed
      <3>4. PICK v \in rest : y = Pointed(v, c) /\ Same(y, v) /\ (y.primary <=> v = c)
        BY <3>1, <3>3
      <3>5. y.primary /\ y.domain = c.domain /\ y.tenant = t
        BY <1>4, <3>2 DEF Td, Pointed
      <3>6. y \in RowsOf(t)'
        BY <2>3, <3>3, <3>5 DEF RowsOf
      <3>7. ASSUME NEW x \in RowsOf(t)'
            PROVE  x.primary <=> x = y
        <4>1. x \in OnlyPrimary(rest, c)
          BY <2>3 DEF RowsOf
        <4>2. PICK z \in rest : x = Pointed(z, c) /\ (x.primary <=> z = c)
          BY <3>1, <4>1
        <4> QED BY <3>2, <3>5, <4>2
      <3>8. tenant'[t].sending = c.domain
        BY <1>1, <2>3 DEF SetSending, TenantRows
      <3> QED BY <3>5, <3>6, <3>7, <3>8 DEF Sends
    <2>4. CASE u = t
      <3>1. CASE rest = {} /\ rows' = rows \ RowsOf(t) /\ SetSending(t, Blank)
        BY <2>2, <2>4, <3>1
      <3>2. ASSUME NEW c \in rest, rows' = (rows \ RowsOf(t)) \cup OnlyPrimary(rest, c),
                   SetSending(t, c.domain)
            PROVE  \E y \in RowsOf(t)' : /\ \A x \in RowsOf(t)' : x.primary <=> x = y
                                       /\ Sends(t, y.domain)'
        BY <2>3, <2>4, <3>2
      <3> QED BY <1>2, <2>4, <3>1, <3>2
    <2> QED BY <2>1, <2>4
  <1> QED BY <1>8, <1>9, <1>10 DEF IInv

\* Requests are counted, up to the bound.
LEMMA ActsCount ==
    ASSUME Typed, [Next]_vars
    PROVE  acts' \in 0 .. MaxActs
  <1>1. acts \in 0 .. MaxActs /\ MaxActs \in Nat
    BY DomainsAssumption DEF Typed, TypeOK
  <1>2. acts' = acts \/ (acts < MaxActs /\ acts' = acts + 1)
    <2>1. CASE UNCHANGED vars
      BY <2>1 DEF vars
    <2>2. ASSUME NEW p \in Procs, NEW new, Request(p, new)
          PROVE  acts < MaxActs /\ acts' = acts + 1
      BY <2>2 DEF Request
    <2>3. ASSUME NEW p \in Procs, NEW t \in Tenants, NEW d \in Domains, TenantDomainNew(p, t, d)
          PROVE  acts < MaxActs /\ acts' = acts + 1
      BY <2>2, <2>3 DEF TenantDomainNew
    <2>4. ASSUME NEW p \in Procs, NEW r,
                 \/ TenantDomainDetail(p, r) \/ TenantDomainRetryPostal(p, r)
                 \/ TenantDomainVerify(p, r) \/ TenantDomainMakePrimary(p, r)
                 \/ TenantDomainDelete(p, r)
          PROVE  acts < MaxActs /\ acts' = acts + 1
      BY <2>2, <2>4, Zenon DEF TenantDomainDetail, TenantDomainRetryPostal, TenantDomainVerify,
            TenantDomainMakePrimary, TenantDomainDelete, Loads
    <2>5. ASSUME NEW t \in Tenants, TenantForm(t) \/ OperatorTenantDelete(t)
          PROVE  acts < MaxActs /\ acts' = acts + 1
      BY <2>5 DEF TenantForm, OperatorTenantDelete, Act
    <2>6. ASSUME NEW p \in Procs, IsFirst(p) \/ Insert(p) \/ Sync(p) \/ Ensure(p) \/ Resync(p)
          PROVE  acts' = acts
      BY <2>6, Zenon DEF IsFirst, Insert, Sync, Ensure, Resync
    <2>7. ASSUME NEW p \in Procs, Verify(p) \/ MakePrimary(p) \/ DeletePostalDomain(p)
                                  \/ DropDomain(p) \/ Dies(p)
          PROVE  acts' = acts
      BY <2>7, Zenon DEF Verify, MakePrimary, DeletePostalDomain, DropDomain, Dies
    <2> QED BY <2>1, <2>3, <2>4, <2>5, <2>6, <2>7, Zenon
            DEF Next, PortalTenantSettings, OperatorTenantEdit
  <1> QED BY <1>1, <1>2

\* Nothing happens.
LEMMA StutterKeeps ==
    ASSUME IInv, UNCHANGED vars
    PROVE  IInv'
  <1>1. /\ tenant' = tenant /\ rows' = rows /\ postal' = postal /\ made' = made
        /\ used' = used /\ job' = job /\ acts' = acts /\ past' = past
    BY DEF vars
  <1>2. Typed'
    <2>1. \A r \in rows' : Here(r.tenant)'
      BY <1>1 DEF IInv, Typed, TypeOK, Here
    <2> QED BY <1>1, <2>1, TypedNext DEF IInv, Typed, TypeOK, Flags
  <1>3. Hands' /\ CapInv' /\ ClaimInv' /\ BridgeInv'
    <2>1. \A x \in rows' : \E r \in rows : /\ Same(x, r) /\ x.prov = r.prov /\ x.dkim = r.dkim
                                          /\ x.pv = r.pv /\ x.bridge_at = r.bridge_at
      BY <1>1 DEF Same
    <2> QED BY <1>1, <1>2, <2>1, RowsKeep
  <1>4. PrimeInv'
    BY <1>1 DEF IInv, PrimeInv, RowsOf, Sends
  <1> QED BY <1>2, <1>3, <1>4 DEF IInv

-----------------------------------------------------------------------------
(* The theorems. *)

\* The invariant holds in the states to start in.
THEOREM InitInv == Init => IInv
  <1> SUFFICES ASSUME Init
               PROVE  IInv
    OBVIOUS
  <1>1. PICK s \in Start :
          /\ tenant = s.tenant /\ rows = s.rows /\ postal = s.postal /\ made = s.postal
          /\ used = Cardinality(s.rows)
          /\ job = [p \in Procs |-> Idle] /\ acts = 0
          /\ past = [x \in Tenants \cup Ids |-> {}]
    BY DEF Init
  <1>2. StartOK(s)
    BY StartAssumption
  <1>3. /\ tenant \in [Tenants -> TenantRows] /\ postal \in [Domains -> 0 .. MaxKeys]
        /\ IsFiniteSet(rows) /\ used = Cardinality(rows) /\ used <= MaxRows
        /\ rows \subseteq Td(1 .. used) /\ Distinct(rows)
    BY <1>1, <1>2 DEF StartOK
  <1>4. \A r \in rows : /\ Here(r.tenant) /\ Claims(r) /\ (r.bridge_at => r.pv)
    BY <1>1, <1>2 DEF StartOK, Here, Claims
  <1>5. \A t \in Tenants :
          /\ Cardinality(RowsOf(t)) < MaxDomains + Cardinality(Procs)
          /\ IF RowsOf(t) = {} THEN tenant[t].sending = Blank
             ELSE \E r \in RowsOf(t) : /\ {x \in RowsOf(t) : x.primary} = {r}
                                       /\ tenant[t].sending = r.domain
    BY <1>1, <1>2 DEF StartOK, RowsOf
  <1>6. /\ used \in Nat /\ used \in 0 .. MaxRows /\ 0 \in 0 .. MaxActs
    BY <1>3, FS_CardinalityType, DomainsAssumption
  <1>7. \A p \in Procs : job[p] = Idle /\ ~Adding(p) /\ ~Loaded(p)
    BY <1>1, IdleJob DEF Adding, Loaded
  <1>8. Typed
    <2>1. job \in [Procs -> Jobs(used)]
      BY <1>1, IdleJob
    <2>2. past \in [Tenants \cup Ids -> SUBSET {"raced", "typed", "pulled", "vouched",
                                               "believed", "clobbered"}]
      BY <1>1
    <2>3. \A p \in Procs :
             /\ job[p].pc \in {"idle", "add", "insert", "sync", "ensure", "resync",
                               "verify", "promote", "unlist", "drop"}
             /\ job[p].td \in Td(0 .. used) \cup {NoDomain}
             /\ job[p].touched \subseteq {"dns", "prov", "bridge"}
      BY <2>1, JobFields
    <2> QED BY <1>1, <1>3, <1>4, <1>6, <2>1, <2>2, <2>3 DEF Typed, TypeOK
  <1>9. Hands
    BY <1>7, IdleJob DEF Hands, JobOK
  <1>10. CapInv
    <2> SUFFICES ASSUME NEW t \in Tenants
                 PROVE  Cardinality(RowsOf(t)) + Cardinality(Pending(t))
                          < MaxDomains + Cardinality(Procs)
      BY DEF CapInv
    <2>1. Pending(t) = {}
      BY <1>7 DEF Pending
    <2>2. Cardinality(Pending(t)) = 0
      BY <2>1, FS_EmptySet
    <2>3. Cardinality(RowsOf(t)) \in Nat
      BY <1>8, FiniteRows
    <2> QED BY <1>5, <2>2, <2>3
  <1>11. PrimeInv
    <2> SUFFICES ASSUME NEW t \in Tenants
                 PROVE  IF RowsOf(t) = {} THEN Sends(t, Blank)
                        ELSE \E r \in RowsOf(t) : /\ \A x \in RowsOf(t) : x.primary <=> x = r
                                                  /\ Sends(t, r.domain)
      BY DEF PrimeInv
    <2> QED BY <1>5 DEF Sends
  <1>12. ClaimInv /\ BridgeInv
    BY <1>4, <1>7, IdleJob DEF ClaimInv, BridgeInv, BridgeMarkIsEarned, MarkInv
  <1> QED BY <1>8, <1>9, <1>10, <1>11, <1>12 DEF IInv

\* Every step keeps it.
THEOREM Inductive == IInv /\ [Next]_vars => IInv'
  <1> SUFFICES ASSUME IInv, [Next]_vars
               PROVE  IInv'
    OBVIOUS
  <1>1. Typed /\ Hands
    BY DEF IInv
  <1>2. acts' \in 0 .. MaxActs
    BY <1>1, ActsCount
  <1>3. CASE UNCHANGED vars
    BY <1>3, StutterKeeps
  <1>4. ASSUME NEW p \in Procs, \/ Asks(p) \/ Writes(p) \/ Inserts(p) \/ Repoints(p)
                                \/ Provisions(p) \/ DeletePostalDomain(p)
        PROVE  IInv'
    BY <1>2, <1>4, AsksKeep, WritesKeep, InsertsKeep, RepointsKeep, ProvisionsKeep, UnlistsKeep
  <1>5. ASSUME NEW t \in Tenants, TenantForm(t) \/ OperatorTenantDelete(t)
        PROVE  IInv'
    BY <1>2, <1>5, FormKeeps, DeleteKeeps
  <1> QED BY <1>1, <1>3, <1>4, <1>5, StepCases, Zenon

\* What rows, tenants and Postal have to do with each other, in every state.
THEOREM Invariance == Spec => []IInv
  BY InitInv, Inductive, PTL DEF Spec

\* TypeOK: every variable has its type, no id and no name of a tenant is given twice, and a
\* deleted tenant has no domains.
THEOREM TypeCorrect == Spec => []TypeOK
  <1>1. IInv => TypeOK
    BY DEF IInv, Typed
  <1> QED BY <1>1, Invariance, PTL

\* OnePrimary: a tenant with domains has one primary domain and sends from it, but for the
\* race of adding the first one.
THEOREM PrimaryIsOne == Spec => []OnePrimary
  <1>1. IInv => OnePrimary
    <2> SUFFICES ASSUME IInv, NEW t \in Tenants, "raced" \notin past[t]
                 PROVE  LET primaries == {r \in RowsOf(t) : r.primary}
                        IN  /\ Cardinality(primaries) = (IF RowsOf(t) = {} THEN 0 ELSE 1)
                            /\ "typed" \notin past[t] =>
                                    IF primaries = {} THEN tenant[t].sending = Blank
                                    ELSE \E r \in primaries : tenant[t].sending = r.domain
      BY DEF OnePrimary
    <2>1. CASE RowsOf(t) = {}
      <3>1. {r \in RowsOf(t) : r.primary} = {}
        BY <2>1
      <3>2. Sends(t, Blank)
        BY <2>1 DEF IInv, PrimeInv
      <3> QED BY <2>1, <3>1, <3>2, FS_EmptySet DEF Sends
    <2>2. CASE RowsOf(t) # {}
      <3>1. PICK c \in RowsOf(t) : (\A x \in RowsOf(t) : x.primary <=> x = c) /\ Sends(t, c.domain)
        BY <2>2 DEF IInv, PrimeInv
      <3>2. {r \in RowsOf(t) : r.primary} = {c}
        BY <3>1
      <3>3. Cardinality({c}) = 1
        BY FS_Singleton
      <3> QED BY <2>2, <3>1, <3>2, <3>3 DEF Sends
    <2> QED BY <2>1, <2>2
  <1> QED BY <1>1, Invariance, PTL

\* ClaimsHoldUntilRemoved: what a row says of Postal is so, until a removal takes the name.
THEOREM ClaimsHold == Spec => []ClaimsHoldUntilRemoved
  <1>1. IInv => ClaimsHoldUntilRemoved
    BY DEF IInv, ClaimInv, Claims, ClaimsHoldUntilRemoved
  <1> QED BY <1>1, Invariance, PTL

\* BridgeMarkIsEarned: a row is marked as asked of the bridge only with the ownership record,
\* on the bridge's word, or after its record was overwritten.
THEOREM MarksAreEarned == Spec => []BridgeMarkIsEarned
  <1>1. IInv => BridgeMarkIsEarned
    BY DEF IInv, BridgeInv
  <1> QED BY <1>1, Invariance, PTL

\* DomainCap: the plan's number of domains is exceeded by less than the number of processes.
THEOREM CapHolds == Spec => []DomainCap
  <1>1. IInv => DomainCap
    <2> SUFFICES ASSUME IInv, NEW t \in Tenants
                 PROVE  Cardinality(RowsOf(t)) < MaxDomains + Cardinality(Procs)
      BY DEF DomainCap
    <2>1. Cardinality(RowsOf(t)) + Cardinality(Pending(t)) < MaxDomains + Cardinality(Procs)
      BY DEF IInv, CapInv
    <2>2. /\ Cardinality(RowsOf(t)) \in Nat /\ Cardinality(Pending(t)) \in Nat
          /\ MaxDomains \in Nat /\ Cardinality(Procs) \in Nat
      BY FiniteRows, FinitePending, DomainsAssumption, FS_CardinalityType DEF IInv
    <2> QED BY <2>1, <2>2
  <1> QED BY <1>1, Invariance, PTL

\* The check verifies a domain exactly when the table shows SPF, DKIM and DMARC passing,
\* whatever the row holds and the DNS answers.
LEMMA TableAgrees == TableAgreesWithCheck
  <1> SUFFICES ASSUME NEW spf \in BOOLEAN, NEW pv \in BOOLEAN, NEW dkim \in 0 .. MaxKeys,
                      NEW dns \in LiveDns
               PROVE  LET td == [NewDomain(0, 0) EXCEPT !.spf = spf, !.pv = pv, !.dkim = dkim]
                      IN  FullyVerified(CheckTenantDomainDns(td, dns)) <=>
                            /\ {"spf", "dkim"} \subseteq ExpectedRecords(td)
                            /\ \A k \in ExpectedRecords(td) \ {"postal_verification"} :
                                  RowCheck(td, dns, k) = "pass"
    BY Zenon DEF TableAgreesWithCheck
  <1>a. PICK td : td = [NewDomain(0, 0) EXCEPT !.spf = spf, !.pv = pv, !.dkim = dkim]
    OBVIOUS
  <1>1. /\ td.spf = spf /\ td.dkim = dkim /\ td.pv = pv
        /\ \A st, v : /\ [td EXCEPT !.status = st, !.verified = v].status = st
                      /\ [td EXCEPT !.status = st, !.verified = v].verified = v
    BY <1>a DEF NewDomain
  <1>2. /\ dns.lib \in BOOLEAN /\ (~dns.lib => dns.spf = "missing")
    BY DEF LiveDns
  <1> DEFINE good == Ready(td) /\ SpfOk(td, dns) /\ DkimOk(td, dns) /\ DmarcOk(dns)
  <1>3. FullyVerified(CheckTenantDomainDns(td, dns)) <=> good
    <2>1. PICK w1, w2, w3, w4 :
            /\ w1 = [td EXCEPT !.status = "verified", !.verified = TRUE]
            /\ w2 = [td EXCEPT !.status = "partially_verified", !.verified = TRUE]
            /\ w3 = [td EXCEPT !.status = "partially_verified", !.verified = FALSE]
            /\ w4 = [td EXCEPT !.status = "failed_check", !.verified = FALSE]
      OBVIOUS
    <2>2. /\ w1.status = "verified" /\ w1.verified = TRUE
          /\ \A w \in {w2, w3, w4} : w.status # "verified"
      BY <1>a, <2>1 DEF NewDomain
    <2>3. CheckTenantDomainDns(td, dns) =
            CASE ~Ready(td)                                     -> w3
              [] Ready(td) /\ SpfOk(td, dns) /\ DkimOk(td, dns) /\ DmarcOk(dns)  -> w1
              [] Ready(td) /\ SpfOk(td, dns) /\ DkimOk(td, dns) /\ ~DmarcOk(dns) -> w2
              [] Ready(td) /\ SpfOk(td, dns) # DkimOk(td, dns)   -> w3
              [] Ready(td) /\ ~SpfOk(td, dns) /\ ~DkimOk(td, dns) -> w4
      BY <2>1, Zenon DEF CheckTenantDomainDns
    <2>4. SpfOk(td, dns) \in BOOLEAN /\ DkimOk(td, dns) \in BOOLEAN
      BY DEF SpfOk, DkimOk
    <2>5. (good => CheckTenantDomainDns(td, dns) = w1)
          /\ (~good => CheckTenantDomainDns(td, dns) \in {w2, w3, w4})
      BY <2>3, <2>4
    <2> QED BY <2>2, <2>5 DEF FullyVerified
  <1>4. /\ "dmarc" \in ExpectedRecords(td)
        /\ "spf" \in ExpectedRecords(td) <=> ResolveSpf(td)
        /\ "dkim" \in ExpectedRecords(td) <=> ResolveDkim(td)
        /\ ExpectedRecords(td) \ {"postal_verification"} \subseteq {"spf", "dkim", "dmarc"}
    BY DEF ExpectedRecords
  <1>5. /\ RowCheck(td, dns, "spf") = "pass" <=> dns.lib /\ dns.spf = "match"
        /\ RowCheck(td, dns, "dkim") = "pass" <=> dns.lib /\ dns.dkim = td.dkim
        /\ RowCheck(td, dns, "dmarc") = "pass" <=> dns.lib /\ DmarcOk(dns)
    BY <1>2 DEF RowCheck
  <1>6. good <=> /\ ResolveSpf(td) /\ ResolveDkim(td)
                 /\ dns.lib /\ dns.spf = "match" /\ dns.dkim = td.dkim /\ DmarcOk(dns)
    BY <1>2 DEF Ready, SpfOk, DkimOk
  <1>7. FullyVerified(CheckTenantDomainDns(td, dns)) <=>
          /\ {"spf", "dkim"} \subseteq ExpectedRecords(td)
          /\ \A k \in ExpectedRecords(td) \ {"postal_verification"} :
                RowCheck(td, dns, k) = "pass"
    BY <1>3, <1>4, <1>5, <1>6
  <1> QED BY <1>a, <1>7, Zenon

\* PagesAgreeWithDispatch: the check and the table, the sender page and dispatch agree.
THEOREM PagesAgree == Spec => []PagesAgreeWithDispatch
  <1>1. IInv => PagesAgreeWithDispatch
    <2> SUFFICES ASSUME IInv, NEW t \in Tenants, NEW d \in Domains, NEW bypass \in BOOLEAN,
                        Covering(t, d) # {}, ~Exempt(bypass)
                 PROVE  /\ DispatchShouldBlock(t, d, bypass) \/ EmailDomainMatchesVerified(t, d)
                        /\ ~Readiness(t).has_verified_domain => DispatchShouldBlock(t, d, bypass)
                        /\ DispatchShouldBlock(t, d, bypass) /\ EmailDomainMatchesVerified(t, d) =>
                              \E r, x \in Covering(t, d) :
                                  r.domain < x.domain /\ ~FullyVerified(r) /\ FullyVerified(x)
      BY TableAgrees DEF PagesAgreeWithDispatch
    <2>1. PICK rs : rs = Covering(t, d)
      OBVIOUS
    <2>2. /\ rs \subseteq RowsOf(t) /\ rs # {}
          /\ \A r \in rs : r \in rows /\ r.tenant = t /\ r.domain \in Nat
      BY <2>1, RowFacts, DomainsAssumption DEF IInv, Covering, RowsOf
    <2>3. PICK c \in rs : c = TenantDomainForFromHostname(rs) /\ \A x \in rs : c.domain <= x.domain
      BY <2>2, FirstByName
    <2>4. DispatchShouldBlock(t, d, bypass) <=> ~FullyVerified(c)
      BY <2>1, <2>2, <2>3 DEF DispatchShouldBlock
    <2>5. EmailDomainMatchesVerified(t, d) <=> \E r \in rs : FullyVerified(r)
      BY <2>1 DEF EmailDomainMatchesVerified
    <2>6. Readiness(t).has_verified_domain <=> \E r \in RowsOf(t) : FullyVerified(r)
      BY DEF Readiness
    <2>7. ASSUME NEW x \in rs, FullyVerified(x), ~FullyVerified(c)
          PROVE  c.domain < x.domain
      <3>1. Distinct(rows)
        BY DEF IInv, Typed, TypeOK
      <3>2. c.domain # x.domain
        BY <2>2, <2>7, <3>1 DEF Distinct
      <3> QED BY <2>2, <2>3, <3>2
    <2> QED BY <2>1, <2>2, <2>4, <2>5, <2>6, <2>7
  <1> QED BY <1>1, Invariance, PTL
=============================================================================
